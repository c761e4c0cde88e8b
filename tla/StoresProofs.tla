----------------------------- MODULE StoresProofs -----------------------------
(***************************************************************************)
(* Proofs about HistoryStore for every set of processes, scripts and       *)
(* dialects, and any number of failed reads and killed processes; and      *)
(* about the lock of CosmosLock, as Stores runs it, for every number of    *)
(* processes, every expiry and every timeout.                              *)
(***************************************************************************)
EXTENDS Stores, FiniteSetTheorems, WellFoundedInduction, TLAPS

-----------------------------------------------------------------------------
(* Sets of naturals and the dialects                                       *)

\* The least of some naturals.
LEMMA MinIsLeast ==
    ASSUME NEW S \in SUBSET Nat, S # {}
    PROVE  Min(S) \in S /\ \A n \in S : Min(S) <= n
<1>1. PICK v \in S : \A w \in S : <<w, v>> \notin OpToRel(<, Nat)
    BY NatLessThanWellFounded, WFMin
<1>2. \A w \in S : v <= w
  <2> SUFFICES ASSUME NEW w \in S, ~(v <= w) PROVE FALSE
      OBVIOUS
  <2>1. w < v /\ w \in Nat /\ v \in Nat
      OBVIOUS
  <2>2. <<w, v>> \in OpToRel(<, Nat)
      BY <2>1 DEF OpToRel
  <2> QED BY <1>1, <2>2
<1> QED BY <1>2 DEF Min

\* The greatest of some naturals that have a bound.
LEMMA MaxIsGreatest ==
    ASSUME NEW S \in SUBSET Nat, S # {}, NEW b \in Nat, \A n \in S : n <= b
    PROVE  Max(S) \in S /\ \A n \in S : n <= Max(S)
<1> DEFINE Bounds == {n \in Nat : \A m \in S : m <= n}
           top == Min(Bounds)
<1>1. Bounds \in SUBSET Nat /\ Bounds # {}
    OBVIOUS
<1>2. top \in Bounds /\ \A n \in Bounds : top <= n
    BY <1>1, MinIsLeast
<1> HIDE DEF top
<1>3. top \in S
  <2> SUFFICES ASSUME top \notin S PROVE FALSE
      OBVIOUS
  <2>1. PICK n \in S : TRUE
      OBVIOUS
  <2>2. top # 0
      BY <1>2, <2>1
  <2>3. \A m \in S : m <= top - 1
      BY <1>2
  <2>4. top - 1 \in Bounds
      BY <1>2, <2>2, <2>3
  <2> QED BY <1>2, <2>4
<1> QED BY <1>2, <1>3 DEF Max

\* What the proofs need to know of the dialects.
LEMMA ProviderFacts ==
    ASSUME HistoryStoreAssumption, NEW d \in Dialects
    PROVE  /\ Provider[d].rank \in {"serial", "max"}
           /\ Provider[d].read \in {"raises", "empty"}
           /\ Provider[d].read = "empty" <=> d = "cosmosdb"
<1>1. d \in DOMAIN Provider
    BY DEF HistoryStoreAssumption
<1>2. \A a, b : /\ Relational(a, b).rank = "serial" /\ Relational(a, b).read = "raises"
    BY DEF Relational
<1>3. /\ PostgreSql.rank = "serial" /\ Mysql.rank = "serial" /\ SqlServer.rank = "serial"
      /\ Db2.rank = "serial" /\ Oracle.rank = "serial" /\ Snowflake.rank = "serial"
      /\ DuckDb.rank = "serial" /\ Sqlite.rank = "serial"
    BY <1>2 DEF PostgreSql, Mysql, SqlServer, Db2, Oracle, Snowflake, DuckDb, Sqlite
<1>4. /\ PostgreSql.read = "raises" /\ Mysql.read = "raises" /\ SqlServer.read = "raises"
      /\ Db2.read = "raises" /\ Oracle.read = "raises" /\ Snowflake.read = "raises"
      /\ DuckDb.read = "raises" /\ Sqlite.read = "raises"
    BY <1>2 DEF PostgreSql, Mysql, SqlServer, Db2, Oracle, Snowflake, DuckDb, Sqlite
<1>5. PostgreSqlFlyway.rank = "max" /\ PostgreSqlFlyway.read = "raises"
    BY DEF PostgreSqlFlyway, PostgreSql, Relational
<1>6. MongoDb.rank = "max" /\ MongoDb.read = "raises"
    BY DEF MongoDb, Relational
<1>7. CosmosDb.rank = "max" /\ CosmosDb.read = "empty"
    BY DEF CosmosDb, Relational
<1>8. \/ d = "cosmosdb" /\ Provider[d] = CosmosDb
      \/ d # "cosmosdb" /\ Provider[d] \in {PostgreSql, PostgreSqlFlyway, Mysql, SqlServer, Db2, Oracle,
                                            Snowflake, DuckDb, Sqlite, MongoDb}
    BY <1>1 DEF Provider
<1> QED BY <1>3, <1>4, <1>5, <1>6, <1>7, <1>8

-----------------------------------------------------------------------------
(* Types                                                                   *)

\* A process past the creation found the schema and the table, or made them; one that
\* writes has a rank where the database gives none.
Beyond == {"wait", "plan", "execute", "rank", "write", "done"}
PlaceInv ==
    \A p \in Procs :
        /\ proc[p].pc \in Beyond \cup {"table?", "table!"} => schema
        /\ proc[p].pc \in Beyond => table
        /\ proc[p].pc = "write" /\ It.rank = "max" => proc[p].rank # 0

\* There is a bound on the ranks of the rows.
BoundInv == \E b \in Nat : \A r \in rows : r.rank <= b

\* What the other processes know stays.
Only(p) == \A q \in Procs \ {p} : proc'[q] = proc[q]

\* A process goes elsewhere and remembers what it knew.
LEMMA GoesOn ==
    ASSUME proc \in [Procs -> Process], NEW p \in Procs, NEW pc \in PCs, Goto(p, pc)
    PROVE  /\ proc' \in [Procs -> Process] /\ Only(p) /\ proc'[p].pc = pc
           /\ proc'[p].attempt = proc[p].attempt /\ proc'[p].why = proc[p].why
           /\ proc'[p].todo = proc[p].todo /\ proc'[p].rank = proc[p].rank
BY DEF Goto, Only, Process

\* A process fails for a reason.
LEMMA Fails ==
    ASSUME proc \in [Procs -> Process], NEW p \in Procs,
           NEW why \in {"race", "not empty", "read", "rank"}, Fail(p, why)
    PROVE  /\ proc' \in [Procs -> Process] /\ Only(p)
           /\ proc'[p].pc = "failed" /\ proc'[p].why = why
           /\ proc'[p].attempt = proc[p].attempt
<1>1. proc' = [proc EXCEPT ![p] = [proc[p] EXCEPT !.pc = "failed", !.why = why]]
    BY DEF Fail
<1>2. [proc[p] EXCEPT !.pc = "failed", !.why = why] \in Process
    BY DEF Process, PCs
<1> QED BY <1>1, <1>2 DEF Only, Process

\* A process that lost a race starts over, or fails at the last attempt.
LEMMA StartsOver ==
    ASSUME proc \in [Procs -> Process], NEW p \in Procs, Raced(p)
    PROVE  /\ proc' \in [Procs -> Process] /\ Only(p)
           /\ proc[p].attempt = 3 => proc'[p].pc = "failed"
           /\ proc[p].attempt # 3 =>
                /\ proc'[p].pc = "schema?" /\ proc'[p].why = proc[p].why
                /\ proc'[p].attempt = proc[p].attempt + 1
<1>1. CASE proc[p].attempt = 3
    BY <1>1, Fails DEF Raced, MaxAttempts
<1>2. CASE proc[p].attempt # 3
  <2>1. proc' = [proc EXCEPT ![p] = [proc[p] EXCEPT !.pc = "schema?", !.attempt = proc[p].attempt + 1]]
      BY <1>2 DEF Raced, MaxAttempts
  <2>2. [proc[p] EXCEPT !.pc = "schema?", !.attempt = proc[p].attempt + 1] \in Process
    <3>1. proc[p] \in Process
        OBVIOUS
    <3>2. proc[p].attempt \in 1..3
        BY <3>1 DEF Process
    <3>3. proc[p].attempt + 1 \in 1..3
        BY <3>2, <1>2
    <3> QED BY <3>1, <3>3 DEF Process, PCs
  <2> QED BY <1>2, <2>1, <2>2 DEF Only, Process
<1> QED BY <1>1, <1>2

\* A process that starts another script has one that is pending.
LEMMA PendingHasMin ==
    ASSUME HistoryStoreAssumption, NEW known, Pending(known) # {}
    PROVE  Min(Pending(known)) \in Scripts \ known
BY MinIsLeast DEF Pending, HistoryStoreAssumption

\* What a process does with the history it read.
LEMMA Plans ==
    ASSUME HistoryStoreAssumption, proc \in [Procs -> Process], NEW p \in Procs,
           NEW known, Plan(p, known)
    PROVE  /\ proc' \in [Procs -> Process] /\ Only(p)
           /\ \/ proc'[p].pc \in {"failed", "done"} /\ Release(p)
              \/ /\ p \in Baseliner /\ known = {} /\ proc'[p].pc = "rank"
                 /\ proc'[p].todo = Marker /\ UNCHANGED lock
              \/ /\ p \notin Baseliner /\ proc'[p].pc = "execute"
                 /\ proc'[p].todo \in Scripts \ known /\ UNCHANGED lock
           /\ proc'[p].attempt = proc[p].attempt
           /\ proc'[p].why \in {proc[p].why, "not empty"}
           /\ proc'[p].pc = "done" => proc'[p].why = proc[p].why
<1>1. CASE p \in Baseliner /\ known # {}
    BY <1>1, Fails DEF Plan
<1>2. CASE p \in Baseliner /\ known = {}
  <2>1. proc' = [proc EXCEPT ![p] = [proc[p] EXCEPT !.pc = "rank", !.todo = Marker]] /\ UNCHANGED lock
      BY <1>2 DEF Plan
  <2>2. [proc[p] EXCEPT !.pc = "rank", !.todo = Marker] \in Process
      BY DEF Process, PCs
  <2> QED BY <1>2, <2>1, <2>2 DEF Only, Process
<1>3. CASE p \notin Baseliner /\ Pending(known) = {}
    BY <1>3, GoesOn DEF Plan, PCs
<1>4. CASE p \notin Baseliner /\ Pending(known) # {}
  <2> DEFINE s == Min(Pending(known))
  <2>1. s \in Scripts \ known
      BY <1>4, PendingHasMin
  <2>2. proc' = [proc EXCEPT ![p] = [proc[p] EXCEPT !.pc = "execute", !.todo = s]] /\ UNCHANGED lock
      BY <1>4 DEF Plan
  <2> HIDE DEF s
  <2>3. [proc[p] EXCEPT !.pc = "execute", !.todo = s] \in Process
      BY <2>1 DEF Process, PCs
  <2> QED BY <1>4, <2>1, <2>2, <2>3 DEF Only, Process
<1> QED BY <1>1, <1>2, <1>3, <1>4

\* The rank a store without identity gives is above those of the rows.
LEMMA NextRankIsNext ==
    ASSUME rows \subseteq Row, BoundInv, NEW p
    PROVE  NextRank(p) \in Nat \ {0} /\ \A r \in rows : r.rank < NextRank(p)
<1> DEFINE S == {r.rank : r \in rows} \cup {0}
<1>1. S \in SUBSET Nat /\ S # {}
    BY DEF Row
<1>2. PICK b \in Nat : \A n \in S : n <= b
    BY DEF BoundInv
<1>3. Highest \in S /\ \A n \in S : n <= Highest
    BY <1>1, <1>2, MaxIsGreatest DEF Highest
<1> HIDE DEF S
<1>4. Highest \in Nat
    BY <1>1, <1>3
<1>5. ASSUME NEW r \in rows PROVE r.rank \in Nat /\ r.rank <= Highest
  <2>1. r.rank \in S
      BY DEF S
  <2> QED BY <2>1, <1>1, <1>3
<1> QED BY <1>4, <1>5 DEF NextRank

\* A process learns the rank of its row.
LEMMA Ranks ==
    ASSUME proc \in [Procs -> Process], rows \subseteq Row, BoundInv,
           NEW p \in Procs, ReadRank(p)
    PROVE  /\ proc' \in [Procs -> Process] /\ Only(p) /\ proc'[p].pc = "write"
           /\ proc'[p].attempt = proc[p].attempt /\ proc'[p].why = proc[p].why
           /\ proc'[p].todo = proc[p].todo
           /\ It.rank = "max" => proc'[p].rank # 0 /\ \A r \in rows : r.rank < proc'[p].rank
<1> DEFINE n == IF It.rank = "max" THEN NextRank(p) ELSE 0
<1>1. n \in Nat
    BY NextRankIsNext
<1>2. proc' = [proc EXCEPT ![p] = [proc[p] EXCEPT !.pc = "write", !.rank = n]]
    BY DEF ReadRank
<1>3. It.rank = "max" => n # 0 /\ \A r \in rows : r.rank < n
    BY NextRankIsNext
<1> HIDE DEF n
<1>4. [proc[p] EXCEPT !.pc = "write", !.rank = n] \in Process
    BY <1>1 DEF Process, PCs
<1> QED BY <1>2, <1>3, <1>4 DEF Only, Process

\* The rank of the row a process writes.
RankOf(p) == IF It.rank = "max" THEN proc[p].rank ELSE serial + 1
RowOf(p) == [rank |-> RankOf(p), script |-> proc[p].todo, by |-> p]

\* A process writes its row, or is refused for its rank.
LEMMA Writes ==
    ASSUME proc \in [Procs -> Process], NEW p \in Procs, WriteRow(p)
    PROVE  /\ proc' \in [Procs -> Process] /\ Only(p) /\ proc'[p].attempt = proc[p].attempt
           /\ \/ /\ proc'[p].pc = "failed" /\ proc'[p].why = "rank" /\ Release(p)
                 /\ (\E r \in rows : r.rank = RankOf(p)) /\ UNCHANGED <<rows, serial>>
              \/ /\ proc'[p].why = proc[p].why
                 /\ rows' = (rows \ Replaced(RowOf(p))) \cup {RowOf(p)}
                 /\ serial' = IF It.rank = "serial" THEN serial + 1 ELSE serial
                 /\ \/ p \in Baseliner /\ proc'[p].pc = "done" /\ Release(p)
                    \/ p \notin Baseliner /\ proc'[p].pc = "plan" /\ UNCHANGED lock
<1>1. \/ /\ Fail(p, "rank") /\ Release(p) /\ UNCHANGED <<rows, serial>>
         /\ \E r \in rows : r.rank = RankOf(p)
      \/ /\ Goto(p, IF p \in Baseliner THEN "done" ELSE "plan")
         /\ rows' = (rows \ Replaced(RowOf(p))) \cup {RowOf(p)}
         /\ serial' = IF It.rank = "serial" THEN serial + 1 ELSE serial
         /\ IF p \in Baseliner THEN Release(p) ELSE UNCHANGED lock
    BY DEF WriteRow, RankOf, RowOf
<1>2. CASE Fail(p, "rank")
    BY <1>1, <1>2, Fails, GoesOn DEF PCs
<1>3. CASE Goto(p, IF p \in Baseliner THEN "done" ELSE "plan")
    BY <1>1, <1>3, Fails, GoesOn DEF PCs
<1> QED BY <1>1, <1>2, <1>3

\* Every step keeps the types.
LEMMA StoreTyped ==
    ASSUME HistoryStoreAssumption
    PROVE  TypeOK /\ PlaceInv /\ BoundInv /\ [Next]_vars => TypeOK' /\ PlaceInv' /\ BoundInv'
<1> SUFFICES ASSUME TypeOK, PlaceInv, BoundInv, [Next]_vars
             PROVE  TypeOK' /\ PlaceInv' /\ BoundInv'
    OBVIOUS
<1> USE DEF TypeOK, PlaceInv, Beyond, PCs, At, Only, It
<1>a. NoOne \notin Procs /\ Baseliner \subseteq Procs /\ MaxFaults \in Nat
    BY DEF HistoryStoreAssumption
<1>1. ASSUME NEW p \in Procs, CheckSchema(p) PROVE TypeOK' /\ PlaceInv'
    BY <1>1, GoesOn DEF CheckSchema
<1>2. ASSUME NEW p \in Procs, CreateSchema(p) PROVE TypeOK' /\ PlaceInv'
  <2>1. Raced(p) \/ Goto(p, "table?")
      BY <1>2 DEF CreateSchema
  <2>2. UNCHANGED <<dialect, table, rows, serial, lock, runs, faults>> /\ schema'
      BY <1>2 DEF CreateSchema
  <2>3. CASE Raced(p)
      BY <2>3, <2>2, StartsOver
  <2>4. CASE Goto(p, "table?")
      BY <2>4, <2>2, GoesOn
  <2> QED BY <2>1, <2>3, <2>4
<1>3. ASSUME NEW p \in Procs, CheckTable(p) PROVE TypeOK' /\ PlaceInv'
  <2>1. \/ ~table /\ Goto(p, "table!")
        \/ Fail(p, "not empty")
        \/ table /\ Goto(p, "wait")
      BY <1>3 DEF CheckTable
  <2>2. UNCHANGED <<dialect, schema, table, rows, serial, lock, runs, faults>> /\ schema
      BY <1>3 DEF CheckTable
  <2>3. CASE Fail(p, "not empty")
      BY <2>3, <2>2, Fails
  <2>4. CASE ~table /\ Goto(p, "table!")
      BY <2>4, <2>2, GoesOn
  <2>5. CASE table /\ Goto(p, "wait")
      BY <2>5, <2>2, GoesOn
  <2> QED BY <2>1, <2>3, <2>4, <2>5
<1>4. ASSUME NEW p \in Procs, CreateTable(p) PROVE TypeOK' /\ PlaceInv'
  <2>1. Raced(p) \/ Goto(p, "wait")
      BY <1>4 DEF CreateTable
  <2>2. UNCHANGED <<dialect, schema, rows, serial, lock, runs, faults>> /\ schema /\ table'
      BY <1>4 DEF CreateTable
  <2>3. CASE Raced(p)
      BY <2>3, <2>2, StartsOver
  <2>4. CASE Goto(p, "wait")
      BY <2>4, <2>2, GoesOn
  <2> QED BY <2>1, <2>3, <2>4
<1>5. ASSUME NEW p \in Procs, Acquire(p) PROVE TypeOK' /\ PlaceInv'
    BY <1>5, GoesOn DEF Acquire
<1>6. ASSUME NEW p \in Procs, At(p, "plan"), NEW known, Plan(p, known),
             UNCHANGED <<dialect, schema, table, rows, serial, runs>>, faults' \in 0..MaxFaults
      PROVE  TypeOK' /\ PlaceInv'
  <2>1. lock' \in Procs \cup {NoOne}
      BY <1>6, Plans DEF Release
  <2>2. /\ proc' \in [Procs -> Process] /\ \A q \in Procs \ {p} : proc'[q] = proc[q]
        /\ proc'[p].pc \in {"failed", "done", "rank", "execute"}
      BY <1>6, Plans
  <2>3. UNCHANGED <<dialect, schema, table, rows, serial, runs>> /\ faults' \in 0..MaxFaults
      BY <1>6
  <2>4. schema /\ table
      BY <1>6
  <2>5. TypeOK'
      BY <2>1, <2>2, <2>3
  <2>6. PlaceInv'
      BY <2>2, <2>3, <2>4
  <2> QED BY <2>5, <2>6
<1>7. ASSUME NEW p \in Procs, ReadHistory(p) PROVE TypeOK' /\ PlaceInv'
    BY <1>7, <1>6 DEF ReadHistory
<1>8. ASSUME NEW p \in Procs, ReadFails(p) PROVE TypeOK' /\ PlaceInv'
  <2>1. faults' \in 0..MaxFaults
      BY <1>8, <1>a DEF ReadFails
  <2>2. CASE It.read = "raises"
      BY <1>8, <2>1, <2>2, Fails DEF ReadFails, Release
  <2>3. CASE It.read # "raises"
      BY <1>8, <2>1, <2>3, <1>6 DEF ReadFails
  <2> QED BY <2>2, <2>3
<1>9. ASSUME NEW p \in Procs, Execute(p) PROVE TypeOK' /\ PlaceInv'
  <2>1. runs' \in [Scripts -> Nat]
    <3>1. runs \in [Scripts -> Nat] /\ runs' = [runs EXCEPT ![proc[p].todo] = runs[proc[p].todo] + 1]
        BY <1>9 DEF Execute
    <3>2. \A s \in Scripts : runs[s] + 1 \in Nat
        BY <3>1
    <3> QED BY <3>1, <3>2
  <2> QED BY <1>9, <2>1, GoesOn DEF Execute
<1>10. ASSUME NEW p \in Procs, ReadRank(p) PROVE TypeOK' /\ PlaceInv'
    BY <1>10, Ranks DEF ReadRank
<1>11. ASSUME NEW p \in Procs, WriteRow(p) PROVE TypeOK' /\ PlaceInv' /\ BoundInv'
  <2>1. RankOf(p) \in Nat \ {0} /\ RowOf(p) \in Row
    <3>1. proc[p] \in Process /\ serial + 1 \in Nat \ {0}
        OBVIOUS
    <3>2. proc[p].rank \in Nat /\ proc[p].todo \in Scripts \cup {Marker}
        BY <3>1 DEF Process
    <3>3. RankOf(p) \in Nat \ {0}
        BY <3>1, <3>2, <1>11 DEF RankOf, WriteRow
    <3> QED BY <3>2, <3>3 DEF RowOf, Row
  <2>2. rows' \subseteq rows \cup {RowOf(p)} /\ rows' \subseteq Row /\ serial' \in Nat
      BY <1>11, <2>1, Writes
  <2>3. lock' \in Procs \cup {NoOne}
      BY <1>11, Writes DEF Release
  <2>4. UNCHANGED <<dialect, schema, table, runs, faults>> /\ table /\ schema
      BY <1>11 DEF WriteRow
  <2>5. BoundInv'
    <3>1. PICK b \in Nat : \A r \in rows : r.rank <= b
        BY DEF BoundInv
    <3>2. PICK c \in Nat : b <= c /\ RankOf(p) <= c
        BY <2>1
    <3>3. \A r \in rows : r.rank \in Nat
        BY DEF Row
    <3>4. \A r \in rows' : r.rank <= c
        BY <2>2, <3>1, <3>2, <3>3 DEF RowOf
    <3> QED BY <3>4 DEF BoundInv
  <2>6. TypeOK'
      BY <1>11, <2>2, <2>3, <2>4, Writes
  <2>7. PlaceInv'
      BY <1>11, <2>4, Writes
  <2> QED BY <2>5, <2>6, <2>7
<1>12. ASSUME NEW p \in Procs, Die(p) PROVE TypeOK' /\ PlaceInv'
  <2>1. lock' \in Procs \cup {NoOne}
      BY <1>12 DEF Die, Release
  <2> QED BY <1>12, <2>1, GoesOn DEF Die
<1>13. CASE UNCHANGED vars
  <2>1. UNCHANGED <<dialect, schema, table, rows, serial, lock, proc, runs, faults>>
      BY <1>13 DEF vars
  <2>2. TypeOK' /\ PlaceInv'
      BY <2>1
  <2> QED BY <2>1, <2>2 DEF BoundInv
<1>14. UNCHANGED rows => BoundInv'
    BY DEF BoundInv
<1>15. ASSUME NEW p \in Procs, Step(p) \/ ReadFails(p) \/ Die(p), ~WriteRow(p) PROVE UNCHANGED rows
    BY <1>15 DEF Step, CheckSchema, CreateSchema, CheckTable, CreateTable, Acquire, ReadHistory, Execute,
                 ReadRank, ReadFails, Die
<1> QED BY <1>1, <1>2, <1>3, <1>4, <1>5, <1>7, <1>8, <1>9, <1>10, <1>11, <1>12, <1>13, <1>14, <1>15
        DEF Next, Step, vars

\* The types at the start.
LEMMA StoreStarts ==
    ASSUME HistoryStoreAssumption, Init
    PROVE  TypeOK /\ PlaceInv /\ BoundInv
<1>1. proc = [p \in Procs |-> [pc |-> "schema?", attempt |-> 1, why |-> "", todo |-> Marker, rank |-> 0]]
    BY DEF Init
<1>2. [pc |-> "schema?", attempt |-> 1, why |-> "", todo |-> Marker, rank |-> 0] \in Process
    BY DEF Process, PCs
<1>3. proc \in [Procs -> Process] /\ \A p \in Procs : proc[p].pc = "schema?"
    BY <1>1, <1>2
<1>4. TypeOK
  <2>0. MaxFaults \in Nat /\ runs = [s \in Scripts |-> 0] /\ faults = 0 /\ rows = {}
      BY DEF Init, HistoryStoreAssumption
  <2>1. runs \in [Scripts -> Nat] /\ faults \in 0..MaxFaults /\ rows = {}
      BY <2>0
  <2>2. dialect \in Dialects /\ lock = NoOne /\ serial = 0 /\ schema = FALSE /\ table = FALSE
      BY DEF Init
  <2> QED BY <1>3, <2>1, <2>2 DEF TypeOK
<1>5. PlaceInv
    BY <1>3 DEF PlaceInv, Beyond
<1>6. BoundInv
    BY DEF Init, BoundInv
<1> QED BY <1>4, <1>5, <1>6

-----------------------------------------------------------------------------
(* Who works on the history                                                *)

\* The steps that need the migration lock.
Locked == {"plan", "execute", "rank", "write"}

\* The processes that work on the history hold the migration lock.
LockInv == \A p \in Procs : proc[p].pc \in Locked => lock = p

\* Every step keeps the lock for those who work on the history.
LEMMA LockHeld ==
    ASSUME HistoryStoreAssumption, TypeOK, BoundInv, LockInv, [Next]_vars
    PROVE  LockInv'
<1> USE DEF LockInv, Locked
<1>a. NoOne \notin Procs /\ proc \in [Procs -> Process] /\ rows \subseteq Row
    BY DEF HistoryStoreAssumption, TypeOK
<1>1. ASSUME NEW p \in Procs, UNCHANGED lock, Only(p), proc[p].pc \in Locked \/ proc'[p].pc \notin Locked
      PROVE  LockInv'
    BY <1>1 DEF Only
<1>2. ASSUME NEW p \in Procs, Release(p), Only(p), proc'[p].pc \notin Locked
      PROVE  LockInv'
    BY <1>2 DEF Only, Release
<1>3. ASSUME NEW p \in Procs, CheckSchema(p) PROVE LockInv'
    BY <1>a, <1>1, <1>3, GoesOn DEF CheckSchema, PCs
<1>4. ASSUME NEW p \in Procs, CreateSchema(p) PROVE LockInv'
  <2>1. Raced(p) \/ Goto(p, "table?")
      BY <1>4 DEF CreateSchema
  <2>2. Only(p) /\ proc'[p].pc \notin Locked
      BY <1>a, <2>1, StartsOver, GoesOn DEF PCs
  <2> QED BY <1>1, <1>4, <2>2 DEF CreateSchema
<1>5. ASSUME NEW p \in Procs, CheckTable(p) PROVE LockInv'
  <2>1. Goto(p, "table!") \/ Fail(p, "not empty") \/ Goto(p, "wait")
      BY <1>5 DEF CheckTable
  <2>2. Only(p) /\ proc'[p].pc \notin Locked
      BY <1>a, <2>1, Fails, GoesOn DEF PCs
  <2> QED BY <1>1, <1>5, <2>2 DEF CheckTable
<1>6. ASSUME NEW p \in Procs, CreateTable(p) PROVE LockInv'
  <2>1. Raced(p) \/ Goto(p, "wait")
      BY <1>6 DEF CreateTable
  <2>2. Only(p) /\ proc'[p].pc \notin Locked
      BY <1>a, <2>1, StartsOver, GoesOn DEF PCs
  <2> QED BY <1>1, <1>6, <2>2 DEF CreateTable
<1>7. ASSUME NEW p \in Procs, Acquire(p) PROVE LockInv'
  <2>1. Only(p) /\ lock = NoOne /\ lock' = p
      BY <1>a, <1>7, GoesOn DEF Acquire, PCs
  <2> QED BY <1>a, <2>1 DEF Only
<1>8. ASSUME NEW p \in Procs, NEW known, At(p, "plan"), Plan(p, known) PROVE LockInv'
  <2>1. Only(p) /\ ((proc'[p].pc \notin Locked /\ Release(p)) \/ UNCHANGED lock)
      BY <1>a, <1>8, Plans
  <2> QED BY <1>1, <1>2, <1>8, <2>1 DEF At
<1>9. ASSUME NEW p \in Procs, ReadHistory(p) PROVE LockInv'
    BY <1>8, <1>9 DEF ReadHistory
<1>10. ASSUME NEW p \in Procs, ReadFails(p) PROVE LockInv'
  <2>1. CASE It.read = "raises"
      BY <1>a, <1>2, <1>10, <2>1, Fails DEF ReadFails
  <2>2. CASE It.read # "raises"
      BY <1>8, <1>10, <2>2 DEF ReadFails
  <2> QED BY <2>1, <2>2
<1>11. ASSUME NEW p \in Procs, Execute(p) PROVE LockInv'
    BY <1>a, <1>1, <1>11, GoesOn DEF Execute, PCs, At
<1>12. ASSUME NEW p \in Procs, ReadRank(p) PROVE LockInv'
    BY <1>a, <1>1, <1>12, Ranks DEF ReadRank, At
<1>13. ASSUME NEW p \in Procs, WriteRow(p) PROVE LockInv'
  <2>1. /\ Only(p) /\ proc[p].pc \in Locked
        /\ (proc'[p].pc \notin Locked /\ Release(p)) \/ UNCHANGED lock
      BY <1>a, <1>13, Writes DEF WriteRow, At
  <2> QED BY <1>1, <1>2, <2>1
<1>14. ASSUME NEW p \in Procs, Die(p) PROVE LockInv'
    BY <1>a, <1>2, <1>14, GoesOn DEF Die, PCs
<1>15. CASE UNCHANGED vars
    BY <1>15 DEF vars
<1> QED BY <1>3, <1>4, <1>5, <1>6, <1>7, <1>9, <1>10, <1>11, <1>12, <1>13, <1>14, <1>15 DEF Next, Step

-----------------------------------------------------------------------------
(* Races for the schema and the table                                      *)

\* A second attempt finds the schema, a third one the table, so none is lost to a race.
RaceInv ==
    \A p \in Procs :
        /\ proc[p].why # "race"
        /\ proc[p].attempt \in 1..3
        /\ proc[p].attempt # 1 => schema
        /\ proc[p].attempt = 3 => table
        /\ proc[p].pc = "schema!" => proc[p].attempt = 1
        /\ proc[p].pc = "table!" => proc[p].attempt # 3

\* Every step loses at most one of the races.
LEMMA RaceStep ==
    ASSUME HistoryStoreAssumption, TypeOK, PlaceInv, BoundInv, RaceInv, [Next]_vars
    PROVE  RaceInv'
<1> USE DEF RaceInv
<1>a. proc \in [Procs -> Process] /\ rows \subseteq Row
    BY DEF TypeOK
<1>1. ASSUME NEW p \in Procs, Only(p), schema => schema', table => table',
             proc'[p].why # "race", proc'[p].attempt = proc[p].attempt,
             proc'[p].pc \notin {"schema!", "table!"}
      PROVE  RaceInv'
    BY <1>1 DEF Only
<1>2. ASSUME NEW p \in Procs, CheckSchema(p) PROVE RaceInv'
  <2>1. CASE schema
    <3>1. Goto(p, "table?") /\ UNCHANGED <<schema, table>>
        BY <1>2, <2>1 DEF CheckSchema
    <3> QED BY <1>a, <1>1, <3>1, GoesOn DEF PCs
  <2>2. CASE ~schema
    <3>1. Goto(p, "schema!") /\ UNCHANGED <<schema, table>>
        BY <1>2, <2>2 DEF CheckSchema
    <3>2. /\ Only(p) /\ proc'[p].pc = "schema!" /\ proc'[p].attempt = proc[p].attempt
          /\ proc'[p].why = proc[p].why
        BY <1>a, <3>1, GoesOn DEF PCs
    <3> QED BY <2>2, <3>1, <3>2 DEF Only
  <2> QED BY <2>1, <2>2
<1>3. ASSUME NEW p \in Procs, CreateSchema(p) PROVE RaceInv'
  <2>1. (Raced(p) \/ Goto(p, "table?")) /\ schema' = TRUE /\ UNCHANGED table
      BY <1>3 DEF CreateSchema
  <2>2. CASE Goto(p, "table?")
      BY <1>a, <1>1, <2>1, <2>2, GoesOn DEF PCs
  <2>3. CASE Raced(p)
    <3>1. proc[p].attempt = 1
        BY <1>3 DEF CreateSchema, At
    <3>2. /\ Only(p) /\ proc'[p].attempt = 2 /\ proc'[p].pc = "schema?"
          /\ proc'[p].why = proc[p].why
        BY <1>a, <2>3, <3>1, StartsOver
    <3> QED BY <2>1, <3>2 DEF Only
  <2> QED BY <2>1, <2>2, <2>3
<1>4. ASSUME NEW p \in Procs, CheckTable(p) PROVE RaceInv'
  <2>1. UNCHANGED <<schema, table>>
      BY <1>4 DEF CheckTable
  <2>2. CASE Fail(p, "not empty") \/ Goto(p, "wait")
    <3>1. /\ Only(p) /\ proc'[p].why # "race" /\ proc'[p].attempt = proc[p].attempt
          /\ proc'[p].pc \notin {"schema!", "table!"}
        BY <1>a, <2>2, Fails, GoesOn DEF PCs
    <3> QED BY <1>1, <2>1, <3>1
  <2>3. CASE ~table /\ Goto(p, "table!")
    <3>1. /\ Only(p) /\ proc'[p].pc = "table!" /\ proc'[p].attempt = proc[p].attempt
          /\ proc'[p].why = proc[p].why
        BY <1>a, <2>3, GoesOn DEF PCs
    <3> QED BY <2>1, <2>3, <3>1 DEF Only
  <2> QED BY <1>4, <2>2, <2>3 DEF CheckTable
<1>5. ASSUME NEW p \in Procs, CreateTable(p) PROVE RaceInv'
  <2>1. (Raced(p) \/ Goto(p, "wait")) /\ table' = TRUE /\ UNCHANGED schema /\ schema
      BY <1>5 DEF CreateTable, PlaceInv, At
  <2>2. CASE Goto(p, "wait")
      BY <1>a, <1>1, <2>1, <2>2, GoesOn DEF PCs
  <2>3. CASE Raced(p)
    <3>1. proc[p].attempt \in 1..2
        BY <1>5 DEF CreateTable, At
    <3>2. /\ Only(p) /\ proc'[p].attempt = proc[p].attempt + 1 /\ proc'[p].pc = "schema?"
          /\ proc'[p].why = proc[p].why
        BY <1>a, <2>3, <3>1, StartsOver
    <3> QED BY <2>1, <3>1, <3>2 DEF Only
  <2> QED BY <2>1, <2>2, <2>3
<1>6. ASSUME NEW p \in Procs, NEW known, Plan(p, known), UNCHANGED <<schema, table>> PROVE RaceInv'
  <2>1. /\ Only(p) /\ proc'[p].why # "race" /\ proc'[p].attempt = proc[p].attempt
        /\ proc'[p].pc \notin {"schema!", "table!"}
      BY <1>a, <1>6, Plans
  <2> QED BY <1>1, <1>6, <2>1
<1>7. ASSUME NEW p \in Procs, ReadFails(p) PROVE RaceInv'
  <2>1. CASE It.read = "raises"
      BY <1>a, <1>1, <1>7, <2>1, Fails DEF ReadFails
  <2>2. CASE It.read # "raises"
      BY <1>6, <1>7, <2>2 DEF ReadFails
  <2> QED BY <2>1, <2>2
<1>8. ASSUME NEW p \in Procs, Acquire(p) \/ Execute(p) \/ Die(p) PROVE RaceInv'
  <2>1. /\ Goto(p, "plan") \/ Goto(p, "rank") \/ Goto(p, "dead")
        /\ UNCHANGED <<schema, table>>
      BY <1>8 DEF Acquire, Execute, Die
  <2> QED BY <1>a, <1>1, <2>1, GoesOn DEF PCs
<1>9. ASSUME NEW p \in Procs, ReadRank(p) PROVE RaceInv'
  <2>1. /\ Only(p) /\ proc'[p].attempt = proc[p].attempt /\ proc'[p].why = proc[p].why
        /\ proc'[p].pc = "write"
      BY <1>a, <1>9, Ranks
  <2> QED BY <1>1, <1>9, <2>1 DEF ReadRank
<1>10. ASSUME NEW p \in Procs, WriteRow(p) PROVE RaceInv'
  <2>1. /\ Only(p) /\ proc'[p].attempt = proc[p].attempt /\ proc'[p].why # "race"
        /\ proc'[p].pc \notin {"schema!", "table!"}
      BY <1>a, <1>10, Writes
  <2> QED BY <1>1, <1>10, <2>1 DEF WriteRow
<1>11. CASE UNCHANGED vars
    BY <1>11 DEF vars
<1> QED BY <1>2, <1>3, <1>4, <1>5, <1>6, <1>7, <1>8, <1>9, <1>10, <1>11 DEF Next, Step, ReadHistory

-----------------------------------------------------------------------------
(* Ranks                                                                   *)

\* The identity is not behind the rows, a rank that was read is above them, and none of
\* them is in use twice.
RankInv ==
    /\ It.rank = "serial" => \A r \in rows : r.rank <= serial
    /\ It.rank = "max" =>
         \A p \in Procs : proc[p].pc = "write" => \A r \in rows : r.rank < proc[p].rank
    /\ RanksUnique

\* The row a process writes comes after the others, so it replaces none by its rank and is
\* not refused.
LEMMA WrittenLast ==
    ASSUME HistoryStoreAssumption, TypeOK, RankInv, NEW p \in Procs, WriteRow(p)
    PROVE  /\ \A r \in rows : r.rank < RankOf(p)
           /\ proc'[p].why = proc[p].why /\ Only(p) /\ proc'[p].pc # "write"
           /\ rows' = (rows \ Replaced(RowOf(p))) \cup {RowOf(p)}
           /\ serial' = IF It.rank = "serial" THEN serial + 1 ELSE serial
           /\ UNCHANGED dialect
<1>1. It.rank \in {"serial", "max"}
    BY ProviderFacts DEF It, TypeOK
<1>2. serial \in Nat /\ \A r \in rows : r.rank \in Nat
    BY DEF TypeOK, Row
<1>3. \A r \in rows : r.rank < RankOf(p)
  <2>1. CASE It.rank = "serial"
      BY <1>2, <2>1 DEF RankInv, RankOf
  <2>2. CASE It.rank = "max"
      BY <2>2 DEF RankInv, RankOf, WriteRow, At
  <2> QED BY <1>1, <2>1, <2>2
<1>4. ~\E r \in rows : r.rank = RankOf(p)
    BY <1>2, <1>3
<1>5. proc \in [Procs -> Process]
    BY DEF TypeOK
<1> QED BY <1>3, <1>4, <1>5, Writes DEF WriteRow

\* Every step keeps the ranks apart.
LEMMA RankStep ==
    ASSUME HistoryStoreAssumption, TypeOK, BoundInv, LockInv, RankInv, [Next]_vars
    PROVE  RankInv'
<1>a. /\ NoOne \notin Procs /\ proc \in [Procs -> Process] /\ rows \subseteq Row
      /\ serial \in Nat /\ It.rank \in {"serial", "max"}
    BY ProviderFacts DEF HistoryStoreAssumption, TypeOK, It
<1>1. ASSUME NEW p \in Procs, Only(p), UNCHANGED <<dialect, rows, serial>>, proc'[p].why # "rank",
             proc'[p].pc = "write" /\ It.rank = "max" => \A r \in rows : r.rank < proc'[p].rank
      PROVE  RankInv'
    BY <1>1 DEF RankInv, RanksUnique, Only, It
<1>2. ASSUME NEW p \in Procs, UNCHANGED <<dialect, rows, serial>>,
             NEW pc \in PCs \ {"write"}, Goto(p, pc)
      PROVE  RankInv'
  <2>1. Only(p) /\ proc'[p].pc # "write" /\ proc'[p].why # "rank"
      BY <1>a, <1>2, GoesOn DEF RankInv, RanksUnique
  <2> QED BY <1>1, <1>2, <2>1
<1>3. ASSUME NEW p \in Procs, UNCHANGED <<dialect, rows, serial>>,
             NEW why \in {"race", "not empty", "read"}, Fail(p, why)
      PROVE  RankInv'
  <2>1. Only(p) /\ proc'[p].pc # "write" /\ proc'[p].why # "rank"
      BY <1>a, <1>3, Fails
  <2> QED BY <1>1, <1>3, <2>1
<1>4. ASSUME NEW p \in Procs, UNCHANGED <<dialect, rows, serial>>, Raced(p)
      PROVE  RankInv'
  <2>1. CASE proc[p].attempt = MaxAttempts
      BY <1>3, <1>4, <2>1 DEF Raced
  <2>2. CASE proc[p].attempt # MaxAttempts
    <3>1. Only(p) /\ proc'[p].pc # "write" /\ proc'[p].why # "rank"
        BY <1>a, <1>4, <2>2, StartsOver DEF RankInv, RanksUnique, MaxAttempts
    <3> QED BY <1>1, <1>4, <3>1
  <2> QED BY <2>1, <2>2
<1>5. ASSUME NEW p \in Procs, UNCHANGED <<dialect, rows, serial>>, NEW known, Plan(p, known)
      PROVE  RankInv'
  <2>1. Only(p) /\ proc'[p].pc # "write" /\ proc'[p].why # "rank"
      BY <1>a, <1>5, Plans DEF RankInv, RanksUnique
  <2> QED BY <1>1, <1>5, <2>1
<1>6. ASSUME NEW p \in Procs,
             \/ CheckSchema(p) \/ CheckTable(p) \/ Acquire(p) \/ Execute(p) \/ Die(p)
             \/ ReadFails(p) /\ It.read = "raises"
      PROVE  RankInv'
  <2>1. /\ UNCHANGED <<dialect, rows, serial>>
        /\ \/ \E pc \in PCs \ {"write"} : Goto(p, pc)
           \/ \E why \in {"race", "not empty", "read"} : Fail(p, why)
      BY <1>6 DEF CheckSchema, CheckTable, Acquire, Execute, Die, ReadFails, PCs
  <2> QED BY <1>2, <1>3, <2>1
<1>7. ASSUME NEW p \in Procs, CreateSchema(p) \/ CreateTable(p) PROVE RankInv'
  <2>1. /\ UNCHANGED <<dialect, rows, serial>>
        /\ Raced(p) \/ Goto(p, "table?") \/ Goto(p, "wait")
      BY <1>7 DEF CreateSchema, CreateTable
  <2> QED BY <1>2, <1>4, <2>1 DEF PCs
<1>8. ASSUME NEW p \in Procs, ReadHistory(p) \/ (ReadFails(p) /\ It.read # "raises") PROVE RankInv'
    BY <1>5, <1>8 DEF ReadHistory, ReadFails
<1>9. ASSUME NEW p \in Procs, ReadRank(p) PROVE RankInv'
  <2>1. /\ Only(p) /\ proc'[p].why # "rank"
        /\ It.rank = "max" => \A r \in rows : r.rank < proc'[p].rank
      BY <1>a, <1>9, Ranks DEF RankInv, RanksUnique
  <2> QED BY <1>1, <1>9, <2>1 DEF ReadRank
<1>10. ASSUME NEW p \in Procs, WriteRow(p) PROVE RankInv'
  <2>1. /\ \A r \in rows : r.rank < RankOf(p)
        /\ proc'[p].why = proc[p].why /\ Only(p) /\ proc'[p].pc # "write"
        /\ rows' \subseteq rows \cup {RowOf(p)} /\ UNCHANGED dialect
        /\ serial' = IF It.rank = "serial" THEN serial + 1 ELSE serial
      BY <1>10, WrittenLast
  <2>2. \A q \in Procs \ {p} : proc'[q].pc # "write"
      BY <1>10, <2>1 DEF WriteRow, At, LockInv, Locked, Only
  <2>3. \A r \in rows : r.rank \in Nat
      BY <1>a DEF Row
  <2>4. RowOf(p).rank = RankOf(p)
      BY DEF RowOf
  <2>5. RanksUnique'
      BY <2>1, <2>3, <2>4 DEF RankInv, RanksUnique, Only
  <2>6. It.rank = "serial" => \A r \in rows' : r.rank <= serial'
      BY <1>a, <2>1, <2>3, <2>4 DEF RankInv, RankOf
  <2> QED BY <2>1, <2>2, <2>5, <2>6 DEF RankInv, It
<1>11. CASE UNCHANGED vars
    BY <1>11 DEF vars, RankInv, RanksUnique, It
<1> QED BY <1>6, <1>7, <1>8, <1>9, <1>10, <1>11 DEF Next, Step

-----------------------------------------------------------------------------
(* What a process knows of the history while it works on it                *)

\* A baseline at work has found no rows, and a script that is run or about to be recorded
\* has none; and a baseline is the first row.
KnowsInv ==
    /\ \A p \in Procs : proc[p].pc \in Locked \ {"plan"} =>
         IF p \in Baseliner
         THEN proc[p].pc # "execute" /\ rows = {} /\ proc[p].todo = Marker
         ELSE proc[p].todo \in Scripts \ Recorded
    /\ BaselineAlone

\* Unless a failed read was taken for an empty history.
FreshInv == ~Blind => KnowsInv

\* A store that went on without its history stays so.
LEMMA BlindStays ==
    ASSUME HistoryStoreAssumption, TypeOK, [Next]_vars
    PROVE  /\ dialect' = dialect /\ faults' \in Nat
           /\ Blind => Blind'
<1>1. faults \in Nat
    BY DEF TypeOK, HistoryStoreAssumption
<1>2. dialect' = dialect /\ faults' \in {faults, faults + 1}
    BY DEF Next, Step, vars, CheckSchema, CreateSchema, CheckTable, CreateTable, Acquire, ReadHistory,
           Execute, ReadRank, WriteRow, ReadFails, Die
<1> QED BY <1>1, <1>2 DEF Blind, It

\* The row a process writes is one of a script that had none; a baseline writes the first.
LEMMA WrittenFresh ==
    ASSUME HistoryStoreAssumption, TypeOK, RankInv, KnowsInv, NEW p \in Procs, WriteRow(p)
    PROVE  /\ rows' = rows \cup {RowOf(p)}
           /\ p \in Baseliner => rows = {}
           /\ p \notin Baseliner => proc[p].todo \in Scripts \ Recorded
<1>1. /\ p \in Baseliner => rows = {}
      /\ p \notin Baseliner => proc[p].todo \in Scripts \ Recorded
    BY DEF KnowsInv, WriteRow, At, Locked
<1>2. rows' = (rows \ Replaced(RowOf(p))) \cup {RowOf(p)}
    BY WrittenLast
<1>3. \A r \in rows : r.rank < RankOf(p) /\ r.rank \in Nat
    BY WrittenLast DEF TypeOK, Row
<1>4. \A r \in rows : r.rank # RowOf(p).rank
    BY <1>3 DEF RowOf
<1>5. \A r \in rows : r.script # RowOf(p).script
    BY <1>1 DEF RowOf, Recorded
<1>6. rows \cap Replaced(RowOf(p)) = {}
    BY <1>4, <1>5 DEF Replaced
<1> QED BY <1>1, <1>2, <1>6

\* Every step that sees the history keeps what is known of it.
LEMMA FreshStep ==
    ASSUME HistoryStoreAssumption, TypeOK, BoundInv, LockInv, RankInv, FreshInv, [Next]_vars
    PROVE  FreshInv'
<1> SUFFICES ASSUME ~Blind' PROVE KnowsInv'
    BY DEF FreshInv
<1>a. KnowsInv /\ ~Blind
    BY BlindStays DEF FreshInv
<1>b. /\ NoOne \notin Procs /\ proc \in [Procs -> Process] /\ rows \subseteq Row
      /\ Marker \notin Scripts
    BY DEF HistoryStoreAssumption, TypeOK
<1>1. ASSUME NEW p \in Procs, Only(p), UNCHANGED rows,
             proc'[p].pc \in Locked \ {"plan"} =>
               IF p \in Baseliner
               THEN proc'[p].pc # "execute" /\ rows = {} /\ proc'[p].todo = Marker
               ELSE proc'[p].todo \in Scripts \ Recorded
      PROVE  KnowsInv'
    BY <1>a, <1>1 DEF KnowsInv, BaselineAlone, Only, Recorded
<1>2. ASSUME NEW p \in Procs, UNCHANGED rows, NEW pc \in PCs \ (Locked \ {"plan"}), Goto(p, pc)
      PROVE  KnowsInv'
    BY <1>b, <1>1, <1>2, GoesOn
<1>3. ASSUME NEW p \in Procs, UNCHANGED rows,
             NEW why \in {"race", "not empty", "read", "rank"}, Fail(p, why)
      PROVE  KnowsInv'
    BY <1>b, <1>1, <1>3, Fails DEF Locked
<1>4. ASSUME NEW p \in Procs, UNCHANGED rows, Raced(p)
      PROVE  KnowsInv'
    BY <1>b, <1>1, <1>4, StartsOver DEF Locked
<1>5. ASSUME NEW p \in Procs,
             \/ CheckSchema(p) \/ CheckTable(p) \/ Acquire(p) \/ Die(p)
             \/ ReadFails(p) /\ It.read = "raises"
      PROVE  KnowsInv'
  <2>1. /\ UNCHANGED rows
        /\ \/ \E pc \in PCs \ (Locked \ {"plan"}) : Goto(p, pc)
           \/ \E why \in {"race", "not empty", "read"} : Fail(p, why)
      BY <1>5 DEF CheckSchema, CheckTable, Acquire, Die, ReadFails, PCs, Locked
  <2> QED BY <1>2, <1>3, <2>1
<1>6. ASSUME NEW p \in Procs, CreateSchema(p) \/ CreateTable(p) PROVE KnowsInv'
  <2>1. /\ UNCHANGED rows
        /\ Raced(p) \/ Goto(p, "table?") \/ Goto(p, "wait")
      BY <1>6 DEF CreateSchema, CreateTable
  <2> QED BY <1>2, <1>4, <2>1 DEF PCs, Locked
<1>7. ASSUME NEW p \in Procs, ReadHistory(p) PROVE KnowsInv'
  <2>1. UNCHANGED rows /\ Plan(p, Recorded)
      BY <1>7 DEF ReadHistory
  <2>2. Recorded = {} => rows = {}
      BY DEF Recorded
  <2>3. /\ Only(p)
        /\ \/ proc'[p].pc \in {"failed", "done"}
           \/ p \in Baseliner /\ Recorded = {} /\ proc'[p].pc = "rank" /\ proc'[p].todo = Marker
           \/ p \notin Baseliner /\ proc'[p].pc = "execute" /\ proc'[p].todo \in Scripts \ Recorded
      BY <1>b, <2>1, Plans
  <2> QED BY <1>1, <2>1, <2>2, <2>3 DEF Locked
<1>8. ASSUME NEW p \in Procs, ReadFails(p), It.read # "raises" PROVE FALSE
  <2>1. faults' > 0
      BY <1>8 DEF ReadFails, TypeOK
  <2> QED BY <1>8, <2>1, BlindStays DEF Blind, It
<1>9. ASSUME NEW p \in Procs, Execute(p) PROVE KnowsInv'
  <2>1. /\ UNCHANGED rows /\ Only(p) /\ proc'[p].todo = proc[p].todo /\ proc[p].pc = "execute"
      BY <1>b, <1>9, GoesOn DEF Execute, PCs, At
  <2>2. p \notin Baseliner /\ proc[p].todo \in Scripts \ Recorded
      BY <1>a, <2>1 DEF KnowsInv, Locked
  <2> QED BY <1>1, <2>1, <2>2
<1>10. ASSUME NEW p \in Procs, ReadRank(p) PROVE KnowsInv'
  <2>1. /\ UNCHANGED rows /\ Only(p) /\ proc'[p].todo = proc[p].todo /\ proc[p].pc = "rank"
        /\ proc'[p].pc = "write"
      BY <1>b, <1>10, Ranks DEF ReadRank, At
  <2> QED BY <1>a, <1>1, <2>1 DEF KnowsInv, Locked
<1>11. ASSUME NEW p \in Procs, WriteRow(p) PROVE KnowsInv'
  <2>1. Only(p) /\ proc'[p].pc \notin Locked \ {"plan"}
      BY <1>b, <1>11, Writes DEF Locked
  <2>2. \A q \in Procs \ {p} : proc'[q].pc \notin Locked
      BY <1>b, <1>11, <2>1 DEF WriteRow, At, LockInv, Locked, Only
  <2>3. /\ rows' = rows \cup {RowOf(p)}
        /\ p \in Baseliner => rows = {}
        /\ p \notin Baseliner => proc[p].todo \in Scripts \ Recorded
      BY <1>a, <1>11, WrittenFresh
  <2>4. \A r \in rows : r.rank < RankOf(p) /\ r.rank \in Nat
      BY <1>b, <1>11, WrittenLast DEF Row
  <2>5. RankOf(p) \in Nat
    <3>1. proc[p] \in Process /\ serial + 1 \in Nat
        BY DEF TypeOK
    <3>2. proc[p].rank \in Nat
        BY <3>1 DEF Process
    <3> QED BY <3>1, <3>2 DEF RankOf
  <2>6. RowOf(p).rank = RankOf(p) /\ RowOf(p).script = proc[p].todo
      BY DEF RowOf
  <2>7. BaselineAlone'
    <3>1. CASE p \in Baseliner
        BY <2>3, <2>5, <2>6, <3>1 DEF BaselineAlone
    <3>2. CASE p \notin Baseliner
        BY <1>a, <1>b, <2>3, <2>4, <2>5, <2>6, <3>2 DEF BaselineAlone, KnowsInv
    <3> QED BY <3>1, <3>2
  <2> QED BY <2>1, <2>2, <2>7 DEF KnowsInv
<1>12. CASE UNCHANGED vars
    BY <1>a, <1>12 DEF vars, KnowsInv, BaselineAlone, Recorded
<1> QED BY <1>5, <1>6, <1>7, <1>8, <1>9, <1>10, <1>11, <1>12 DEF Next, Step

-----------------------------------------------------------------------------
(* What the history table promises                                         *)

\* Everything the steps rely on.
StoreInv == TypeOK /\ PlaceInv /\ BoundInv /\ LockInv /\ RaceInv /\ RankInv /\ FreshInv

\* It holds at first.
LEMMA StoreInvStarts ==
    ASSUME HistoryStoreAssumption, Init
    PROVE  StoreInv
<1>1. \A p \in Procs : /\ proc[p].pc = "schema?" /\ proc[p].attempt = 1 /\ proc[p].why = ""
    BY DEF Init
<1>2. rows = {}
    BY DEF Init
<1>3. LockInv
    BY <1>1 DEF LockInv, Locked
<1>4. RaceInv
  <2> SUFFICES ASSUME NEW p \in Procs
               PROVE  /\ proc[p].why # "race" /\ proc[p].attempt \in 1..3
                      /\ proc[p].attempt # 3 /\ proc[p].attempt = 1
      BY DEF RaceInv
  <2>1. proc[p].why = "" /\ proc[p].attempt = 1
      BY <1>1
  <2>2. proc[p].why # "race"
      BY <2>1
  <2>3. \A a : a = 1 => a \in 1..3 /\ a # 3
      OBVIOUS
  <2>4. proc[p].attempt \in 1..3 /\ proc[p].attempt # 3
      BY <2>1, <2>3, Zenon
  <2> QED BY <2>1, <2>2, <2>4
<1>5. RankInv
    BY <1>1, <1>2 DEF RankInv, RanksUnique
<1>6. FreshInv
    BY <1>1, <1>2 DEF FreshInv, KnowsInv, BaselineAlone, Locked
<1> QED BY <1>3, <1>4, <1>5, <1>6, StoreStarts DEF StoreInv

\* And after every step.
LEMMA StoreInvStays ==
    ASSUME HistoryStoreAssumption, StoreInv, [Next]_vars
    PROVE  StoreInv'
BY StoreTyped, LockHeld, RaceStep, RankStep, FreshStep DEF StoreInv

\* On every dialect, for any number of first runs and baselines, failed reads and killed
\* processes: nobody loses the race for the schema or the table for good, no two rows have
\* one rank and no insert is refused for its rank, and a baseline is the first row of its
\* history unless Cosmos DB took a failed read for an empty one.
THEOREM FirstRunsAgree ==
    ASSUME HistoryStoreAssumption
    PROVE  Spec => []HistoryAgrees
<1>1. Init => StoreInv
    BY StoreInvStarts
<1>2. StoreInv /\ [Next]_vars => StoreInv'
    BY StoreInvStays
<1>3. StoreInv => HistoryAgrees
    BY DEF StoreInv, HistoryAgrees, RaceInv, RacesAreAbsorbed, RankInv, FreshInv, KnowsInv
<1> QED BY <1>1, <1>2, <1>3, PTL DEF Spec

\* What a step may do to the history.
LEMMA OnceStep ==
    ASSUME HistoryStoreAssumption, StoreInv, [Next]_vars
    PROVE  LatestRankIsHighest /\ RowsKept /\ NoRerun /\ UnreadableIsNotEmpty
<1> USE DEF StoreInv
<1>a. /\ proc \in [Procs -> Process] /\ rows \subseteq Row /\ faults \in Nat
      /\ runs \in [Scripts -> Nat] /\ Scripts \subseteq Nat \ {Marker}
    BY DEF TypeOK, HistoryStoreAssumption
<1>1. CASE \E p \in Procs : WriteRow(p)
  <2>1. PICK p \in Procs : WriteRow(p)
      BY <1>1
  <2>2. UNCHANGED <<runs, faults>>
      BY <2>1 DEF WriteRow
  <2>3. LatestRankIsHighest
    <3>1. rows' \subseteq rows \cup {RowOf(p)} /\ RowOf(p).rank = RankOf(p)
        BY <2>1, WrittenLast DEF RowOf
    <3> QED BY <2>1, <3>1, WrittenLast DEF LatestRankIsHighest
  <2>4. RowsKept
      BY <2>1, WrittenFresh DEF RowsKept, FreshInv
  <2>5. NoRerun /\ UnreadableIsNotEmpty
      BY <1>a, <2>2 DEF NoRerun, UnreadableIsNotEmpty
  <2> QED BY <2>3, <2>4, <2>5
<1>2. CASE \E p \in Procs : Execute(p)
  <2>1. PICK p \in Procs : Execute(p)
      BY <1>2
  <2>2. UNCHANGED <<rows, faults>> /\ runs' = [runs EXCEPT ![proc[p].todo] = runs[proc[p].todo] + 1]
      BY <2>1 DEF Execute
  <2>3. NoRerun
    <3>1. ~Blind => p \notin Baseliner /\ proc[p].todo \in Scripts \ Recorded
        BY <2>1 DEF Execute, At, FreshInv, KnowsInv, Locked
    <3>2. \A s \in Scripts : s # proc[p].todo => runs'[s] = runs[s]
        BY <1>a, <2>2
    <3> QED BY <1>a, <3>1, <3>2 DEF NoRerun
  <2> QED BY <1>a, <2>2, <2>3 DEF LatestRankIsHighest, RowsKept, UnreadableIsNotEmpty
<1>3. CASE \E p \in Procs : ReadFails(p)
  <2>1. PICK p \in Procs : ReadFails(p)
      BY <1>3
  <2>2. UNCHANGED <<rows, runs>>
      BY <2>1 DEF ReadFails
  <2>3. It.read = "raises" => Only(p) /\ proc'[p].pc = "failed"
      BY <1>a, <2>1, Fails DEF ReadFails
  <2>4. UnreadableIsNotEmpty
      BY <2>3 DEF UnreadableIsNotEmpty, Only
  <2>5. NoRerun
      BY <1>a, <2>2 DEF NoRerun
  <2> QED BY <2>2, <2>4, <2>5 DEF LatestRankIsHighest, RowsKept
<1>4. CASE UNCHANGED <<rows, runs, faults>>
    BY <1>a, <1>4 DEF LatestRankIsHighest, RowsKept, NoRerun, UnreadableIsNotEmpty
<1>5. ASSUME NEW p \in Procs, Step(p) \/ Die(p), ~WriteRow(p), ~Execute(p)
      PROVE  UNCHANGED <<rows, runs, faults>>
    BY <1>5 DEF Step, CheckSchema, CreateSchema, CheckTable, CreateTable, Acquire, ReadHistory, ReadRank, Die
<1> QED BY <1>1, <1>2, <1>3, <1>4, <1>5 DEF Next, vars

\* On every dialect, however many processes start, fail and die: a row that is written has
\* the highest rank, no row is lost and no script with a row runs again unless Cosmos DB took
\* a failed read for an empty history, and elsewhere such a read fails the command.
THEOREM RowsComeOnce ==
    ASSUME HistoryStoreAssumption
    PROVE  Spec => RowsOnce
<1>1. Init => StoreInv
    BY StoreInvStarts
<1>2. StoreInv /\ [Next]_vars => StoreInv'
    BY StoreInvStays
<1>3. StoreInv /\ [Next]_vars => [LatestRankIsHighest /\ RowsKept /\ NoRerun /\ UnreadableIsNotEmpty]_vars
    BY OnceStep
<1> QED BY <1>1, <1>2, <1>3, PTL DEF Spec, RowsOnce

-----------------------------------------------------------------------------
(* The lock document of Cosmos DB: types                                   *)

\* What the other processes know stays.
OnlyRunner(s, p) == \A q \in s.procs \ {p} : runner'[q] = runner[q]

\* A process goes elsewhere and remembers what it knew.
LEMMA RunnerGoesOn ==
    ASSUME NEW s \in LockSetups, runner \in [s.procs -> Cosmos(s)!Process], NEW p \in s.procs,
           NEW pc \in Cosmos(s)!PCs, Cosmos(s)!Goto(p, pc)
    PROVE  /\ runner' \in [s.procs -> Cosmos(s)!Process] /\ OnlyRunner(s, p) /\ runner'[p].pc = pc
           /\ runner'[p].since = runner[p].since /\ runner'[p].seen = runner[p].seen
           /\ runner'[p].asleep = runner[p].asleep
<1>1. runner' = [runner EXCEPT ![p] = [runner[p] EXCEPT !.pc = pc, !.failed = FALSE]]
    BY DEF Cosmos!Goto
<1>2. [runner[p] EXCEPT !.pc = pc, !.failed = FALSE] \in Cosmos(s)!Process
    BY DEF Cosmos!Process
<1> QED BY <1>1, <1>2 DEF OnlyRunner, Cosmos!Process

\* A process goes to sleep.
LEMMA Sleeps ==
    ASSUME NEW s \in LockSetups, runner \in [s.procs -> Cosmos(s)!Process], NEW p \in s.procs,
           NEW pc \in Cosmos(s)!PCs, NEW failed \in BOOLEAN, Cosmos(s)!Sleep(p, pc, failed)
    PROVE  /\ runner' \in [s.procs -> Cosmos(s)!Process] /\ OnlyRunner(s, p) /\ runner'[p].pc = pc
           /\ runner'[p].since = runner[p].since /\ runner'[p].seen = runner[p].seen
           /\ runner'[p].asleep /\ runner'[p].failed = failed
<1>1. runner' = [runner EXCEPT ![p] = [runner[p] EXCEPT !.pc = pc, !.asleep = TRUE, !.failed = failed]]
    BY DEF Cosmos!Sleep
<1>2. [runner[p] EXCEPT !.pc = pc, !.asleep = TRUE, !.failed = failed] \in Cosmos(s)!Process
    BY DEF Cosmos!Process
<1> QED BY <1>1, <1>2 DEF OnlyRunner, Cosmos!Process

\* A process starts a phase.
LEMMA Enters ==
    ASSUME NEW s \in LockSetups, runner \in [s.procs -> Cosmos(s)!Process], now \in Nat,
           NEW p \in s.procs, NEW pc \in Cosmos(s)!PCs, Cosmos(s)!Enter(p, pc)
    PROVE  /\ runner' \in [s.procs -> Cosmos(s)!Process] /\ OnlyRunner(s, p) /\ runner'[p].pc = pc
           /\ runner'[p].since = now /\ runner'[p].seen = 0 /\ runner'[p].asleep = FALSE
<1>1. [pc |-> pc, since |-> now, seen |-> 0, asleep |-> FALSE, failed |-> FALSE] \in Cosmos(s)!Process
    BY DEF Cosmos!Process
<1> QED BY <1>1 DEF Cosmos!Enter, OnlyRunner

\* A process remembers the document it saw.
LEMMA Sees ==
    ASSUME NEW s \in LockSetups, runner \in [s.procs -> Cosmos(s)!Process], NEW p \in s.procs,
           NEW etag \in Nat,
           runner' = [runner EXCEPT ![p].pc = "delete", ![p].seen = etag]
    PROVE  /\ runner' \in [s.procs -> Cosmos(s)!Process] /\ OnlyRunner(s, p) /\ runner'[p].pc = "delete"
           /\ runner'[p].since = runner[p].since /\ runner'[p].seen = etag
<1>1. runner' = [runner EXCEPT ![p] = [runner[p] EXCEPT !.pc = "delete", !.seen = etag]]
    OBVIOUS
<1>2. [runner[p] EXCEPT !.pc = "delete", !.seen = etag] \in Cosmos(s)!Process
    BY DEF Cosmos!Process, Cosmos!PCs
<1> QED BY <1>1, <1>2 DEF OnlyRunner, Cosmos!Process

\* A tick wakes everyone.
LEMMA Ticks ==
    ASSUME NEW s \in LockSetups, runner \in [s.procs -> Cosmos(s)!Process], Cosmos(s)!Tick
    PROVE  /\ runner' \in [s.procs -> Cosmos(s)!Process] /\ now' = now + 1 /\ now < s.time
           /\ UNCHANGED <<doc, etags, errors>>
           /\ \A p \in s.procs : /\ runner'[p].pc = runner[p].pc /\ runner'[p].since = runner[p].since
                               /\ runner'[p].seen = runner[p].seen /\ runner'[p].asleep = FALSE
                               /\ runner'[p].failed = runner[p].failed
<1>1. runner' = [p \in s.procs |-> [runner[p] EXCEPT !.asleep = FALSE]]
    BY DEF Cosmos!Tick
<1>2. \A p \in s.procs : [runner[p] EXCEPT !.asleep = FALSE] \in Cosmos(s)!Process
    BY DEF Cosmos!Process
<1>3. runner' \in [s.procs -> Cosmos(s)!Process]
    BY <1>1, <1>2
<1>4. ASSUME NEW p \in s.procs
      PROVE  /\ runner'[p].pc = runner[p].pc /\ runner'[p].since = runner[p].since
             /\ runner'[p].seen = runner[p].seen /\ runner'[p].asleep = FALSE
             /\ runner'[p].failed = runner[p].failed
  <2>1. runner[p] \in Cosmos(s)!Process /\ runner'[p] = [runner[p] EXCEPT !.asleep = FALSE]
      BY <1>1
  <2> QED BY <2>1 DEF Cosmos!Process
<1> QED BY <1>3, <1>4 DEF Cosmos!Tick

\* A lock document.
LockDocument(s) == [etag: Nat \ {0}, owner: s.procs, expires: Nat]

\* The fields of the document that is there, or of none.
LEMMA DocumentTyped ==
    ASSUME NEW s \in LockSetups, doc = Cosmos(s)!None \/ doc \in LockDocument(s)
    PROVE  /\ doc.etag \in Nat /\ doc.expires \in Nat
           /\ doc = Cosmos(s)!None <=> doc.etag = 0
           /\ doc # Cosmos(s)!None => doc.owner \in s.procs
<1>1. Cosmos(s)!None.etag = 0 /\ Cosmos(s)!None.expires = 0
    BY DEF Cosmos!None
<1>2. doc \in LockDocument(s) => doc.etag \in Nat \ {0} /\ doc.expires \in Nat /\ doc.owner \in s.procs
    BY DEF LockDocument
<1> QED BY <1>1, <1>2

\* The places of the second phase.
Fallback == {"make", "check", "drop"}

\* What a step of a process may do to the document, and how it gets where it goes.
OnDocument(s, p) ==
    \/ /\ UNCHANGED <<doc, etags>> /\ runner'[p].pc # "held"
       /\ runner[p].pc = "held" => runner'[p].pc = "dead" \/ errors' = errors + 1
    \/ /\ doc = Cosmos(s)!None /\ doc' = Cosmos(s)!Document(p) /\ etags' = etags + 1
       /\ (runner'[p].pc = "held" /\ runner'[p].since = now) \/ errors' = errors + 1
    \/ /\ runner[p].pc = "delete" /\ doc' = (IF doc.etag = runner[p].seen THEN Cosmos(s)!None ELSE doc)
       /\ UNCHANGED etags /\ runner'[p].pc = "read"
    \/ runner[p].pc = "drop" /\ doc' = Cosmos(s)!None /\ UNCHANGED etags /\ runner'[p].pc = "make"
    \/ runner[p].pc = "held" /\ doc' = Cosmos(s)!None /\ UNCHANGED etags /\ runner'[p].pc = "released"
InTurn(s, p) ==
    /\ runner'[p].pc = "delete" => Cosmos(s)!Expired /\ runner'[p].seen = doc.etag /\ doc' = doc
    /\ runner'[p].pc = "drop" =>
         /\ runner[p].pc = "check" /\ runner'[p].since = runner[p].since
         /\ runner'[p].asleep = runner[p].asleep /\ Cosmos(s)!Expired /\ doc' = doc
    /\ runner'[p].pc = "check" =>
         /\ runner[p].pc = "make" /\ Cosmos(s)!Waiting(p) /\ runner'[p].since = runner[p].since
         /\ ~runner[p].asleep /\ ~runner'[p].asleep
    /\ runner'[p].pc = "make" =>
         \/ runner[p].pc \notin Fallback /\ runner'[p].since = now /\ ~runner'[p].asleep
         \/ /\ runner[p].pc = "check" /\ runner'[p].since = runner[p].since /\ doc' = doc
            /\ \/ doc = Cosmos(s)!None /\ runner'[p].asleep = runner[p].asleep
               \/ doc # Cosmos(s)!None /\ ~Cosmos(s)!Expired /\ runner'[p].asleep
         \/ /\ runner[p].pc = "drop" /\ runner'[p].since = runner[p].since
            /\ runner'[p].asleep = runner[p].asleep
         \/ /\ runner[p].pc \in Fallback /\ runner'[p].since = runner[p].since
            /\ runner'[p].asleep /\ runner'[p].failed
    /\ runner'[p].pc = "refused" /\ runner[p].pc = "make" => ~runner[p].asleep /\ ~Cosmos(s)!Waiting(p)
    /\ runner'[p].pc \in Fallback /\ runner[p].pc \notin Fallback => ~Cosmos(s)!Waiting(p) \/ errors' = errors + 1
    /\ runner'[p].pc = "dead" => Cardinality({q \in s.procs : Cosmos(s)!At(q, "dead")}) < s.deaths

\* All of a process's step.
Moved(s, p) ==
    /\ runner' \in [s.procs -> Cosmos(s)!Process] /\ OnlyRunner(s, p) /\ now' = now
    /\ runner'[p].since \in {runner[p].since, now} /\ runner'[p].seen \in {runner[p].seen, 0, doc.etag}
    /\ errors' \in {errors, errors + 1} /\ errors' <= s.errors
    /\ runner[p].pc \notin {"released", "refused", "dead"}
    /\ OnDocument(s, p) /\ InTurn(s, p)

\* Every step of a process is one of these.
LEMMA Moves ==
    ASSUME NEW s \in LockSetups, Cosmos(s)!CosmosLockAssumption, Cosmos(s)!TypeOK, NEW p \in s.procs,
           Cosmos(s)!Step(p) \/ Cosmos(s)!Fault(p)
    PROVE  Moved(s, p)
<1> USE DEF Moved, Fallback
<1>a. /\ runner \in [s.procs -> Cosmos(s)!Process] /\ now \in Nat /\ errors \in Nat /\ errors <= s.errors
      /\ s.errors \in Nat /\ doc.etag \in Nat
  <2>1. s.errors \in Nat /\ s.time \in Nat
      BY DEF Cosmos!CosmosLockAssumption
  <2>2. doc.etag \in Nat
      BY DocumentTyped DEF Cosmos!TypeOK, LockDocument
  <2> QED BY <2>1, <2>2 DEF Cosmos!TypeOK
<1>b. errors < s.errors => errors + 1 <= s.errors
    BY <1>a
<1>1. CASE Cosmos(s)!CreateContainer(p)
  <2>1. /\ Cosmos(s)!Enter(p, "read") /\ runner[p].pc = "start"
        /\ UNCHANGED <<doc, etags, now, errors>>
      BY <1>1 DEF Cosmos!CreateContainer, Cosmos!At
  <2> QED BY <1>a, <2>1, Enters DEF Cosmos!PCs, OnDocument, InTurn
<1>2. CASE Cosmos(s)!ContainerFails(p)
  <2>1. /\ Cosmos(s)!Enter(p, "refused") /\ runner[p].pc = "start"
        /\ UNCHANGED <<doc, etags, now>> /\ errors' = errors + 1 /\ errors < s.errors
      BY <1>2 DEF Cosmos!ContainerFails, Cosmos!At
  <2>2. errors' = errors + 1 /\ errors' <= s.errors
      BY <1>b, <2>1
  <2> QED BY <1>a, <2>1, <2>2, Enters DEF Cosmos!PCs, OnDocument, InTurn
<1>3. CASE Cosmos(s)!NativeRead(p)
  <2>1. /\ runner[p].pc = "read" /\ UNCHANGED <<doc, etags, now, errors>>
        /\ \/ Cosmos(s)!Goto(p, "create")
           \/ Cosmos(s)!Sleep(p, "read", FALSE)
           \/ Cosmos(s)!Expired /\ runner' = [runner EXCEPT ![p].pc = "delete", ![p].seen = doc.etag]
      BY <1>3 DEF Cosmos!NativeRead, Cosmos!Awake
  <2>2. CASE Cosmos(s)!Goto(p, "create")
      BY <1>a, <2>1, <2>2, RunnerGoesOn DEF Cosmos!PCs, OnDocument, InTurn
  <2>3. CASE Cosmos(s)!Sleep(p, "read", FALSE)
      BY <1>a, <2>1, <2>3, Sleeps DEF Cosmos!PCs, OnDocument, InTurn
  <2>4. CASE Cosmos(s)!Expired /\ runner' = [runner EXCEPT ![p].pc = "delete", ![p].seen = doc.etag]
      BY <1>a, <2>1, <2>4, Sees DEF Cosmos!PCs, OnDocument, InTurn
  <2> QED BY <2>1, <2>2, <2>3, <2>4
<1>4. CASE Cosmos(s)!NativeCreate(p)
  <2>1. /\ runner[p].pc = "create" /\ UNCHANGED <<now, errors>>
        /\ \/ doc = Cosmos(s)!None /\ doc' = Cosmos(s)!Document(p) /\ etags' = etags + 1 /\ Cosmos(s)!Enter(p, "held")
           \/ Cosmos(s)!Goto(p, "read") /\ UNCHANGED <<doc, etags>>
      BY <1>4 DEF Cosmos!NativeCreate, Cosmos!CreateLockDocument, Cosmos!At
  <2>2. CASE Cosmos(s)!Enter(p, "held")
      BY <1>a, <2>1, <2>2, Enters, RunnerGoesOn DEF Cosmos!PCs, OnDocument, InTurn
  <2>3. CASE Cosmos(s)!Goto(p, "read") /\ UNCHANGED <<doc, etags>>
      BY <1>a, <2>1, <2>3, RunnerGoesOn DEF Cosmos!PCs, OnDocument, InTurn
  <2> QED BY <2>1, <2>2, <2>3
<1>5. CASE Cosmos(s)!NativeDelete(p)
  <2>1. /\ Cosmos(s)!Goto(p, "read") /\ runner[p].pc = "delete" /\ UNCHANGED <<etags, now, errors>>
        /\ doc' = IF doc.etag = runner[p].seen THEN Cosmos(s)!None ELSE doc
      BY <1>5 DEF Cosmos!NativeDelete, Cosmos!At
  <2> QED BY <1>a, <2>1, RunnerGoesOn DEF Cosmos!PCs, OnDocument, InTurn
<1>6. CASE Cosmos(s)!NativeTimeout(p)
  <2>1. /\ Cosmos(s)!Enter(p, "make") /\ runner[p].pc = "read" /\ ~Cosmos(s)!Waiting(p)
        /\ UNCHANGED <<doc, etags, now, errors>>
      BY <1>6 DEF Cosmos!NativeTimeout, Cosmos!Awake
  <2> QED BY <1>a, <2>1, Enters DEF Cosmos!PCs, OnDocument, InTurn
<1>7. CASE Cosmos(s)!NativeError(p)
  <2>1. /\ Cosmos(s)!Enter(p, "make") /\ runner[p].pc \in {"read", "create"}
        /\ errors < s.errors /\ errors' = errors + 1 /\ UNCHANGED now
        /\ \/ doc = Cosmos(s)!None /\ doc' = Cosmos(s)!Document(p) /\ etags' = etags + 1
           \/ UNCHANGED <<doc, etags>>
      BY <1>7 DEF Cosmos!NativeError
  <2>2. errors' = errors + 1 /\ errors' <= s.errors
      BY <1>b, <2>1
  <2> QED BY <1>a, <2>1, <2>2, Enters DEF Cosmos!PCs, OnDocument, InTurn
<1>8. CASE Cosmos(s)!FallbackCreate(p)
  <2>1. /\ runner[p].pc = "make" /\ ~runner[p].asleep /\ Cosmos(s)!Waiting(p) /\ UNCHANGED <<now, errors>>
        /\ \/ doc = Cosmos(s)!None /\ doc' = Cosmos(s)!Document(p) /\ etags' = etags + 1 /\ Cosmos(s)!Enter(p, "held")
           \/ Cosmos(s)!Goto(p, "check") /\ UNCHANGED <<doc, etags>>
      BY <1>8 DEF Cosmos!FallbackCreate, Cosmos!CreateLockDocument, Cosmos!Awake
  <2>2. CASE Cosmos(s)!Enter(p, "held")
      BY <1>a, <2>1, <2>2, Enters, RunnerGoesOn DEF Cosmos!PCs, OnDocument, InTurn
  <2>3. CASE Cosmos(s)!Goto(p, "check") /\ UNCHANGED <<doc, etags>>
      BY <1>a, <2>1, <2>3, RunnerGoesOn DEF Cosmos!PCs, OnDocument, InTurn
  <2> QED BY <2>1, <2>2, <2>3
<1>9. CASE Cosmos(s)!FallbackRead(p)
  <2>1. /\ runner[p].pc = "check" /\ UNCHANGED <<doc, etags, now, errors>>
        /\ \/ Cosmos(s)!Expired /\ Cosmos(s)!Goto(p, "drop")
           \/ doc = Cosmos(s)!None /\ Cosmos(s)!Goto(p, "make")
           \/ ~Cosmos(s)!Expired /\ doc # Cosmos(s)!None /\ Cosmos(s)!Sleep(p, "make", FALSE)
      BY <1>9 DEF Cosmos!FallbackRead, Cosmos!At
  <2>2. CASE Cosmos(s)!Expired /\ Cosmos(s)!Goto(p, "drop")
      BY <1>a, <2>1, <2>2, RunnerGoesOn DEF Cosmos!PCs, OnDocument, InTurn
  <2>3. CASE doc = Cosmos(s)!None /\ Cosmos(s)!Goto(p, "make")
      BY <1>a, <2>1, <2>3, RunnerGoesOn DEF Cosmos!PCs, OnDocument, InTurn
  <2>4. CASE ~Cosmos(s)!Expired /\ doc # Cosmos(s)!None /\ Cosmos(s)!Sleep(p, "make", FALSE)
      BY <1>a, <2>1, <2>4, Sleeps DEF Cosmos!PCs, OnDocument, InTurn
  <2> QED BY <2>1, <2>2, <2>3, <2>4
<1>10. CASE Cosmos(s)!FallbackDelete(p)
  <2>1. /\ Cosmos(s)!Goto(p, "make") /\ runner[p].pc = "drop" /\ doc' = Cosmos(s)!None /\ UNCHANGED <<etags, now, errors>>
      BY <1>10 DEF Cosmos!FallbackDelete, Cosmos!At
  <2> QED BY <1>a, <2>1, RunnerGoesOn DEF Cosmos!PCs, OnDocument, InTurn
<1>11. CASE Cosmos(s)!FallbackTimeout(p)
  <2>1. /\ Cosmos(s)!Enter(p, "refused") /\ runner[p].pc = "make" /\ ~runner[p].asleep /\ ~Cosmos(s)!Waiting(p)
        /\ UNCHANGED <<doc, etags, now, errors>>
      BY <1>11 DEF Cosmos!FallbackTimeout, Cosmos!Awake
  <2> QED BY <1>a, <2>1, Enters DEF Cosmos!PCs, OnDocument, InTurn
<1>12. CASE Cosmos(s)!Release(p)
  <2>1. /\ Cosmos(s)!Enter(p, "released") /\ runner[p].pc = "held" /\ doc' = Cosmos(s)!None
        /\ UNCHANGED <<etags, now, errors>>
      BY <1>12 DEF Cosmos!Release, Cosmos!At
  <2> QED BY <1>a, <2>1, Enters DEF Cosmos!PCs, OnDocument, InTurn
<1>13. CASE Cosmos(s)!ReleaseFails(p)
  <2>1. /\ Cosmos(s)!Enter(p, "released") /\ runner[p].pc = "held" /\ UNCHANGED <<doc, etags, now>>
        /\ errors < s.errors /\ errors' = errors + 1
      BY <1>13 DEF Cosmos!ReleaseFails, Cosmos!At
  <2>2. errors' = errors + 1 /\ errors' <= s.errors
      BY <1>b, <2>1
  <2> QED BY <1>a, <2>1, <2>2, Enters DEF Cosmos!PCs, OnDocument, InTurn
<1>14. CASE Cosmos(s)!Die(p)
  <2>1. /\ Cosmos(s)!Enter(p, "dead") /\ runner[p].pc \notin {"released", "refused", "dead"}
        /\ UNCHANGED <<doc, etags, now, errors>>
        /\ Cardinality({q \in s.procs : Cosmos(s)!At(q, "dead")}) < s.deaths
      BY <1>14 DEF Cosmos!Die, Cosmos!Cardinality, Cardinality
  <2> QED BY <1>a, <2>1, Enters DEF Cosmos!PCs, OnDocument, InTurn
<1>15. CASE Cosmos(s)!NativeDeleteFails(p)
  <2>1. /\ Cosmos(s)!Sleep(p, "read", FALSE) /\ runner[p].pc = "delete" /\ UNCHANGED <<etags, now>>
        /\ errors < s.errors /\ errors' = errors + 1
        /\ doc' \in {doc, IF doc.etag = runner[p].seen THEN Cosmos(s)!None ELSE doc}
      BY <1>15 DEF Cosmos!NativeDeleteFails, Cosmos!At
  <2>2. errors' = errors + 1 /\ errors' <= s.errors
      BY <1>b, <2>1
  <2>3. "read" \in Cosmos(s)!PCs
      BY DEF Cosmos!PCs
  <2>4. /\ runner' \in [s.procs -> Cosmos(s)!Process] /\ OnlyRunner(s, p) /\ runner'[p].pc = "read"
        /\ runner'[p].since = runner[p].since /\ runner'[p].seen = runner[p].seen
      BY <1>a, <2>1, <2>3, Sleeps
  <2> QED BY <1>a, <2>1, <2>2, <2>4 DEF OnDocument, InTurn
<1>16. CASE Cosmos(s)!FallbackFails(p)
  <2>1. /\ Cosmos(s)!Sleep(p, "make", TRUE) /\ runner[p].pc \in {"make", "check", "drop"} /\ UNCHANGED now
        /\ errors < s.errors /\ errors' = errors + 1
        /\ \/ UNCHANGED <<doc, etags>>
           \/ doc = Cosmos(s)!None /\ doc' = Cosmos(s)!Document(p) /\ etags' = etags + 1
           \/ runner[p].pc = "drop" /\ doc' = Cosmos(s)!None /\ UNCHANGED etags
      BY <1>16 DEF Cosmos!FallbackFails, Cosmos!At, Cosmos!Awake
  <2>2. errors' = errors + 1 /\ errors' <= s.errors
      BY <1>b, <2>1
  <2>3. "make" \in Cosmos(s)!PCs
      BY DEF Cosmos!PCs
  <2>4. /\ runner' \in [s.procs -> Cosmos(s)!Process] /\ OnlyRunner(s, p) /\ runner'[p].pc = "make"
        /\ runner'[p].since = runner[p].since /\ runner'[p].seen = runner[p].seen
        /\ runner'[p].asleep /\ runner'[p].failed
      BY <1>a, <2>1, <2>3, Sleeps
  <2> QED BY <1>a, <2>1, <2>2, <2>4 DEF OnDocument, InTurn
<1> QED BY <1>1, <1>2, <1>3, <1>4, <1>5, <1>6, <1>7, <1>8, <1>9, <1>10, <1>11, <1>12, <1>13, <1>14,
           <1>15, <1>16 DEF Cosmos!Step, Cosmos!Fault

\* Every step keeps the types.
LEMMA LockTyped ==
    ASSUME NEW s \in LockSetups, Cosmos(s)!CosmosLockAssumption, Cosmos(s)!TypeOK,
           [Cosmos(s)!Next]_lockVars
    PROVE  Cosmos(s)!TypeOK'
<1>a. /\ runner \in [s.procs -> Cosmos(s)!Process] /\ now \in Nat /\ now <= s.time /\ errors \in Nat
      /\ etags \in Nat /\ doc.etag \in Nat /\ doc.expires \in Nat
      /\ s.errors \in Nat /\ s.time \in Nat /\ s.expiry \in Nat
  <2>1. s.errors \in Nat /\ s.time \in Nat /\ s.expiry \in Nat
      BY DEF Cosmos!CosmosLockAssumption
  <2>2. doc.etag \in Nat /\ doc.expires \in Nat
      BY DocumentTyped DEF Cosmos!TypeOK, LockDocument
  <2> QED BY <2>1, <2>2 DEF Cosmos!TypeOK
<1>b. \A q \in s.procs : runner[q].since \in Nat /\ runner[q].seen \in Nat
    BY <1>a DEF Cosmos!Process
<1>1. CASE Cosmos(s)!Tick
  <2>1. /\ runner' \in [s.procs -> Cosmos(s)!Process] /\ now' = now + 1 /\ now < s.time
        /\ UNCHANGED <<doc, etags, errors>>
        /\ \A q \in s.procs : runner'[q].since = runner[q].since /\ runner'[q].seen = runner[q].seen
      BY <1>1, <1>a, Ticks
  <2>2. now' \in 0..s.time /\ doc'.expires <= now' + s.expiry
      BY <1>a, <2>1 DEF Cosmos!TypeOK
  <2>3. \A q \in s.procs : runner'[q].since <= now' /\ runner'[q].seen <= etags'
      BY <1>a, <1>b, <2>1 DEF Cosmos!TypeOK
  <2> QED BY <2>1, <2>2, <2>3 DEF Cosmos!TypeOK
<1>2. ASSUME NEW p \in s.procs,
             Cosmos(s)!Step(p) \/ Cosmos(s)!Fault(p)
      PROVE  Cosmos(s)!TypeOK'
  <2>1. /\ Moved(s, p) /\ runner' \in [s.procs -> Cosmos(s)!Process] /\ now' = now
        /\ errors' \in {errors, errors + 1} /\ errors' <= s.errors
      BY <1>2, Moves DEF Moved
  <2>2. \/ doc' \in {doc, Cosmos(s)!None} /\ etags' = etags
        \/ doc = Cosmos(s)!None /\ doc' = Cosmos(s)!Document(p) /\ etags' = etags + 1
      BY <2>1 DEF Moved, OnDocument
  <2>3. Cosmos(s)!Document(p) \in LockDocument(s) /\ Cosmos(s)!Document(p).etag = etags + 1 /\ Cosmos(s)!Document(p).expires = now + s.expiry
      BY <1>a DEF Cosmos!Document, LockDocument
  <2>4. Cosmos(s)!None.etag = 0 /\ Cosmos(s)!None.expires = 0
      BY DEF Cosmos!None
  <2>5. doc' = Cosmos(s)!None \/ doc' \in LockDocument(s)
      BY <2>2, <2>3 DEF Cosmos!TypeOK, LockDocument
  <2>6. doc'.etag <= etags' /\ doc'.expires <= now' + s.expiry /\ etags' \in Nat /\ etags <= etags'
    <3>1. CASE doc' = doc /\ etags' = etags
        BY <1>a, <2>1, <3>1 DEF Cosmos!TypeOK
    <3>2. CASE doc' = Cosmos(s)!None /\ etags' = etags
        BY <1>a, <2>1, <2>4, <3>2
    <3>3. CASE doc' = Cosmos(s)!Document(p) /\ etags' = etags + 1
        BY <1>a, <2>1, <2>3, <3>3
    <3> QED BY <2>2, <3>1, <3>2, <3>3
  <2>7. \A q \in s.procs : runner'[q].since <= now' /\ runner'[q].seen <= etags'
    <3>1. runner'[p].since <= now /\ runner'[p].seen <= etags
        BY <1>a, <1>b, <2>1 DEF Moved, Cosmos!TypeOK
    <3>2. \A q \in s.procs \ {p} : runner'[q].since <= now /\ runner'[q].seen <= etags
        BY <2>1 DEF Moved, OnlyRunner, Cosmos!TypeOK
    <3>3. \A q \in s.procs : runner'[q] \in Cosmos(s)!Process
        BY <2>1
    <3>4. \A q \in s.procs : runner'[q].seen \in Nat
        BY <3>3 DEF Cosmos!Process
    <3> QED BY <1>a, <2>1, <2>6, <3>1, <3>2, <3>4
  <2>8. now' \in 0..s.time /\ errors' \in 0..s.errors
      BY <1>a, <2>1
  <2> QED BY <2>1, <2>5, <2>6, <2>7, <2>8 DEF Cosmos!TypeOK, LockDocument
<1>3. CASE UNCHANGED lockVars
    BY <1>3 DEF lockVars, Cosmos!TypeOK
<1> QED BY <1>1, <1>2, <1>3 DEF Cosmos!Next

\* The types at the start.
LEMMA LockStarts ==
    ASSUME NEW s \in LockSetups, Cosmos(s)!CosmosLockAssumption, Cosmos(s)!Init
    PROVE  Cosmos(s)!TypeOK /\ \A p \in s.procs : runner[p].pc = "start"
<1>1. runner = [p \in s.procs |-> [pc |-> "start", since |-> 0, seen |-> 0, asleep |-> FALSE, failed |-> FALSE]]
    BY DEF Cosmos!Init
<1>2. [pc |-> "start", since |-> 0, seen |-> 0, asleep |-> FALSE, failed |-> FALSE] \in Cosmos(s)!Process
    BY DEF Cosmos!Process, Cosmos!PCs
<1>3. /\ runner \in [s.procs -> Cosmos(s)!Process]
      /\ \A p \in s.procs : runner[p].pc = "start" /\ runner[p].since = 0 /\ runner[p].seen = 0
    BY <1>1, <1>2
<1>4. /\ doc = Cosmos(s)!None /\ doc.etag = 0 /\ doc.expires = 0 /\ etags = 0 /\ now = 0 /\ errors = 0
      /\ s.time \in Nat /\ s.errors \in Nat /\ s.expiry \in Nat
    BY DEF Cosmos!Init, Cosmos!None, Cosmos!CosmosLockAssumption
<1>5. now \in 0..s.time /\ errors \in 0..s.errors /\ doc.expires <= now + s.expiry
    BY <1>4
<1>6. \A p \in s.procs : runner[p].since <= now /\ runner[p].seen <= etags
    BY <1>3, <1>4
<1> QED BY <1>3, <1>4, <1>5, <1>6 DEF Cosmos!TypeOK

-----------------------------------------------------------------------------
(* What is left behind                                                     *)

\* The document that is there is its holder's, or a dead process's.
LEMMA LeftStep ==
    ASSUME NEW s \in LockSetups, Cosmos(s)!CosmosLockAssumption, Cosmos(s)!TypeOK,
           Cosmos(s)!NothingLeft, [Cosmos(s)!Next]_lockVars
    PROVE  Cosmos(s)!NothingLeft'
<1>a. runner \in [s.procs -> Cosmos(s)!Process] /\ errors \in Nat /\ (doc # Cosmos(s)!None => doc.owner \in s.procs)
    BY DocumentTyped DEF Cosmos!TypeOK, LockDocument
<1>1. CASE Cosmos(s)!Tick
    BY <1>1, <1>a, Ticks DEF Cosmos!NothingLeft
<1>2. ASSUME NEW p \in s.procs,
             Cosmos(s)!Step(p) \/ Cosmos(s)!Fault(p)
      PROVE  Cosmos(s)!NothingLeft'
  <2> SUFFICES ASSUME errors' = 0, doc' # Cosmos(s)!None PROVE runner'[doc'.owner].pc \in {"held", "dead"}
      BY DEF Cosmos!NothingLeft
  <2>1. /\ OnlyRunner(s, p) /\ errors' \in {errors, errors + 1} /\ OnDocument(s, p)
        /\ runner[p].pc \notin {"released", "refused", "dead"}
      BY <1>2, Moves DEF Moved
  <2>2. errors = 0 /\ errors' # errors + 1
      BY <1>a, <2>1
  <2>3. CASE doc' = doc
    <3>1. runner[doc.owner].pc \in {"held", "dead"} /\ doc.owner \in s.procs
        BY <1>a, <2>2, <2>3 DEF Cosmos!NothingLeft
    <3>2. CASE doc.owner = p
        BY <2>1, <2>2, <2>3, <3>1, <3>2 DEF OnDocument, Cosmos!Document
    <3> QED BY <2>1, <2>3, <3>1, <3>2 DEF OnlyRunner
  <2>4. CASE doc' # doc
    <3>1. doc' = Cosmos(s)!Document(p) /\ runner'[p].pc = "held"
        BY <2>1, <2>2, <2>4 DEF OnDocument
    <3> QED BY <3>1 DEF Cosmos!Document
  <2> QED BY <2>3, <2>4
<1>3. CASE UNCHANGED lockVars
    BY <1>3 DEF lockVars, Cosmos!NothingLeft
<1> QED BY <1>1, <1>2, <1>3 DEF Cosmos!Next

-----------------------------------------------------------------------------
(* The holder                                                              *)

\* A holder's document is its own and has not expired; what is about to be deleted has; and
\* the second phase, where that is not looked at again, is for who has waited long enough and
\* follows a death.
HolderInv(s) ==
    /\ \A p \in s.procs : runner[p].pc = "held" =>
         /\ doc # Cosmos(s)!None /\ doc.owner = p /\ doc.expires = runner[p].since + s.expiry
         /\ now <= runner[p].since + s.hold
    /\ \A p \in s.procs : runner[p].pc = "delete" /\ doc.etag = runner[p].seen => doc = Cosmos(s)!None \/ Cosmos(s)!Expired
    /\ \A p \in s.procs : runner[p].pc = "drop" => \E q \in s.procs : runner[q].pc = "dead"
    /\ \A p \in s.procs : runner[p].pc \in Fallback => s.timeout <= now
    /\ \A p \in s.procs : runner[p].pc = "dead" => s.deaths # 0

\* An expired document is not that of a holder, and somebody is dead.
LEMMA ExpiredIsDead ==
    ASSUME NEW s \in LockSetups, Cosmos(s)!CosmosLockAssumption, s.hold <= s.expiry,
           Cosmos(s)!TypeOK, Cosmos(s)!NothingLeft, errors = 0, HolderInv(s),
           Cosmos(s)!Expired
    PROVE  /\ \A p \in s.procs : runner[p].pc # "held"
           /\ \E q \in s.procs : runner[q].pc = "dead"
<1>1. doc # Cosmos(s)!None /\ now > doc.expires /\ doc.owner \in s.procs /\ runner[doc.owner].pc \in {"held", "dead"}
    BY DocumentTyped DEF Cosmos!Expired, Cosmos!NothingLeft, Cosmos!TypeOK, LockDocument
<1>2. ASSUME NEW p \in s.procs, runner[p].pc = "held" PROVE FALSE
  <2>1. now <= runner[p].since + s.hold /\ doc.expires = runner[p].since + s.expiry
      BY <1>2 DEF HolderInv
  <2>2. runner[p].since \in Nat /\ s.hold \in Nat /\ s.expiry \in Nat /\ now \in Nat
    <3>1. runner[p] \in Cosmos(s)!Process
        BY DEF Cosmos!TypeOK
    <3>2. runner[p].since \in Nat
        BY <3>1 DEF Cosmos!Process
    <3>3. s.hold \in Nat /\ s.expiry \in Nat
        BY DEF Cosmos!CosmosLockAssumption
    <3>4. now \in Nat
        BY DEF Cosmos!TypeOK
    <3> QED BY <3>2, <3>3, <3>4
  <2> QED BY <1>1, <2>1, <2>2
<1> QED BY <1>1, <1>2

\* Where at most one waiter can be mistaken, nobody holds the lock while a waiter is about to
\* delete whatever is there.
LEMMA DropIsAlone ==
    ASSUME NEW s \in LockSetups, OneFallback(s), HolderInv(s), now <= s.time, now \in Nat,
           s.timeout \in Nat, s.time \in Nat,
           NEW p \in s.procs, runner[p].pc = "drop",
           NEW r \in s.procs, runner[r].pc = "held"
    PROVE  FALSE
<1>1. PICK q \in s.procs : runner[q].pc = "dead"
    BY DEF HolderInv
<1>2. s.deaths # 0
    BY <1>1 DEF HolderInv
<1>3. s.timeout <= now
    BY DEF HolderInv, Fallback
<1>4. ~(s.time < s.timeout)
    BY <1>3
<1>5. p # q /\ q # r /\ p # r
    BY <1>1
<1> QED BY <1>2, <1>4, <1>5 DEF OneFallback

\* Somebody can die only where deaths are allowed.
LEMMA DeathsAllowed ==
    ASSUME NEW s \in LockSetups, Cosmos(s)!CosmosLockAssumption,
           Cardinality({q \in s.procs : Cosmos(s)!At(q, "dead")}) < s.deaths
    PROVE  s.deaths # 0
<1>1. IsFiniteSet(s.procs) /\ {q \in s.procs : Cosmos(s)!At(q, "dead")} \subseteq s.procs
    BY DEF Cosmos!CosmosLockAssumption, Cosmos!IsFiniteSet, IsFiniteSet
<1>2. Cardinality({q \in s.procs : Cosmos(s)!At(q, "dead")}) \in Nat
    BY <1>1, FS_Subset, FS_CardinalityType
<1> QED BY <1>2

\* Every step of a process leaves the holders their document.
LEMMA HolderMoves ==
    ASSUME NEW s \in LockSetups, Cosmos(s)!CosmosLockAssumption, s.errors = 0, s.hold <= s.expiry,
           OneFallback(s),
           Cosmos(s)!TypeOK, Cosmos(s)!NothingLeft, HolderInv(s), NEW p \in s.procs, Moved(s, p)
    PROVE  HolderInv(s)'
<1>a. /\ runner \in [s.procs -> Cosmos(s)!Process] /\ now \in Nat /\ now <= s.time /\ errors = 0 /\ errors' = 0
      /\ s.timeout \in Nat /\ s.time \in Nat /\ s.expiry \in Nat /\ s.hold \in Nat
      /\ etags \in Nat /\ doc.etag \in Nat
  <2>1. /\ s.timeout \in Nat /\ s.time \in Nat /\ s.expiry \in Nat /\ s.hold \in Nat
      BY DEF Cosmos!CosmosLockAssumption
  <2>2. doc.etag \in Nat
      BY DocumentTyped DEF Cosmos!TypeOK, LockDocument
  <2>3. errors = 0
      BY DEF Cosmos!TypeOK
  <2>4. errors' = 0
      BY <2>3 DEF Moved
  <2> QED BY <2>1, <2>2, <2>3, <2>4 DEF Cosmos!TypeOK
<1>b. OnlyRunner(s, p) /\ now' = now /\ runner[p].pc \notin {"released", "refused", "dead"}
    BY DEF Moved
<1>c. /\ \A q \in s.procs : runner[q].since \in Nat /\ runner[q].seen \in Nat /\ runner[q].seen <= etags
      /\ \A q \in s.procs : runner[q].since <= now
    BY <1>a DEF Cosmos!TypeOK, Cosmos!Process
\* What happens to the document.
<1>1. \/ UNCHANGED doc /\ runner'[p].pc # "held"
      \/ doc = Cosmos(s)!None /\ doc' = Cosmos(s)!Document(p) /\ runner'[p].pc = "held" /\ runner'[p].since = now
      \/ /\ doc' = Cosmos(s)!None /\ doc # Cosmos(s)!None /\ runner'[p].pc # "held"
         /\ \A q \in s.procs \ {p} : runner[q].pc # "held"
  <2>1. CASE /\ runner[p].pc = "delete" /\ doc' = (IF doc.etag = runner[p].seen THEN Cosmos(s)!None ELSE doc)
             /\ runner'[p].pc = "read"
    <3>1. CASE doc.etag # runner[p].seen \/ doc = Cosmos(s)!None
        BY <2>1, <3>1
    <3>2. CASE doc.etag = runner[p].seen /\ doc # Cosmos(s)!None
      <4>1. Cosmos(s)!Expired
          BY <2>1, <3>2 DEF HolderInv
      <4> QED BY <1>a, <2>1, <3>2, <4>1, ExpiredIsDead
    <3> QED BY <3>1, <3>2
  <2>2. CASE runner[p].pc = "drop" /\ doc' = Cosmos(s)!None /\ runner'[p].pc = "make"
      BY <1>a, <2>2, DropIsAlone
  <2>3. CASE runner[p].pc = "held" /\ doc' = Cosmos(s)!None /\ runner'[p].pc = "released"
      BY <2>3 DEF HolderInv
  <2> QED BY <1>a, <2>1, <2>2, <2>3 DEF Moved, OnDocument
<1>2. ASSUME NEW q \in s.procs, runner'[q].pc = "held"
      PROVE  /\ doc' # Cosmos(s)!None /\ doc'.owner = q /\ doc'.expires = runner'[q].since + s.expiry
             /\ now' <= runner'[q].since + s.hold
  <2>1. Cosmos(s)!Document(p).etag = etags + 1 /\ Cosmos(s)!Document(p).owner = p /\ Cosmos(s)!Document(p).expires = now + s.expiry
      BY DEF Cosmos!Document
  <2>2. Cosmos(s)!Document(p) # Cosmos(s)!None
    <3>1. Cosmos(s)!None.etag = 0
        BY DEF Cosmos!None
    <3>2. etags + 1 # 0
        BY <1>a
    <3> QED BY <2>1, <3>1, <3>2
  <2>3. CASE q = p
    <3>1. doc' = Cosmos(s)!Document(p) /\ runner'[p].since = now
        BY <1>1, <1>2, <2>3
    <3> QED BY <1>a, <1>b, <2>1, <2>2, <2>3, <3>1
  <2>4. CASE q # p
    <3>1. runner'[q] = runner[q]
        BY <1>b, <2>4 DEF OnlyRunner
    <3>2. /\ doc # Cosmos(s)!None /\ doc.owner = q /\ doc.expires = runner[q].since + s.expiry
          /\ now <= runner[q].since + s.hold
        BY <1>2, <3>1 DEF HolderInv
    <3>3. doc' = doc
        BY <1>1, <1>2, <2>4, <3>1, <3>2
    <3> QED BY <1>b, <3>1, <3>2, <3>3
  <2> QED BY <2>3, <2>4
<1>3. ASSUME NEW q \in s.procs, runner'[q].pc = "delete", doc'.etag = runner'[q].seen
      PROVE  doc' = Cosmos(s)!None \/ Cosmos(s)!Expired'
  <2>1. CASE q = p
      BY <1>3, <1>b, <2>1 DEF Moved, InTurn, Cosmos!Expired
  <2>2. CASE q # p
    <3>1. runner'[q] = runner[q]
        BY <1>b, <2>2 DEF OnlyRunner
    <3>2. CASE doc' = doc
        BY <1>3, <1>b, <3>1, <3>2 DEF HolderInv, Cosmos!Expired
    <3>3. CASE doc' = Cosmos(s)!Document(p)
      <4>1. doc'.etag = etags + 1
          BY <3>3 DEF Cosmos!Document
      <4> QED BY <1>3, <1>a, <1>c, <3>1, <4>1
    <3> QED BY <1>1, <3>2, <3>3
  <2> QED BY <2>1, <2>2
<1>4. \A q \in s.procs : runner[q].pc = "dead" => runner'[q].pc = "dead"
    BY <1>b DEF OnlyRunner
<1>5. ASSUME NEW q \in s.procs, runner'[q].pc = "drop"
      PROVE  \E r \in s.procs : runner'[r].pc = "dead"
  <2>1. \E r \in s.procs : runner[r].pc = "dead"
    <3>1. CASE q = p
        BY <1>5, <1>a, <3>1, ExpiredIsDead DEF Moved, InTurn
    <3>2. CASE q # p
        BY <1>5, <1>b, <3>2 DEF HolderInv, OnlyRunner
    <3> QED BY <3>1, <3>2
  <2> QED BY <1>4, <2>1
<1>6. ASSUME NEW q \in s.procs, runner'[q].pc \in Fallback
      PROVE  s.timeout <= now'
  <2>1. CASE q # p \/ runner[p].pc \in Fallback
      BY <1>6, <1>b, <2>1 DEF HolderInv, OnlyRunner
  <2>2. CASE q = p /\ runner[p].pc \notin Fallback
    <3>1. ~(now - runner[p].since < s.timeout)
        BY <1>6, <1>a, <2>2 DEF Moved, InTurn, Cosmos!Waiting
    <3> QED BY <1>a, <1>b, <1>c, <3>1
  <2> QED BY <2>1, <2>2
<1>7. ASSUME NEW q \in s.procs, runner'[q].pc = "dead"
      PROVE  s.deaths # 0
  <2>1. CASE q = p
      BY <1>7, <2>1, DeathsAllowed DEF Moved, InTurn
  <2>2. CASE q # p
      BY <1>7, <1>b, <2>2 DEF HolderInv, OnlyRunner
  <2> QED BY <2>1, <2>2
<1> QED BY <1>2, <1>3, <1>5, <1>6, <1>7 DEF HolderInv

\* So does time.
LEMMA HolderStep ==
    ASSUME NEW s \in LockSetups, Cosmos(s)!CosmosLockAssumption, s.errors = 0, s.hold <= s.expiry,
           OneFallback(s),
           Cosmos(s)!TypeOK, Cosmos(s)!NothingLeft, HolderInv(s), [Cosmos(s)!Next]_lockVars
    PROVE  HolderInv(s)'
<1>1. CASE Cosmos(s)!Tick
  <2>1. /\ runner \in [s.procs -> Cosmos(s)!Process] /\ now \in Nat /\ s.hold \in Nat /\ s.timeout \in Nat
        /\ doc.expires \in Nat
    <3>1. s.hold \in Nat /\ s.timeout \in Nat
        BY DEF Cosmos!CosmosLockAssumption
    <3>2. doc.expires \in Nat
        BY DocumentTyped DEF Cosmos!TypeOK, LockDocument
    <3> QED BY <3>1, <3>2 DEF Cosmos!TypeOK
  <2>2. /\ now' = now + 1 /\ UNCHANGED doc
        /\ \A p \in s.procs : /\ runner'[p].pc = runner[p].pc /\ runner'[p].since = runner[p].since
                            /\ runner'[p].seen = runner[p].seen
      BY <1>1, <2>1, Ticks
  <2>3. \A p \in s.procs : runner[p].since \in Nat
      BY <2>1 DEF Cosmos!Process
  <2>4. ASSUME NEW p \in s.procs, runner[p].pc = "held" PROVE now + 1 <= runner[p].since + s.hold
    <3>1. now - runner[p].since < s.hold
        BY <1>1, <2>4 DEF Cosmos!Tick, Cosmos!At
    <3> QED BY <2>1, <2>3, <3>1
  <2>5. Cosmos(s)!Expired => Cosmos(s)!Expired'
      BY <2>1, <2>2 DEF Cosmos!Expired
  <2>6. s.timeout <= now => s.timeout <= now'
      BY <2>1, <2>2
  <2> QED BY <2>2, <2>4, <2>5, <2>6 DEF HolderInv
<1>2. ASSUME NEW p \in s.procs,
             Cosmos(s)!Step(p) \/ Cosmos(s)!Fault(p)
      PROVE  HolderInv(s)'
    BY <1>2, Moves, HolderMoves
<1>3. CASE UNCHANGED lockVars
    BY <1>3 DEF lockVars, HolderInv, Cosmos!Expired
<1> QED BY <1>1, <1>2, <1>3 DEF Cosmos!Next

-----------------------------------------------------------------------------
(* Who is turned away                                                      *)

\* A waiter in the second phase has time left, unless it slept with a live document in view
\* or after a request that failed.
RefusalInv(s) ==
    \A p \in s.procs :
        /\ runner[p].pc \in {"check", "drop"} => Cosmos(s)!Waiting(p) /\ ~runner[p].asleep
        /\ runner[p].pc = "make" =>
             IF runner[p].asleep
             THEN doc = Cosmos(s)!None \/ now <= doc.expires \/ runner[p].failed
             ELSE \/ Cosmos(s)!Waiting(p) \/ doc = Cosmos(s)!None \/ now <= doc.expires + 1
                  \/ runner[p].failed

\* Every step keeps that.
LEMMA RefusalStep ==
    ASSUME NEW s \in LockSetups, Cosmos(s)!CosmosLockAssumption, Cosmos(s)!TypeOK, RefusalInv(s),
           [Cosmos(s)!Next]_lockVars
    PROVE  RefusalInv(s)'
<1>a. /\ runner \in [s.procs -> Cosmos(s)!Process] /\ now \in Nat /\ s.timeout \in Nat \ {0} /\ s.expiry \in Nat
      /\ doc.expires \in Nat
  <2>1. s.timeout \in Nat \ {0} /\ s.expiry \in Nat
      BY DEF Cosmos!CosmosLockAssumption
  <2>2. doc.expires \in Nat
      BY DocumentTyped DEF Cosmos!TypeOK, LockDocument
  <2> QED BY <2>1, <2>2 DEF Cosmos!TypeOK
<1>b. \A q \in s.procs : runner[q].since \in Nat
    BY <1>a DEF Cosmos!Process
<1>1. CASE Cosmos(s)!Tick
  <2>1. /\ now' = now + 1 /\ UNCHANGED doc
        /\ \A p \in s.procs : /\ runner'[p].pc = runner[p].pc /\ ~runner'[p].asleep
                             /\ runner'[p].failed = runner[p].failed
        /\ \A p \in s.procs : runner[p].pc \notin {"check", "drop"} /\ (runner[p].pc = "make" => runner[p].asleep)
      BY <1>1, <1>a, Ticks DEF Cosmos!Tick
  <2>2. now <= doc.expires => now' <= doc'.expires + 1
      BY <1>a, <2>1
  <2> QED BY <2>1, <2>2 DEF RefusalInv
<1>2. ASSUME NEW p \in s.procs,
             Cosmos(s)!Step(p) \/ Cosmos(s)!Fault(p)
      PROVE  RefusalInv(s)'
  <2>1. /\ Moved(s, p) /\ OnlyRunner(s, p) /\ now' = now /\ OnDocument(s, p) /\ InTurn(s, p)
      BY <1>2, Moves DEF Moved
  <2>2. doc' = doc \/ doc' = Cosmos(s)!None \/ now <= doc'.expires
    <3>1. Cosmos(s)!Document(p).expires = now + s.expiry
        BY DEF Cosmos!Document
    <3>2. now <= Cosmos(s)!Document(p).expires
        BY <1>a, <3>1
    <3> QED BY <2>1, <3>2 DEF OnDocument
  <2>3. now <= doc'.expires /\ doc' = Cosmos(s)!Document(p) => now <= doc'.expires + 1
    <3>1. Cosmos(s)!Document(p).expires = now + s.expiry
        BY DEF Cosmos!Document
    <3> QED BY <1>a, <3>1
  <2>4. doc' = doc \/ doc' = Cosmos(s)!None \/ (now <= doc'.expires /\ now <= doc'.expires + 1)
      BY <2>1, <2>2, <2>3 DEF OnDocument
  <2>5. ASSUME NEW q \in s.procs \ {p}
        PROVE  /\ runner'[q].pc \in {"check", "drop"} => Cosmos(s)!Waiting(q)' /\ ~runner'[q].asleep
               /\ runner'[q].pc = "make" =>
                    IF runner'[q].asleep
                    THEN doc' = Cosmos(s)!None \/ now' <= doc'.expires \/ runner'[q].failed
                    ELSE \/ Cosmos(s)!Waiting(q)' \/ doc' = Cosmos(s)!None \/ now' <= doc'.expires + 1
                         \/ runner'[q].failed
    <3>1. runner'[q] = runner[q] /\ now' = now /\ (Cosmos(s)!Waiting(q) => Cosmos(s)!Waiting(q)')
        BY <2>1 DEF OnlyRunner, Cosmos!Waiting
    <3> QED BY <2>4, <3>1 DEF RefusalInv
  <2>6. runner'[p].since = runner[p].since => (Cosmos(s)!Waiting(p) => Cosmos(s)!Waiting(p)')
      BY <2>1 DEF Cosmos!Waiting
  <2>7. runner'[p].since = now => Cosmos(s)!Waiting(p)'
      BY <1>a, <2>1 DEF Cosmos!Waiting
  <2>8. runner'[p].pc \in {"check", "drop"} => Cosmos(s)!Waiting(p)' /\ ~runner'[p].asleep
      BY <2>1, <2>6 DEF InTurn, RefusalInv
  <2>9. ASSUME runner'[p].pc = "make"
        PROVE  IF runner'[p].asleep
               THEN doc' = Cosmos(s)!None \/ now' <= doc'.expires \/ runner'[p].failed
               ELSE \/ Cosmos(s)!Waiting(p)' \/ doc' = Cosmos(s)!None \/ now' <= doc'.expires + 1
                    \/ runner'[p].failed
    <3>1. CASE runner'[p].since = now /\ ~runner'[p].asleep
        BY <2>7, <3>1
    <3>2. CASE runner[p].pc \in {"check", "drop"} /\ runner'[p].since = runner[p].since /\ ~runner'[p].asleep
        BY <2>6, <3>2 DEF RefusalInv
    <3>3. CASE doc' = doc /\ doc # Cosmos(s)!None /\ ~Cosmos(s)!Expired /\ runner'[p].asleep
      <4>1. now <= doc.expires
          BY <1>a, <3>3 DEF Cosmos!Expired
      <4> QED BY <2>1, <3>3, <4>1
    <3>4. CASE runner'[p].asleep /\ runner'[p].failed
        BY <3>4
    <3> QED BY <2>1, <2>9, <3>1, <3>2, <3>3, <3>4 DEF InTurn, RefusalInv
  <2> QED BY <2>5, <2>8, <2>9 DEF RefusalInv
<1>3. CASE UNCHANGED lockVars
    BY <1>3 DEF lockVars, RefusalInv, Cosmos!Waiting
<1> QED BY <1>1, <1>2, <1>3 DEF Cosmos!Next

-----------------------------------------------------------------------------
(* The lock where the stores run it                                        *)

\* What holds of the lock with the setup it runs with.
DocumentInv ==
    part = "lock" =>
      \A s \in LockSetups : setup = s =>
        /\ Cosmos(s)!TypeOK /\ Cosmos(s)!NothingLeft /\ RefusalInv(s)
        /\ Careful(s) => HolderInv(s)

\* It holds at the start.
LEMMA StoresStart ==
    ASSUME StoresAssumption, StoresInit
    PROVE  DocumentInv
<1> SUFFICES ASSUME part = "lock", NEW s \in LockSetups, setup = s
             PROVE  /\ Cosmos(s)!TypeOK /\ Cosmos(s)!NothingLeft /\ RefusalInv(s)
                    /\ HolderInv(s)
    BY DEF DocumentInv
<1>1. Cosmos(s)!Init /\ Cosmos(s)!CosmosLockAssumption
    BY DEF StoresInit, StoresAssumption
<1>2. Cosmos(s)!TypeOK /\ \A p \in s.procs : runner[p].pc = "start"
    BY <1>1, LockStarts
<1>3. doc = Cosmos(s)!None
    BY <1>1 DEF Cosmos!Init
<1> QED BY <1>2, <1>3 DEF Cosmos!NothingLeft, HolderInv, RefusalInv, Fallback

\* A step of the stores is one of the lock with its setup, or leaves the lock alone.
LEMMA StoresMove ==
    ASSUME [StoresNext]_storesVars, part' = "lock", NEW s \in LockSetups, setup' = s
    PROVE  part = "lock" /\ setup = s /\ [Cosmos(s)!Next]_lockVars
<1>1. part' = part /\ setup' = setup
    BY DEF StoresNext, storesVars
<1>2. CASE StoresNext
    BY <1>1, <1>2 DEF StoresNext
<1>3. CASE UNCHANGED storesVars
    BY <1>1, <1>3 DEF storesVars, lockVars
<1> QED BY <1>1, <1>2, <1>3

\* Every step keeps it.
LEMMA StoresStep ==
    ASSUME StoresAssumption, DocumentInv, [StoresNext]_storesVars
    PROVE  DocumentInv'
<1> SUFFICES ASSUME part' = "lock", NEW s \in LockSetups, setup' = s
             PROVE  /\ Cosmos(s)!TypeOK' /\ Cosmos(s)!NothingLeft' /\ RefusalInv(s)'
                    /\ Careful(s) => HolderInv(s)'
    BY DEF DocumentInv, Careful, OneFallback
<1>1. part = "lock" /\ setup = s /\ [Cosmos(s)!Next]_lockVars
    BY StoresMove
<1>2. /\ Cosmos(s)!CosmosLockAssumption /\ Cosmos(s)!TypeOK /\ Cosmos(s)!NothingLeft /\ RefusalInv(s)
      /\ Careful(s) => HolderInv(s)
    BY <1>1 DEF StoresAssumption, DocumentInv
<1>3. Cosmos(s)!TypeOK'
    BY <1>1, <1>2, LockTyped
<1>4. Cosmos(s)!NothingLeft'
    BY <1>1, <1>2, LeftStep
<1>5. RefusalInv(s)'
    BY <1>1, <1>2, RefusalStep
<1>6. Careful(s) => HolderInv(s)'
    BY <1>1, <1>2, HolderStep DEF Careful
<1> QED BY <1>3, <1>4, <1>5, <1>6

\* The lock document of Cosmos DB is that of the process that holds the lock, for any number
\* of processes of which nobody is killed or none gets as far as the second phase, and for
\* two processes whatever happens to them, while migrations are shorter than the expiry and
\* no request fails: only two waiters that found a dead holder's document expired in the
\* second phase can delete the document of a third.  And however long migrations take and
\* whoever deletes whose document, a release leaves no document while no request has failed.
THEOREM DocumentIsHeld ==
    ASSUME StoresAssumption
    PROVE  StoresSpec => []DocumentIsTheHolders
<1>1. StoresInit => DocumentInv
    BY StoresStart
<1>2. DocumentInv /\ [StoresNext]_storesVars => DocumentInv'
    BY StoresStep
<1>3. DocumentInv => DocumentIsTheHolders
  <2> SUFFICES ASSUME DocumentInv, part = "lock", NEW s \in LockSetups, setup = s
               PROVE  /\ Cosmos(s)!TypeOK /\ Cosmos(s)!NothingLeft
                      /\ Careful(s) => Cosmos(s)!DocumentIsTheHolders
      BY DEF DocumentIsTheHolders
  <2>1. Cosmos(s)!TypeOK /\ Cosmos(s)!NothingLeft /\ (Careful(s) => HolderInv(s))
      BY DEF DocumentInv
  <2>2. HolderInv(s) => Cosmos(s)!HolderKeepsLock
      BY DEF HolderInv, Cosmos!HolderKeepsLock, Cosmos!At
  <2> QED BY <2>1, <2>2 DEF Cosmos!DocumentIsTheHolders
<1> QED BY <1>1, <1>2, <1>3, PTL DEF StoresSpec

\* Whatever fails and whoever is killed: a run is only turned away by a document that had not
\* expired when it was last looked at, or when its last request failed.
THEOREM NobodyIsLockedOut ==
    ASSUME StoresAssumption
    PROVE  StoresSpec => RefusalIsJustified
<1>1. StoresInit => DocumentInv
    BY StoresStart
<1>2. DocumentInv /\ [StoresNext]_storesVars => DocumentInv'
    BY StoresStep
<1>3. ASSUME DocumentInv, [StoresNext]_storesVars, part = "lock",
             NEW p \in setup.procs, runner'[p].pc = "refused", runner[p].pc = "make"
      PROVE  doc.etag = 0 \/ now <= doc.expires + 1 \/ runner[p].failed
  <2>1. PICK s \in LockSetups : part' = "lock" /\ setup' = s /\ setup = s /\ [Cosmos(s)!Next]_lockVars
    <3>1. CASE StoresNext
        BY <1>3, <3>1 DEF StoresNext
    <3>2. CASE UNCHANGED storesVars
        BY <1>3, <3>2 DEF storesVars, lockVars
    <3> QED BY <1>3, <3>1, <3>2
  <2>2. /\ Cosmos(s)!CosmosLockAssumption /\ Cosmos(s)!TypeOK /\ RefusalInv(s) /\ p \in s.procs
      BY <1>3, <2>1 DEF StoresAssumption, DocumentInv
  <2>3. ~runner[p].asleep /\ ~Cosmos(s)!Waiting(p)
    <3>1. CASE Cosmos(s)!Tick
        BY <1>3, <2>2, <3>1, Ticks DEF Cosmos!TypeOK
    <3>2. ASSUME NEW q \in s.procs, Moved(s, q) PROVE ~runner[p].asleep /\ ~Cosmos(s)!Waiting(p)
        BY <1>3, <2>2, <3>2 DEF Moved, OnlyRunner, InTurn
    <3>3. CASE UNCHANGED lockVars
        BY <1>3, <2>2, <3>3 DEF lockVars
    <3> QED BY <1>3, <2>1, <2>2, <3>1, <3>2, <3>3, Moves DEF Cosmos!Next
  <2>4. doc.etag = 0 <=> doc = Cosmos(s)!None
      BY <2>2, DocumentTyped DEF Cosmos!TypeOK, LockDocument
  <2> QED BY <1>3, <2>2, <2>3, <2>4 DEF RefusalInv
<1>4. DocumentInv /\ [StoresNext]_storesVars =>
        [part = "lock" => \A p \in setup.procs : runner'[p].pc = "refused" /\ runner[p].pc = "make" =>
            doc.etag = 0 \/ now <= doc.expires + 1 \/ runner[p].failed]_storesVars
    BY <1>3
<1> QED BY <1>1, <1>2, <1>4, PTL DEF StoresSpec, RefusalIsJustified
=============================================================================
