---------------------------- MODULE HistoryStore ----------------------------
(***************************************************************************)
(* The history table of each dialect: first runs that race to create the   *)
(* schema and the table without the migration lock, and records written    *)
(* under it.  A provider is its answers to the questions that differ:      *)
(* what a lost race for the schema or the table looks like, where a row's  *)
(* rank comes from, which row a write replaces, what a failed read yields. *)
(***************************************************************************)
EXTENDS Naturals, FiniteSets, FiniteSetsExt

CONSTANTS
  Procs,      \* processes, all started against an empty database
  Baseliner,  \* the processes that run baseline; the others run migrate
  Scripts,    \* versioned scripts, in version order
  Dialects,   \* the dialects to check
  MaxFaults,  \* bound: history reads that fail
  MaxDeaths   \* bound: processes killed

VARIABLES
  dialect,
  schema, table,  \* whether they exist
  rows,           \* the history: [rank, script, by]
  serial,         \* last value of the identity column
  lock,           \* holder of the migration lock
  proc,           \* per process: [pc, attempt, why, todo, rank]
  runs,           \* per script: how often it was executed
  faults

vars == <<dialect, schema, table, rows, serial, lock, proc, runs, faults>>

NoOne == "no one"
Marker == 0  \* the script of a baseline row
PCs == {"schema?", "schema!", "table?", "table!", "wait", "plan", "execute", "rank", "write",
        "done", "failed", "dead"}
Process == [pc: PCs, attempt: 1..3, why: {"", "race", "not empty", "read", "rank"},
            todo: Scripts \cup {Marker}, rank: Nat]
Row == [rank: Nat \ {0}, script: Scripts \cup {Marker}, by: Procs]

-----------------------------------------------------------------------------
(* The dialects.                                                           *)
(* schema, table: what CREATE answers when the object is there by now:     *)
(*   "quiet" no error, "absorbed" an error the provider swallows, "race"   *)
(*   an error the dialect's quirks recognise, "either" quiet or race.      *)
(* rank: "serial" an identity column, "max" highest plus one.              *)
(* key: the rows a write replaces.   read: what a failed read yields.      *)

Relational(schemaRace, tableRace) ==
  [schema |-> schemaRace, table |-> tableRace, rank |-> "serial", key |-> "none", read |-> "raises"]

\* IF NOT EXISTS is not atomic in PostgreSQL: the loser may get a unique violation.
PostgreSql == Relational("absorbed", "either")
\* A history table made by Flyway has no identity: the INSERT selects the highest rank.
PostgreSqlFlyway == [PostgreSql EXCEPT !.rank = "max"]
Mysql == Relational("quiet", "quiet")
SqlServer == Relational("race", "race")
Db2 == Relational("race", "race")
Oracle == Relational("absorbed", "race")
Snowflake == Relational("quiet", "quiet")
DuckDb == Relational("quiet", "quiet")
\* No schemas: create_schema_if_not_exists does nothing.
Sqlite == Relational("quiet", "quiet")
\* The rank is the document's _id; a write replaces the document with that _id.
MongoDb == [Relational("quiet", "quiet") EXCEPT !.rank = "max", !.key = "rank"]
\* The script is the document's id.  A failed query is logged and read as no rows.
CosmosDb == [Relational("quiet", "quiet") EXCEPT !.rank = "max", !.key = "script", !.read = "empty"]

Provider ==
  [postgresql |-> PostgreSql, flyway |-> PostgreSqlFlyway, mysql |-> Mysql, sqlserver |-> SqlServer,
   db2 |-> Db2, oracle |-> Oracle, snowflake |-> Snowflake, duckdb |-> DuckDb, sqlite |-> Sqlite,
   mongodb |-> MongoDb, cosmosdb |-> CosmosDb]

HistoryStoreAssumption ==
  /\ Baseliner \subseteq Procs /\ NoOne \notin Procs /\ Scripts \subseteq Nat \ {Marker}
  /\ Dialects \subseteq DOMAIN Provider /\ MaxFaults \in Nat /\ MaxDeaths \in Nat

It == Provider[dialect]

-----------------------------------------------------------------------------

TypeOK ==
  /\ dialect \in Dialects /\ schema \in BOOLEAN /\ table \in BOOLEAN
  /\ rows \subseteq Row /\ serial \in Nat /\ lock \in Procs \cup {NoOne}
  /\ proc \in [Procs -> Process]
  /\ runs \in [Scripts -> Nat] /\ faults \in 0..MaxFaults
  /\ (rows # {} => table) /\ (table => schema)

Init ==
  /\ dialect \in Dialects
  /\ schema = FALSE /\ table = FALSE /\ rows = {} /\ serial = 0 /\ lock = NoOne
  /\ proc = [p \in Procs |-> [pc |-> "schema?", attempt |-> 1, why |-> "", todo |-> Marker, rank |-> 0]]
  /\ runs = [s \in Scripts |-> 0] /\ faults = 0

At(p, pc) == proc[p].pc = pc
Goto(p, pc) == proc' = [proc EXCEPT ![p].pc = pc]
Fail(p, why) == proc' = [proc EXCEPT ![p].pc = "failed", ![p].why = why]

\* Mutant: two attempts.
TwoAttempts == 2

MaxAttempts == 3

\* A provider error is rolled back; one that the quirks read as a lost race is tried
\* again from the schema.
Raced(p) ==
  IF proc[p].attempt = MaxAttempts
  THEN Fail(p, "race")
  ELSE proc' = [proc EXCEPT ![p].pc = "schema?", ![p].attempt = @ + 1]

\* What CREATE may answer when the object is there.
Answers(trait) == IF trait = "either" THEN {"quiet", "race"} ELSE {trait}

CheckSchema(p) ==
  /\ At(p, "schema?") /\ Goto(p, IF schema THEN "table?" ELSE "schema!")
  /\ UNCHANGED <<dialect, schema, table, rows, serial, lock, runs, faults>>

CreateSchema(p) ==
  /\ At(p, "schema!") /\ schema' = TRUE
  /\ \E answer \in Answers(It.schema) :
       IF schema /\ answer = "race" THEN Raced(p) ELSE Goto(p, "table?")
  /\ UNCHANGED <<dialect, table, rows, serial, lock, runs, faults>>

\* A baseline refuses a table that holds rows.
CheckTable(p) ==
  /\ At(p, "table?")
  /\ IF ~table THEN Goto(p, "table!")
     ELSE IF p \in Baseliner /\ rows # {} THEN Fail(p, "not empty") ELSE Goto(p, "wait")
  /\ UNCHANGED <<dialect, schema, table, rows, serial, lock, runs, faults>>

CreateTable(p) ==
  /\ At(p, "table!") /\ table' = TRUE
  /\ \E answer \in Answers(It.table) :
       IF table /\ answer = "race" THEN Raced(p) ELSE Goto(p, "wait")
  /\ UNCHANGED <<dialect, schema, rows, serial, lock, runs, faults>>

-----------------------------------------------------------------------------
(* Under the lock. *)

Acquire(p) ==
  /\ At(p, "wait") /\ lock = NoOne /\ lock' = p /\ Goto(p, "plan")
  /\ UNCHANGED <<dialect, schema, table, rows, serial, runs, faults>>

Release(p) == lock' = IF lock = p THEN NoOne ELSE lock

Recorded == {r.script : r \in rows}

\* The versions at or below a baseline do not run; the lowest pending one is next.
Pending(known) == IF Marker \in known THEN {} ELSE Scripts \ known

\* What a process does with the history it has read under the lock.
Plan(p, known) ==
  IF p \in Baseliner
  THEN IF known # {} THEN Fail(p, "not empty") /\ Release(p)
       ELSE proc' = [proc EXCEPT ![p].pc = "rank", ![p].todo = Marker] /\ UNCHANGED lock
  ELSE IF Pending(known) = {} THEN Goto(p, "done") /\ Release(p)
  ELSE proc' = [proc EXCEPT ![p].pc = "execute", ![p].todo = Min(Pending(known))] /\ UNCHANGED lock

ReadHistory(p) ==
  /\ At(p, "plan") /\ Plan(p, Recorded)
  /\ UNCHANGED <<dialect, schema, table, rows, serial, runs, faults>>

\* The read fails: the command ends, or goes on as with an empty history.
ReadFails(p) ==
  /\ At(p, "plan") /\ faults < MaxFaults /\ faults' = faults + 1
  /\ IF It.read = "raises" THEN Fail(p, "read") /\ Release(p) ELSE Plan(p, {})
  /\ UNCHANGED <<dialect, schema, table, rows, serial, runs>>

Execute(p) ==
  /\ At(p, "execute") /\ Goto(p, "rank") /\ runs' = [runs EXCEPT ![proc[p].todo] = @ + 1]
  /\ UNCHANGED <<dialect, schema, table, rows, serial, lock, faults>>

Highest == Max({r.rank : r \in rows} \cup {0})

\* record_migration of a store without identity reads the highest rank first.
NextRank(p) == Highest + 1

ReadRank(p) ==
  /\ At(p, "rank")
  /\ proc' = [proc EXCEPT ![p].pc = "write", ![p].rank = IF It.rank = "max" THEN NextRank(p) ELSE 0]
  /\ UNCHANGED <<dialect, schema, table, rows, serial, lock, runs, faults>>

\* Mutant: the document to replace is not selected by its _id.
ReplacedAny(row) == IF It.key = "rank" THEN rows ELSE {}

\* Rows the write of this row replaces.
Replaced(row) ==
  CASE It.key = "rank" -> {r \in rows : r.rank = row.rank}
    [] It.key = "script" -> {r \in rows : r.script = row.script}
    [] OTHER -> {}

\* A rank is the primary key: a relational insert of one in use fails, and the command
\* with it.  A baseline ends with its row, a migrate looks for the next script.
WriteRow(p) ==
  LET rank == IF It.rank = "max" THEN proc[p].rank ELSE serial + 1
      row == [rank |-> rank, script |-> proc[p].todo, by |-> p]
  IN  /\ At(p, "write")
      /\ IF It.key = "none" /\ \E r \in rows : r.rank = rank
         THEN Fail(p, "rank") /\ Release(p) /\ UNCHANGED <<rows, serial>>
         ELSE /\ rows' = (rows \ Replaced(row)) \cup {row}
              /\ serial' = IF It.rank = "serial" THEN serial + 1 ELSE serial
              /\ Goto(p, IF p \in Baseliner THEN "done" ELSE "plan")
              /\ IF p \in Baseliner THEN Release(p) ELSE UNCHANGED lock
      /\ UNCHANGED <<dialect, schema, table, runs, faults>>

\* Mutant: the lock of a killed process stays.
DieHolding(p) ==
  /\ proc[p].pc \notin {"done", "failed", "dead"}
  /\ Cardinality({q \in Procs : At(q, "dead")}) < MaxDeaths
  /\ Goto(p, "dead")
  /\ UNCHANGED <<dialect, schema, table, rows, serial, lock, runs, faults>>

\* A process is killed; the server or the next waiter clears its lock.
Die(p) ==
  /\ proc[p].pc \notin {"done", "failed", "dead"}
  /\ Cardinality({q \in Procs : At(q, "dead")}) < MaxDeaths
  /\ Goto(p, "dead") /\ Release(p)
  /\ UNCHANGED <<dialect, schema, table, rows, serial, runs, faults>>

Step(p) ==
  \/ CheckSchema(p) \/ CreateSchema(p) \/ CheckTable(p) \/ CreateTable(p) \/ Acquire(p)
  \/ ReadHistory(p) \/ Execute(p) \/ ReadRank(p) \/ WriteRow(p)

Next == \E p \in Procs : Step(p) \/ ReadFails(p) \/ Die(p)

\* Processes run, and a waiting one gets a lock that is freed again and again.
Spec == Init /\ [][Next]_vars /\ \A p \in Procs : SF_vars(Step(p))

-----------------------------------------------------------------------------
(* Properties. *)

\* First runs that only race with each other all get past the creation: a lost race for
\* the schema and one for the table leave a third attempt.
RacesAreAbsorbed == \A p \in Procs : proc[p].why # "race"

\* No two rows have the same rank, and no insert is refused for its rank.
RanksUnique ==
  /\ \A r, s \in rows : r.rank = s.rank => r = s
  /\ \A p \in Procs : proc[p].why # "rank"

\* A failed read was taken for an empty history: Cosmos DB logs the error and goes on.
Blind == It.read # "raises" /\ faults > 0

\* A baseline is the first row of its history: what ran before it must not be hidden by it.
BaselineAlone ==
  \A r \in rows : r.script = Marker => \A s \in rows : s.rank >= r.rank

\* First runs that race for the schema and the history table all get past the creation, no
\* two rows have one rank and no insert is refused for its rank, and a baseline is the first
\* row of its history (unless the store took the history for empty).
HistoryAgrees == TypeOK /\ RacesAreAbsorbed /\ RanksUnique /\ (~Blind => BaselineAlone)

\* A new row has the highest rank: which of two rows of a version is the later one is
\* decided by it.
LatestRankIsHighest == \A r \in rows' \ rows : \A s \in rows : s.rank < r.rank

\* A write of one row never removes another, in the stores that replace documents too.
RowsKept == ~Blind => rows \subseteq rows'

\* A script that has a row is not executed again.
NoRerun == ~Blind => \A s \in Scripts : runs'[s] > runs[s] => s \notin Recorded

\* What the changelog says of a history that cannot be read: the command fails, instead
\* of taking it for empty (all but Cosmos DB).
UnreadableIsNotEmpty ==
  faults' > faults /\ It.read = "raises" => \A p \in Procs : proc'[p] # proc[p] => proc'[p].pc = "failed"

\* Rows come one after the other and stay, no script runs twice, and a history that cannot
\* be read is not an empty one.
RowsOnce == [][LatestRankIsHighest /\ RowsKept /\ NoRerun /\ UnreadableIsNotEmpty]_vars

\* Every process that lives comes to an end.
EveryProcessEnds == \A p \in Procs : <>(proc[p].pc \in {"done", "failed", "dead"})
=============================================================================
