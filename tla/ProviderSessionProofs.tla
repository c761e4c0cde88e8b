------------------------- MODULE ProviderSessionProofs -------------------------
(***************************************************************************)
(* Theorems about what a run of scripts is made of.  Of ProviderSession: a *)
(* migration's writes and its row become durable together, every unit      *)
(* starts in the configured schema and leaves no transaction of dblift's   *)
(* open, and reported work stays, for every sequence of units and          *)
(* failures, on either kind of connection.  Of ConfigResolution, for all   *)
(* sources: precedence, agreement of the entries, paths and references.    *)
(***************************************************************************)
EXTENDS ScriptRun, TLAPS

\* The writes of Python callbacks on a caller's connection are never noted, and an
\* autocommit migration rolls noted work back: what these units report may be lost.
SettledKinds == "autoMigration" \notin CallerKinds /\ "pyCallback" \notin CallerKinds

Points == {"idle", "prepare", "begin", "run", "record", "commit", "undo"}
Session ==
  [callers : BOOLEAN, open : BOOLEAN, broken : BOOLEAN, pending : SUBSET Tokens,
   durable : SUBSET Tokens, here : BOOLEAN, before : BOOLEAN, handle : BOOLEAN,
   noted : BOOLEAN, applied : BOOLEAN]
UnitState ==
  [kind : AllKinds \cup {"none"}, i : 0..MaxUnits, pc : Points, left : 0..2, own : BOOLEAN,
   where : {"unknown", "configured", "elsewhere"}, swallowed : BOOLEAN]
Typing == s \in Session /\ unit \in UnitState /\ told \in SUBSET Tokens

\* The migrations that have one transaction for their statements and their row.
Whole == {"sqlMigration", "pyMigration"}

\* What a connection can be.
Connection(x) ==
  /\ ~x.open => x.pending = {} /\ ~x.broken /\ ~x.handle /\ ~x.noted
  /\ x.noted => x.callers
  /\ ~x.callers /\ ~x.handle => x.pending = {}

\* Where the unit is, and whether dblift has a transaction there.
Point(x, u) ==
  /\ u.pc # "idle" => u.i \in Units /\ u.kind \in AllKinds \ {"caller"}
  /\ u.pc \in {"prepare", "begin", "run", "record", "commit"} => ~x.broken
  /\ u.pc = "prepare" => u.kind \in Whole /\ ~x.handle /\ u.left = 2
  /\ u.pc = "begin" => /\ u.kind \in {"sqlCallback", "history"} /\ ~x.handle
                       /\ u.left = IF u.kind = "history" THEN 0 ELSE 2
  /\ u.pc = "run" => /\ u.kind \in Scripts \cup {"clean", "mark"}
                     /\ u.kind = "mark" => u.left = 0
  /\ u.pc = "record" => u.kind \in Migrations \cup {"mark", "history"} /\ u.left = 0
  /\ u.pc \in {"run", "record"} => (x.handle <=> u.kind \in Whole \/ u.own)
  /\ u.pc = "commit" => (x.handle <=> u.kind \in Migrations \/ u.own) /\ u.left = 0
  /\ u.pc = "undo" => u.kind \in Migrations \/ u.own
  /\ u.pc = "idle" /\ x.handle => u.swallowed /\ x.broken
  /\ u.own /\ u.pc # "idle" => u.kind \in {"sqlCallback", "history"}

\* A script whose first statement is still to come is in the configured schema.
InPlace(x, u) ==
  /\ u.where # "elsewhere"
  /\ u.kind \in Scripts /\ (u.pc \in {"prepare", "begin"} \/ (u.pc = "run" /\ u.where = "unknown"))
       => x.here

\* The tokens of a unit, and those of its statements that ran.
Of(i, tokens) == {t \in tokens : t[1] = i}
StatementsOf(u) == {t \in Work(u.i) : t[2] > u.left}

\* How far the statements and the row of a migration are.
Progress(x, u) ==
  /\ \A t \in x.pending \cup x.durable : t[1] <= u.i
  /\ u.kind \in Whole /\ u.pc # "idle" => Of(u.i, x.durable) = {}
  /\ u.pc = "prepare" => Of(u.i, x.pending) = {}
  /\ u.kind \in Whole /\ u.pc \in {"run", "record"} => x.pending = StatementsOf(u)
  /\ u.kind \in Whole /\ u.pc = "commit" => x.pending = Work(u.i) \cup {Row(u.i)}
  /\ u.kind = "autoMigration" /\ u.pc \in {"run", "record", "commit"} => Of(u.i, x.durable) = StatementsOf(u)
  /\ u.kind = "autoMigration" /\ u.pc \in {"run", "record"} => Of(u.i, x.pending) = {}
  /\ u.kind = "autoMigration" /\ u.pc = "undo" => Row(u.i) \notin x.durable
  /\ u.kind \in Migrations /\ u.pc = "idle" => Of(u.i, x.pending) = {}

\* MigrationAllOrNothing of a connection and a unit.
AllOrNothing(x, u) ==
  u.i \in Units /\ u.kind \in Migrations =>
    /\ Row(u.i) \in x.durable => Work(u.i) \subseteq x.durable
    /\ u.kind # "autoMigration" /\ x.durable \cap Work(u.i) # {} => Row(u.i) \in x.durable

Fine(x, u) == Connection(x) /\ Point(x, u) /\ InPlace(x, u) /\ Progress(x, u) /\ AllOrNothing(x, u)
SessionInv == Typing /\ Fine(s, unit)

\* What the unit has written, in a transaction or for good.
Written(x, u) ==
  /\ u.kind \in Scripts \cup {"clean"} /\ u.pc \in {"run", "record"} =>
       StatementsOf(u) \subseteq x.durable \cup x.pending
  /\ u.pc = "commit" => Writes(u.kind, u.i) \subseteq x.durable \cup x.pending

\* What was reported is there, and on a caller's connection it is noted.
Kept(x, u, t) ==
  /\ t \subseteq x.durable \cup x.pending
  /\ \A w \in t : w[1] <= u.i /\ (u.pc # "idle" => w[1] < u.i)
  /\ x.callers /\ ~x.noted => t \cap x.pending \subseteq x.durable
  /\ x.handle /\ u.pc # "idle" => \A w \in x.pending : w[1] = u.i
  /\ x.callers /\ u.kind = "sqlCallback" /\ ~u.own /\ u.pc \in {"run", "commit"} => x.noted
  /\ u.kind = "autoMigration" => ~x.callers
  /\ u.kind = "pyCallback" /\ u.pc # "idle" => ~x.callers
  /\ u.pc = "undo" => \A w \in x.pending : w[1] = u.i

KeptInv == SessionInv /\ Written(s, unit) /\ Kept(s, unit, told)

-----------------------------------------------------------------------------
(* The operations of the connection. *)

\* The connection after an operation that leaves work and transactions as they are.
Like(x, y) ==
  /\ y \in Session /\ y.callers = x.callers /\ y.handle = x.handle /\ y.noted = x.noted
  /\ y.pending = x.pending /\ y.durable = x.durable

\* The connection between transactions.
Idle(x, y) ==
  /\ y \in Session /\ y.callers = x.callers /\ ~y.open /\ ~y.broken /\ ~y.handle /\ ~y.noted
  /\ y.pending = {}

\* Opening a transaction changes nothing else.
LEMMA OpenedIs ==
    ASSUME NEW x \in Session
    PROVE  /\ Like(x, Opened(x)) /\ Opened(x).open /\ Opened(x).broken = x.broken
           /\ Opened(x).here = x.here /\ Opened(x).applied = x.applied
BY DEF Opened, Like, Session

\* A transaction that ends keeps its work or loses it.
LEMMA EndedIs ==
    ASSUME NEW x \in Session, NEW kept \in BOOLEAN
    PROVE  /\ Idle(x, Ended(x, kept)) /\ Ended(x, kept).applied = x.applied
           /\ Ended(x, kept).durable = IF kept THEN x.durable \cup x.pending ELSE x.durable
           /\ kept \/ ~x.open \/ ~SetIsUndone => Ended(x, kept).here = x.here
<1> DEFINE e == Ended(x, kept)
           d == IF kept THEN x.durable \cup x.pending ELSE x.durable
           h == IF x.open /\ ~kept /\ SetIsUndone THEN x.before ELSE x.here
<1>1. e = [x EXCEPT !.open = FALSE, !.broken = FALSE, !.handle = FALSE, !.noted = FALSE,
                    !.pending = {}, !.durable = d, !.here = h]
    BY DEF Ended
<1>2. d \in SUBSET Tokens /\ h \in BOOLEAN /\ (kept \/ ~x.open \/ ~SetIsUndone => h = x.here)
    BY DEF Session
<1>3. d = IF kept THEN x.durable \cup x.pending ELSE x.durable
    OBVIOUS
<1> HIDE DEF e, d, h
<1>4. e \in Session
    BY <1>1, <1>2 DEF Session
<1>5. /\ e.callers = x.callers /\ ~e.open /\ ~e.broken /\ ~e.handle /\ ~e.noted /\ e.pending = {}
      /\ e.durable = d /\ e.here = h /\ e.applied = x.applied
    BY <1>1 DEF Session
<1> QED BY <1>2, <1>3, <1>4, <1>5 DEF Idle, e

\* A rollback loses the work, and the schema it set is known to be gone.
LEMMA RolledBackIs ==
    ASSUME NEW x \in Session
    PROVE  /\ Idle(x, RolledBack(x)) /\ RolledBack(x).durable = x.durable
           /\ x.here /\ RolledBack(x).applied => RolledBack(x).here
<1>1. /\ Idle(x, Ended(x, FALSE)) /\ Ended(x, FALSE).applied = x.applied
      /\ Ended(x, FALSE).durable = x.durable
      /\ ~x.open \/ ~SetIsUndone => Ended(x, FALSE).here = x.here
    BY EndedIs
<1> DEFINE e == Ended(x, FALSE)
<1>2. RolledBack(x) = [e EXCEPT !.applied = IF x.open /\ SetIsUndone THEN FALSE ELSE @]
    BY DEF RolledBack
<1> HIDE DEF e
<1> QED BY <1>1, <1>2 DEF Idle, Session, e

\* A statement outside a transaction of dblift's is durable at once on its own connection.
LEMMA ExecutedIs ==
    ASSUME NEW x \in Session, NEW w \in SUBSET Tokens
    PROVE  /\ Executed(x, w) \in Session /\ Executed(x, w).callers = x.callers
           /\ Executed(x, w).handle = x.handle /\ Executed(x, w).here = x.here
           /\ Executed(x, w).applied = x.applied
           /\ x.handle \/ x.callers =>
                /\ Executed(x, w).open /\ Executed(x, w).broken = x.broken
                /\ Executed(x, w).pending = x.pending \cup w
                /\ Executed(x, w).durable = x.durable /\ Executed(x, w).noted = x.noted
           /\ ~x.handle /\ ~x.callers =>
                /\ Idle(x, Executed(x, w)) /\ Executed(x, w).durable = x.durable \cup x.pending \cup w
<1> DEFINE o == Opened(x)
           d == [o EXCEPT !.pending = @ \cup w]
<1>1. /\ Like(x, o) /\ o.open /\ o.broken = x.broken /\ o.here = x.here /\ o.applied = x.applied
    BY OpenedIs
<1>2. Executed(x, w) = IF x.handle \/ x.callers THEN d ELSE Ended(d, TRUE)
    BY DEF Executed
<1> HIDE DEF o
<1>3. /\ d \in Session /\ d.callers = x.callers /\ d.handle = x.handle /\ d.noted = x.noted
      /\ d.pending = x.pending \cup w /\ d.durable = x.durable
      /\ d.open /\ d.broken = x.broken /\ d.here = x.here /\ d.applied = x.applied
    BY <1>1 DEF Like, Session
<1> HIDE DEF d
<1>4. /\ Idle(d, Ended(d, TRUE)) /\ Ended(d, TRUE).durable = d.durable \cup d.pending
      /\ Ended(d, TRUE).here = d.here /\ Ended(d, TRUE).applied = d.applied
    BY <1>3, EndedIs
<1>5. CASE x.handle \/ x.callers
    BY ONLY <1>2, <1>3, <1>5
<1>6. CASE ~x.handle /\ ~x.callers
  <2>1. Executed(x, w) = Ended(d, TRUE)
      BY ONLY <1>2, <1>6
  <2>2. Idle(d, Executed(x, w)) /\ Executed(x, w).handle = x.handle
      BY <1>4, <1>6, <2>1 DEF Idle, Session
  <2> QED BY ONLY <1>3, <1>4, <1>6, <2>1, <2>2 DEF Idle
<1> QED BY <1>5, <1>6

\* Selecting the schema leaves the work alone, and afterwards the session is in it.
LEMMA InSchemaIs ==
    ASSUME NEW x \in Session, ~x.broken, x.handle \/ x.callers \/ (x.pending = {} /\ ~x.noted)
    PROVE  /\ Like(x, InSchema(x)) /\ ~InSchema(x).broken
           /\ Connection(x) => Connection(InSchema(x))
           /\ (x.applied => x.here) => InSchema(x).here
<1>1. CASE x.applied
    BY <1>1 DEF InSchema, Like
<1>2. CASE ~x.applied
  <2> DEFINE o == Opened(x)
             d == [o EXCEPT !.here = TRUE, !.applied = TRUE]
  <2>1. Like(x, o) /\ o.open /\ o.broken = x.broken
      BY OpenedIs
  <2>2. InSchema(x) = Executed(d, {})
      BY <1>2 DEF InSchema
  <2> HIDE DEF o
  <2>3. Like(x, d) /\ d.open /\ ~d.broken /\ d.here
      BY <2>1 DEF Like, Session
  <2> HIDE DEF d
  <2>4. {} \in SUBSET Tokens
      OBVIOUS
  <2>5. /\ Executed(d, {}) \in Session /\ Executed(d, {}).callers = d.callers
        /\ Executed(d, {}).handle = d.handle /\ Executed(d, {}).here = d.here
        /\ d.handle \/ d.callers =>
                /\ Executed(d, {}).open /\ Executed(d, {}).broken = d.broken
                /\ Executed(d, {}).pending = d.pending \cup {}
                /\ Executed(d, {}).durable = d.durable /\ Executed(d, {}).noted = d.noted
        /\ ~d.handle /\ ~d.callers =>
                /\ Idle(d, Executed(d, {})) /\ Executed(d, {}).durable = d.durable \cup d.pending \cup {}
      BY Zenon, <2>3, <2>4, ExecutedIs DEF Like
  <2> QED BY <2>2, <2>3, <2>5 DEF Like, Idle, Connection
<1> QED BY <1>1, <1>2

\* A failed statement leaves the transaction as it is, for nothing but a rollback.
LEMMA BrokenIs ==
    ASSUME NEW x \in Session
    PROVE  Like(x, Broken(x)) /\ Broken(x).open /\ Broken(x).broken
<1> DEFINE o == Opened(x)
<1>1. Like(x, o) /\ o.open
    BY OpenedIs
<1>2. Broken(x) = [o EXCEPT !.broken = TRUE]
    BY DEF Broken
<1> HIDE DEF o
<1> QED BY <1>1, <1>2 DEF Like, Session

\* dblift's transaction begins.
LEMMA HandledIs ==
    ASSUME NEW x \in Session, NEW y, y = [Opened(x) EXCEPT !.handle = TRUE]
    PROVE  /\ y \in Session /\ y.callers = x.callers /\ y.handle /\ y.open /\ y.noted = x.noted
           /\ y.broken = x.broken /\ y.pending = x.pending /\ y.durable = x.durable
           /\ y.here = x.here /\ y.applied = x.applied
<1> DEFINE o == Opened(x)
<1>1. Like(x, o) /\ o.open /\ o.broken = x.broken /\ o.here = x.here /\ o.applied = x.applied
    BY OpenedIs
<1>2. y = [o EXCEPT !.handle = TRUE]
    OBVIOUS
<1> HIDE DEF o
<1> QED BY Zenon, <1>1, <1>2 DEF Like, Session

\* dblift commits its transaction, if it has one, and forgets the note.
LEMMA TransactionCommittedIs ==
    ASSUME NEW x \in Session
    PROVE  /\ x.handle => /\ Idle(x, TransactionCommitted(x))
                          /\ TransactionCommitted(x).durable = x.durable \cup x.pending
           /\ ~x.handle => TransactionCommitted(x) = [x EXCEPT !.noted = FALSE]
BY EndedIs DEF TransactionCommitted

\* A commit that fails loses the work.
LEMMA CommitLostIs ==
    ASSUME NEW x \in Session
    PROVE  /\ CommitLost(x) \in Session /\ CommitLost(x).callers = x.callers
           /\ CommitLost(x).handle = x.handle /\ CommitLost(x).open = x.open
           /\ CommitLost(x).broken /\ ~CommitLost(x).noted
           /\ CommitLost(x).pending = {} /\ CommitLost(x).durable = x.durable
BY DEF CommitLost, Session

\* Noting changes the note.
LEMMA NotedIs ==
    ASSUME NEW x \in Session
    PROVE  /\ Noted(x) \in Session /\ Noted(x).callers = x.callers /\ Noted(x).handle = x.handle
           /\ Noted(x).open = x.open /\ Noted(x).broken = x.broken /\ Noted(x).noted = x.open
           /\ Noted(x).pending = x.pending /\ Noted(x).durable = x.durable
           /\ Noted(x).here = x.here /\ Noted(x).applied = x.applied
BY DEF Noted, Session

\* What dblift noted in the caller's transaction is committed before the rollback that
\* gives a migration a clean start.
LEMMA SettledIs ==
    ASSUME NEW x \in Session, ~x.broken, NEW y,
           y = RolledBack(IF x.callers THEN CallerWorkCommitted(x) ELSE x)
    PROVE  /\ Idle(x, y) /\ x.durable \subseteq y.durable /\ y.durable \subseteq x.durable \cup x.pending
           /\ x.callers /\ x.noted => y.durable = x.durable \cup x.pending
           /\ x.here /\ y.applied => y.here
<1> DEFINE z == IF x.callers THEN CallerWorkCommitted(x) ELSE x
<1>1. /\ Idle(x, Ended(x, TRUE)) /\ Ended(x, TRUE).applied = x.applied
      /\ Ended(x, TRUE).durable = x.durable \cup x.pending /\ Ended(x, TRUE).here = x.here
    BY EndedIs
<1>2. /\ z \in Session /\ z.callers = x.callers /\ z.here = x.here /\ z.applied = x.applied
      /\ x.durable \subseteq z.durable /\ z.durable \subseteq x.durable \cup x.pending
      /\ x.callers /\ x.noted => z.durable = x.durable \cup x.pending
  <2>1. CASE x.callers /\ x.noted
    <3>1. z = Ended(x, TRUE)
        BY <2>1 DEF CallerWorkCommitted
    <3> HIDE DEF z
    <3> QED BY <1>1, <2>1, <3>1 DEF Idle
  <2>2. CASE ~(x.callers /\ x.noted)
    <3>1. z = x
        BY <2>2 DEF CallerWorkCommitted
    <3> HIDE DEF z
    <3> QED BY <2>2, <3>1
  <2> QED BY <2>1, <2>2
<1>3. y = RolledBack(z)
    OBVIOUS
<1> HIDE DEF z
<1>4. /\ Idle(z, y) /\ y.durable = z.durable
      /\ z.here /\ y.applied => y.here
    BY <1>2, <1>3, RolledBackIs
<1> QED BY <1>2, <1>4 DEF Idle

\* An autocommit statement is durable by itself; what was open is rolled back before it.
LEMMA AutocommittedIs ==
    ASSUME NEW x \in Session, NEW w \in SUBSET Tokens
    PROVE  /\ Idle(x, Autocommitted(x, w)) /\ Autocommitted(x, w).durable = x.durable \cup w
           /\ x.here => Autocommitted(x, w).here
<1> DEFINE r == RolledBack(x)
           h == [r EXCEPT !.handle = TRUE]
           o == InSchema(h)
           d == [o EXCEPT !.durable = @ \cup w, !.pending = {}, !.open = FALSE, !.handle = FALSE]
<1>1. Idle(x, r) /\ r.durable = x.durable /\ (x.here /\ r.applied => r.here)
    BY RolledBackIs
<1>2. Autocommitted(x, w) = [d EXCEPT !.applied = IF SetIsUndone THEN FALSE ELSE @]
    BY DEF Autocommitted
<1> HIDE DEF r
<1>3. /\ h \in Session /\ h.callers = x.callers /\ h.handle /\ ~h.broken /\ ~h.noted
      /\ h.pending = {} /\ h.durable = x.durable /\ h.here = r.here /\ h.applied = r.applied
    BY <1>1 DEF Idle, Session
<1> HIDE DEF h
<1>4. Like(h, o) /\ ~o.broken /\ ((h.applied => h.here) => o.here)
    BY <1>3, InSchemaIs
<1> HIDE DEF o
<1>5. /\ d \in Session /\ d.callers = x.callers /\ ~d.broken /\ ~d.noted /\ d.pending = {}
      /\ ~d.open /\ ~d.handle /\ d.durable = x.durable \cup w /\ d.here = o.here
    BY <1>3, <1>4 DEF Like, Session
<1> HIDE DEF d
<1> QED BY Zenon, <1>1, <1>2, <1>3, <1>4, <1>5 DEF Idle, Session

-----------------------------------------------------------------------------
(* The units. *)

\* The tokens of a unit.
LEMMA TokensAre ==
    ASSUME NEW i \in Nat
    PROVE  /\ \A t \in Work(i) : t[1] = i /\ t[2] \in {1, 2}
           /\ Row(i)[1] = i /\ Failure(i)[1] = i /\ Row(i) \notin Work(i)
           /\ Failure(i) \notin Work(i) /\ Failure(i) # Row(i)
           /\ i \in Units => Work(i) \in SUBSET Tokens /\ Row(i) \in Tokens /\ Failure(i) \in Tokens
BY DEF Work, Row, Failure, Tokens

\* The statements that ran, of a unit that has run none, one more, or all.
LEMMA StatementsAre ==
    ASSUME NEW u, u.i \in Nat
    PROVE  /\ u.left = 2 => StatementsOf(u) = {}
           /\ u.left = 0 => StatementsOf(u) = Work(u.i)
           /\ \A v : v.i = u.i /\ u.left \in 1..2 /\ v.left = u.left - 1 =>
                StatementsOf(v) = StatementsOf(u) \cup {<<u.i, u.left>>}
           /\ StatementsOf(u) \subseteq Work(u.i)
<1>1. u.left = 2 => StatementsOf(u) = {}
    BY DEF StatementsOf, Work
<1>2. u.left = 0 => StatementsOf(u) = Work(u.i)
    BY DEF StatementsOf, Work
<1>3. ASSUME NEW v, v.i = u.i, u.left \in 1..2, v.left = u.left - 1
      PROVE  StatementsOf(v) = StatementsOf(u) \cup {<<u.i, u.left>>}
  <2>1. CASE u.left = 1
      BY <1>3, <2>1 DEF StatementsOf, Work
  <2>2. CASE u.left = 2
      BY <1>3, <2>2 DEF StatementsOf, Work
  <2> QED BY <1>3, <2>1, <2>2
<1> QED BY <1>1, <1>2, <1>3 DEF StatementsOf

\* A unit goes to another place.
LEMMA GotoIs ==
    ASSUME Typing, NEW pc \in Points, unit' = [unit EXCEPT !.pc = pc]
    PROVE  /\ unit' \in UnitState /\ unit'.pc = pc /\ unit'.kind = unit.kind /\ unit'.i = unit.i
           /\ unit'.left = unit.left /\ unit'.own = unit.own /\ unit'.where = unit.where
           /\ unit'.swallowed = unit.swallowed
BY DEF Typing, UnitState

\* What Start does to the connection and the unit.
LEMMA Starting ==
    ASSUME SessionAssumption, SessionInv, NEW kind \in AllKinds \ {"caller"}, Start(kind)
    PROVE  /\ unit' \in UnitState /\ unit'.kind = kind /\ unit'.i = unit.i + 1 /\ unit'.i \in Units
           /\ unit'.left = (IF kind \in {"history", "mark"} THEN 0 ELSE 2) /\ ~unit'.own
           /\ unit'.where = "unknown" /\ unit'.swallowed = (unit.swallowed /\ s.broken)
           /\ unit'.pc = IF s.broken THEN "idle" ELSE IF kind \in Whole THEN "prepare"
                         ELSE IF kind \in {"sqlCallback", "history"} THEN "begin" ELSE "run"
           /\ Like(s, s') /\ Connection(s') /\ s'.broken = s.broken
           /\ ~s.broken => ~s.handle /\ (kind \in Scripts => s'.here)
           /\ kind \in Kinds /\ unit.pc = "idle" /\ told' = told
<1>1. /\ unit.pc = "idle" /\ unit.i < MaxUnits /\ kind \in Kinds /\ told' = told
      /\ unit' = [kind |-> kind, i |-> unit.i + 1, left |-> IF kind \in {"history", "mark"} THEN 0 ELSE 2,
              pc |-> IF s.broken THEN "idle"
                     ELSE IF kind \in {"sqlMigration", "pyMigration"} THEN "prepare"
                     ELSE IF kind \in {"sqlCallback", "history"} THEN "begin" ELSE "run",
              own |-> FALSE, where |-> "unknown", swallowed |-> unit.swallowed /\ s.broken]
    BY DEF Start, At
<1>2. /\ s \in Session /\ Connection(s) /\ unit \in UnitState /\ unit.i \in Nat /\ MaxUnits \in Nat
      /\ unit.i <= MaxUnits /\ unit.swallowed \in BOOLEAN /\ s.broken \in BOOLEAN
    BY DEF SessionInv, Typing, Fine, SessionAssumption, UnitState, Session
<1>3. unit.i + 1 \in Units /\ unit.i + 1 \in 0..MaxUnits
    BY <1>1, <1>2 DEF Units
<1>4. unit' \in UnitState
    BY <1>1, <1>2, <1>3 DEF UnitState, Points
<1>5. ~s.broken => ~s.handle
    BY <1>1 DEF SessionInv, Fine, Point
<1>6. /\ Like(s, s') /\ Connection(s') /\ s'.broken = s.broken
      /\ ~s.broken /\ kind \in Scripts => s'.here
  <2>1. CASE s.broken
    <3>1. s' = s
        BY <2>1 DEF Start
    <3> QED BY <1>2, <2>1, <3>1 DEF Like
  <2>2. CASE ~s.broken /\ kind \in Scripts
    <3> DEFINE x == [s EXCEPT !.applied = FALSE]
    <3>1. s' = InSchema(x)
        BY <2>2 DEF Start
    <3>2. Like(s, x) /\ ~x.applied /\ ~x.broken /\ Connection(x)
        BY <1>2, <2>2 DEF Like, Session, Connection
    <3> HIDE DEF x
    <3>3. /\ Like(x, InSchema(x)) /\ ~InSchema(x).broken /\ Connection(InSchema(x))
          /\ InSchema(x).here
      <4>1. x.handle \/ x.callers \/ (x.pending = {} /\ ~x.noted)
          BY <3>2 DEF Connection
      <4> QED BY <3>2, <4>1, InSchemaIs DEF Like
    <3> QED BY <1>2, <2>2, <3>1, <3>2, <3>3 DEF Like, Session
  <2>3. CASE ~s.broken /\ kind \notin Scripts
    <3>1. s' = Executed(s, {})
        BY <2>3 DEF Start
    <3>2. {} \in SUBSET Tokens
        OBVIOUS
    <3>3. CASE s.callers
      <4>1. /\ s' \in Session /\ s'.callers = s.callers /\ s'.handle = s.handle
            /\ s'.open /\ s'.broken = s.broken /\ s'.pending = s.pending \cup {}
            /\ s'.durable = s.durable /\ s'.noted = s.noted
          BY <1>2, <3>1, <3>2, <3>3, ExecutedIs
      <4> QED BY <1>2, <2>3, <3>3, <4>1 DEF Like, Connection
    <3>4. CASE ~s.callers
      <4>1. Idle(s, s') /\ s'.durable = s.durable \cup s.pending \cup {} /\ s'.handle = s.handle
          BY <1>2, <1>5, <2>3, <3>1, <3>2, <3>4, ExecutedIs
      <4>2. s.pending = {} /\ ~s.noted
          BY <1>2, <1>5, <2>3, <3>4 DEF Connection
      <4>3. s'.broken = s.broken /\ s'.noted = s.noted
          BY <1>2, <2>3, <4>1, <4>2 DEF Idle, Session
      <4> QED BY <1>2, <2>3, <3>4, <4>1, <4>2, <4>3 DEF Like, Idle, Connection
    <3> QED BY <3>3, <3>4
  <2> QED BY <2>1, <2>2, <2>3
<1> QED BY <1>1, <1>3, <1>4, <1>5, <1>6 DEF Whole

\* A unit of which nothing is durable is whole.
LEMMA NoneDurable ==
    ASSUME NEW x, NEW u, u.i \in Nat, Of(u.i, x.durable) = {}
    PROVE  AllOrNothing(x, u) /\ Row(u.i) \notin x.durable /\ x.durable \cap Work(u.i) = {}
<1>1. /\ \A t \in Work(u.i) : t[1] = u.i /\ t[2] \in {1, 2}
      /\ Row(u.i)[1] = u.i
    BY TokensAre
<1>2. Row(u.i) \notin x.durable /\ x.durable \cap Work(u.i) = {}
    BY <1>1 DEF Of
<1> QED BY <1>2 DEF AllOrNothing

\* A unit begins.
LEMMA StartKeeps ==
    ASSUME SessionAssumption, SessionInv, NEW kind \in AllKinds \ {"caller"}, Start(kind)
    PROVE  SessionInv'
<1> DEFINE x == s  y == s'  u == unit  v == unit'
<1>1. /\ v \in UnitState /\ v.kind = kind /\ v.i = u.i + 1 /\ v.i \in Units
      /\ v.left = (IF kind \in {"history", "mark"} THEN 0 ELSE 2) /\ ~v.own
      /\ v.where = "unknown" /\ v.swallowed = (u.swallowed /\ x.broken)
      /\ v.pc = IF x.broken THEN "idle" ELSE IF kind \in Whole THEN "prepare"
                         ELSE IF kind \in {"sqlCallback", "history"} THEN "begin" ELSE "run"
      /\ Like(x, y) /\ Connection(y) /\ y.broken = x.broken
      /\ ~x.broken => ~x.handle /\ (kind \in Scripts => y.here)
      /\ kind \in Kinds /\ u.pc = "idle" /\ told' = told
    BY Starting
<1>2. /\ x \in Session /\ u \in UnitState /\ u.i \in Nat /\ told \in SUBSET Tokens /\ v.i \in Nat
      /\ \A t \in x.pending \cup x.durable : t[1] <= u.i
      /\ x.handle => u.swallowed /\ x.broken
    BY <1>1 DEF SessionInv, Typing, Fine, Point, Progress, UnitState, Units
<1> HIDE DEF x, y, u, v
<1>3. /\ y \in Session /\ y.handle = x.handle /\ y.pending = x.pending /\ y.durable = x.durable
    BY <1>1 DEF Like
<1>4. Of(v.i, y.pending) = {} /\ Of(v.i, y.durable) = {}
  <2>1. \A t \in x.pending \cup x.durable : t[1] # u.i + 1
    <3>1. ASSUME NEW t \in x.pending \cup x.durable, t[1] = u.i + 1 PROVE FALSE
        BY <1>2, <3>1
    <3> QED BY <3>1
  <2> QED BY <1>1, <1>3, <2>1 DEF Of
<1>5. \A t \in y.pending \cup y.durable : t[1] <= v.i
  <2>1. ASSUME NEW t \in x.pending \cup x.durable PROVE t[1] <= u.i + 1
    <3>1. t[1] <= u.i /\ t[1] \in Nat
        BY <1>2, <2>1 DEF Session, Tokens, Units
    <3> QED BY <1>2, <3>1
  <2> QED BY <1>1, <1>3, <2>1
<1>6. v.left = 2 => StatementsOf(v) = {}
    BY <1>2, StatementsAre
<1>7. Point(y, v)
  <2>1. v.kind \in AllKinds \ {"caller"}
      BY <1>1
  <2>2. CASE x.broken
      BY <1>1, <1>2, <1>3, <2>1, <2>2 DEF Point
  <2>3. CASE ~x.broken
      BY <1>1, <1>2, <1>3, <2>1, <2>3 DEF Point, Whole, Scripts, Migrations, AllKinds
  <2> QED BY <2>2, <2>3
<1>8. InPlace(y, v)
    BY <1>1 DEF InPlace
<1>9. Progress(y, v)
    BY <1>1, <1>4, <1>5, <1>6 DEF Progress, Whole, Migrations
<1>10. AllOrNothing(y, v)
    BY <1>2, <1>4, NoneDurable
<1> QED BY <1>1, <1>2, <1>3, <1>7, <1>8, <1>9, <1>10 DEF SessionInv, Typing, Fine, v, y, u, x

\* What the invariant says of the unit and the connection before a step.
LEMMA Before ==
    ASSUME SessionAssumption, SessionInv
    PROVE  /\ s \in Session /\ unit \in UnitState /\ told \in SUBSET Tokens /\ unit.i \in Nat
           /\ Connection(s) /\ Point(s, unit) /\ InPlace(s, unit) /\ Progress(s, unit)
           /\ AllOrNothing(s, unit) /\ unit.i \in 0..MaxUnits /\ MaxUnits \in Nat
BY DEF SessionInv, Typing, Fine, UnitState, SessionAssumption

\* What Prepare does.
LEMMA Preparing ==
    ASSUME SessionAssumption, SessionInv, Prepare
    PROVE  /\ unit.pc = "prepare" /\ \E pc \in {"run", "idle"} : unit' = [unit EXCEPT !.pc = pc]
           /\ told' = told
           /\ s' \in Session /\ s'.callers = s.callers /\ ~s'.broken /\ s'.pending = {}
           /\ Connection(s') /\ (s'.handle <=> unit'.pc = "run")
           /\ s.durable \subseteq s'.durable /\ s'.durable \subseteq s.durable \cup s.pending
           /\ s.callers /\ s.noted => s'.durable = s.durable \cup s.pending
           /\ s.here /\ unit'.pc = "run" => s'.here
<1> DEFINE y == RolledBack(IF s.callers THEN CallerWorkCommitted(s) ELSE s)
           h == [Opened(y) EXCEPT !.handle = TRUE]
<1>1. unit.pc = "prepare" /\ s \in Session /\ ~s.broken /\ unit \in UnitState
    BY Before DEF Prepare, At, Point
<1>2. \/ s' = InSchema(h) /\ unit' = [unit EXCEPT !.pc = "run"] /\ told' = told
      \/ s' = y /\ unit' = [unit EXCEPT !.pc = "idle"] /\ told' = told
    BY DEF Prepare, Goto
<1>3. /\ Idle(s, y) /\ s.durable \subseteq y.durable /\ y.durable \subseteq s.durable \cup s.pending
      /\ s.callers /\ s.noted => y.durable = s.durable \cup s.pending
      /\ s.here /\ y.applied => y.here
    BY <1>1, SettledIs
<1> HIDE DEF y
<1>4. y \in Session
    BY <1>3 DEF Idle
<1>5. /\ h \in Session /\ h.callers = y.callers /\ h.handle /\ h.open /\ h.noted = y.noted
      /\ h.broken = y.broken /\ h.pending = y.pending /\ h.durable = y.durable
      /\ h.here = y.here /\ h.applied = y.applied
    BY <1>4, HandledIs
<1> HIDE DEF h
<1>6. CASE s' = InSchema(h) /\ unit' = [unit EXCEPT !.pc = "run"] /\ told' = told
  <2>1. /\ Like(h, s') /\ ~s'.broken /\ (Connection(h) => Connection(s'))
        /\ (h.applied => h.here) => s'.here
      BY <1>3, <1>5, <1>6, InSchemaIs DEF Idle
  <2>2. Connection(h)
      BY <1>3, <1>5 DEF Idle, Connection
  <2>3. unit'.pc = "run"
      BY <1>1, <1>6 DEF UnitState
  <2> QED BY <1>1, <1>3, <1>5, <1>6, <2>1, <2>2, <2>3 DEF Like, Idle
<1>7. CASE s' = y /\ unit' = [unit EXCEPT !.pc = "idle"] /\ told' = told
  <2>1. unit'.pc = "idle"
      BY <1>1, <1>7 DEF UnitState
  <2> QED BY <1>1, <1>3, <1>7, <2>1 DEF Idle, Connection
<1> QED BY <1>2, <1>6, <1>7

\* A migration begins its transaction, or cannot.
LEMMA PrepareKeeps ==
    ASSUME SessionAssumption, SessionInv, Prepare
    PROVE  SessionInv'
<1> DEFINE x == s  y == s'  u == unit  v == unit'
<1>1. /\ u.pc = "prepare" /\ told' = told
      /\ y \in Session /\ ~y.broken /\ y.pending = {} /\ Connection(y) /\ (y.handle <=> v.pc = "run")
      /\ x.durable \subseteq y.durable /\ y.durable \subseteq x.durable \cup x.pending
      /\ x.here /\ v.pc = "run" => y.here
    BY Preparing
<1>2. PICK pc \in {"run", "idle"} : v = [u EXCEPT !.pc = pc]
    BY Preparing
<1>3. /\ v \in UnitState /\ v.pc = pc /\ v.kind = u.kind /\ v.i = u.i /\ v.left = u.left
      /\ v.own = u.own /\ v.where = u.where /\ v.swallowed = u.swallowed
    BY <1>2, GotoIs DEF SessionInv, Points
<1>4. /\ told \in SUBSET Tokens /\ u.i \in Nat /\ Point(x, u) /\ InPlace(x, u) /\ Progress(x, u)
    BY Before
<1> HIDE DEF x, y, u, v
<1>5. /\ u.kind \in Whole /\ ~x.handle /\ u.left = 2 /\ ~u.own /\ u.i \in Units
      /\ u.kind \in AllKinds \ {"caller"}
    BY <1>1, <1>4 DEF Point, Whole
<1>6. /\ Of(u.i, x.durable) = {} /\ Of(u.i, x.pending) = {}
      /\ \A t \in x.pending \cup x.durable : t[1] <= u.i
    BY <1>1, <1>4, <1>5 DEF Progress
<1>7. Of(v.i, y.durable) = {} /\ Of(v.i, y.pending) = {}
    BY <1>1, <1>3, <1>6 DEF Of
<1>8. StatementsOf(v) = {}
    BY <1>3, <1>4, <1>5, StatementsAre
<1>9. Point(y, v)
    BY <1>1, <1>2, <1>3, <1>5 DEF Point, Whole, Scripts, Migrations
<1>10. InPlace(y, v)
    BY <1>1, <1>2, <1>3, <1>4 DEF InPlace
<1>11. Progress(y, v)
    BY <1>1, <1>2, <1>3, <1>5, <1>6, <1>7, <1>8 DEF Progress, Whole
<1>12. AllOrNothing(y, v)
    BY <1>3, <1>4, <1>7, NoneDurable
<1> QED BY <1>1, <1>3, <1>4, <1>9, <1>10, <1>11, <1>12 DEF SessionInv, Typing, Fine, v, y, u, x

\* What SettlingFails does.
LEMMA SettlingFailing ==
    ASSUME SessionAssumption, SessionInv, SettlingFails
    PROVE  /\ unit.pc = "prepare" /\ s.callers /\ told' = told \ s.pending
           /\ unit' = [unit EXCEPT !.pc = "idle"]
           /\ s' \in Session /\ s'.callers /\ s'.broken /\ s'.open /\ ~s'.noted /\ ~s'.handle
           /\ s'.pending = {} /\ s'.durable = s.durable
<1>1. /\ unit.pc = "prepare" /\ s \in Session /\ s.callers /\ s.noted /\ s' = CommitLost(s)
      /\ Connection(s) /\ Point(s, unit)
    BY Before DEF SettlingFails, At
<1>2. s.open /\ ~s.handle
    BY <1>1 DEF Connection, Point
<1>3. /\ CommitLost(s) \in Session /\ CommitLost(s).callers = s.callers
      /\ CommitLost(s).handle = s.handle /\ CommitLost(s).open = s.open
      /\ CommitLost(s).broken /\ ~CommitLost(s).noted
      /\ CommitLost(s).pending = {} /\ CommitLost(s).durable = s.durable
    BY <1>1, CommitLostIs
<1> QED BY <1>1, <1>2, <1>3 DEF SettlingFails

\* Noted work cannot be committed.
LEMMA SettlingFailsKeeps ==
    ASSUME SessionAssumption, SessionInv, SettlingFails
    PROVE  SessionInv'
<1> DEFINE x == s  y == s'  u == unit  v == unit'
<1>1. /\ u.pc = "prepare" /\ x.callers /\ told' = told \ x.pending
      /\ v = [u EXCEPT !.pc = "idle"]
      /\ y \in Session /\ y.callers /\ y.broken /\ y.open /\ ~y.noted /\ ~y.handle
      /\ y.pending = {} /\ y.durable = x.durable
    BY SettlingFailing
<1>2. /\ v \in UnitState /\ v.pc = "idle" /\ v.kind = u.kind /\ v.i = u.i /\ v.left = u.left
      /\ v.own = u.own /\ v.where = u.where /\ v.swallowed = u.swallowed
    BY <1>1, GotoIs DEF SessionInv, Points
<1>3. /\ told \in SUBSET Tokens /\ u.i \in Nat /\ Point(x, u) /\ InPlace(x, u) /\ Progress(x, u)
    BY Before
<1> HIDE DEF x, y, u, v
<1>4. u.kind \in Whole /\ Of(u.i, x.durable) = {}
    BY <1>1, <1>3 DEF Point, Progress
<1>5. Of(v.i, y.durable) = {} /\ Of(v.i, y.pending) = {}
    BY <1>1, <1>2, <1>4 DEF Of
<1>6. Connection(y) /\ Point(y, v)
    BY <1>1, <1>2 DEF Connection, Point
<1>7. InPlace(y, v)
    BY <1>2, <1>3 DEF InPlace
<1>8. Progress(y, v)
    BY <1>1, <1>2, <1>3, <1>5 DEF Progress
<1>9. AllOrNothing(y, v)
    BY <1>2, <1>3, <1>5, NoneDurable
<1> QED BY <1>1, <1>2, <1>3, <1>6, <1>7, <1>8, <1>9 DEF SessionInv, Typing, Fine, v, y, u, x

\* What Begin does.
LEMMA Beginning ==
    ASSUME SessionAssumption, SessionInv, Begin
    PROVE  /\ unit.pc = "begin" /\ told' = told
           /\ unit' \in UnitState /\ unit'.kind = unit.kind /\ unit'.i = unit.i
           /\ unit'.left = unit.left /\ unit'.where = unit.where /\ unit'.swallowed = unit.swallowed
           /\ unit'.own = ~s.open /\ unit'.pc = IF unit.kind = "history" THEN "record" ELSE "run"
           /\ s' \in Session /\ s'.callers = s.callers /\ ~s'.broken /\ s'.open
           /\ s'.pending = s.pending /\ s'.durable = s.durable /\ s'.here = s.here
           /\ (s'.handle <=> ~s.open) /\ (s'.noted => s'.callers)
           /\ s'.noted = (s.noted \/ (s.open /\ s.callers /\ unit.kind = "sqlCallback"))
<1>1. /\ unit.pc = "begin" /\ s \in Session /\ ~s.broken /\ ~s.handle /\ unit \in UnitState
      /\ told' = told /\ Connection(s)
      /\ unit' = [unit EXCEPT !.pc = IF unit.kind = "history" THEN "record" ELSE "run", !.own = ~s.open]
    BY Before DEF Begin, At, Point
<1>2. /\ unit' \in UnitState /\ unit'.kind = unit.kind /\ unit'.i = unit.i
      /\ unit'.left = unit.left /\ unit'.where = unit.where /\ unit'.swallowed = unit.swallowed
      /\ unit'.own = ~s.open /\ unit'.pc = IF unit.kind = "history" THEN "record" ELSE "run"
    BY <1>1 DEF UnitState, Session, Points
<1>3. CASE ~s.open
  <2>1. s' = [Opened(s) EXCEPT !.handle = TRUE]
      BY <1>3 DEF Begin
  <2>2. /\ s' \in Session /\ s'.callers = s.callers /\ s'.handle /\ s'.open /\ s'.noted = s.noted
        /\ s'.broken = s.broken /\ s'.pending = s.pending /\ s'.durable = s.durable
        /\ s'.here = s.here
      BY <1>1, <2>1, HandledIs
  <2> QED BY <1>1, <1>2, <1>3, <2>2 DEF Connection, Session
<1>4. CASE s.open /\ s.callers /\ unit.kind = "sqlCallback"
  <2>1. s' = Noted(s)
      BY <1>4 DEF Begin
  <2>2. /\ s' \in Session /\ s'.callers = s.callers /\ s'.handle = s.handle
        /\ s'.open = s.open /\ s'.broken = s.broken /\ s'.noted = s.open
        /\ s'.pending = s.pending /\ s'.durable = s.durable /\ s'.here = s.here
      BY <1>1, <2>1, NotedIs
  <2> QED BY <1>1, <1>2, <1>4, <2>2 DEF Session
<1>5. CASE s.open /\ ~(s.callers /\ unit.kind = "sqlCallback")
  <2>1. s' = s
      BY <1>5 DEF Begin
  <2> QED BY <1>1, <1>2, <1>5, <2>1 DEF Connection, Session
<1> QED BY <1>3, <1>4, <1>5

\* A callback or a history row begins.
LEMMA BeginKeeps ==
    ASSUME SessionAssumption, SessionInv, Begin
    PROVE  SessionInv'
<1> DEFINE x == s  y == s'  u == unit  v == unit'
<1>1. /\ u.pc = "begin" /\ told' = told
      /\ v \in UnitState /\ v.kind = u.kind /\ v.i = u.i
      /\ v.left = u.left /\ v.where = u.where /\ v.swallowed = u.swallowed
      /\ v.own = ~x.open /\ v.pc = IF u.kind = "history" THEN "record" ELSE "run"
      /\ y \in Session /\ y.callers = x.callers /\ ~y.broken /\ y.open
      /\ y.pending = x.pending /\ y.durable = x.durable /\ y.here = x.here
      /\ (y.handle <=> ~x.open) /\ (y.noted => y.callers)
    BY Beginning
<1>2. /\ told \in SUBSET Tokens /\ u.i \in Nat /\ Connection(x) /\ Point(x, u) /\ InPlace(x, u)
      /\ Progress(x, u)
    BY Before
<1> HIDE DEF x, y, u, v
<1>3. /\ u.kind \in {"sqlCallback", "history"} /\ ~x.handle /\ u.i \in Units /\ u.kind \in AllKinds \ {"caller"}
      /\ u.left = IF u.kind = "history" THEN 0 ELSE 2
    BY <1>1, <1>2 DEF Point
<1>4. Connection(y)
    BY <1>1, <1>2, <1>3 DEF Connection
<1>5. Point(y, v)
    BY <1>1, <1>3 DEF Point, Scripts, Whole, Migrations
<1>6. InPlace(y, v)
    BY <1>1, <1>2 DEF InPlace
<1>7. Progress(y, v) /\ AllOrNothing(y, v)
    BY <1>1, <1>2, <1>3 DEF Progress, AllOrNothing, Whole, Migrations
<1> QED BY <1>1, <1>2, <1>4, <1>5, <1>6, <1>7 DEF SessionInv, Typing, Fine, v, y, u, x

\* Where a statement's write goes.
Wrote(x, y, auto, w) ==
  /\ y \in Session /\ y.callers = x.callers /\ y.handle = x.handle /\ ~y.broken /\ Connection(y)
  /\ ~auto /\ (x.handle \/ x.callers) =>
       y.pending = x.pending \cup {w} /\ y.durable = x.durable /\ y.noted = x.noted
  /\ auto \/ (~x.handle /\ ~x.callers) =>
       y.pending = {} /\ y.durable = x.durable \cup {w} /\ ~y.noted

\* A statement of its own, or one in the session.
LEMMA Writing ==
    ASSUME NEW x \in Session, Connection(x), ~x.broken, NEW w \in Tokens
    PROVE  Wrote(x, Executed(x, {w}), FALSE, w) /\ Executed(x, {w}).here = x.here
<1> DEFINE y == Executed(x, {w})
<1>1. {w} \in SUBSET Tokens
    OBVIOUS
<1>2. y \in Session /\ y.callers = x.callers /\ y.handle = x.handle /\ y.here = x.here
    BY <1>1, ExecutedIs
<1>3. CASE x.handle \/ x.callers
  <2>1. /\ y.open /\ y.broken = x.broken /\ y.pending = x.pending \cup {w}
        /\ y.durable = x.durable /\ y.noted = x.noted
      BY <1>1, <1>3, ExecutedIs
  <2> HIDE DEF y
  <2>2. Connection(y)
      BY <1>2, <1>3, <2>1 DEF Connection
  <2> QED BY <1>2, <1>3, <2>1, <2>2 DEF Wrote, y
<1>4. CASE ~x.handle /\ ~x.callers
  <2>1. Idle(x, y) /\ y.durable = x.durable \cup x.pending \cup {w}
      BY <1>1, <1>4, ExecutedIs
  <2>2. x.pending = {}
      BY <1>4 DEF Connection
  <2> HIDE DEF y
  <2>3. Connection(y)
      BY <2>1 DEF Idle, Connection
  <2> QED BY <1>2, <1>4, <2>1, <2>2, <2>3 DEF Wrote, Idle, y
<1> QED BY <1>2, <1>3, <1>4

\* What Run does.
LEMMA Running ==
    ASSUME SessionAssumption, SessionInv, Run
    PROVE  /\ unit.pc = "run" /\ unit.left \in 1..2 /\ told' = told
           /\ unit.kind \in Scripts \cup {"clean"} /\ unit.i \in Units
           /\ unit' \in UnitState /\ unit'.kind = unit.kind /\ unit'.i = unit.i /\ unit'.pc = "run"
           /\ unit'.left = unit.left - 1 /\ unit'.own = unit.own /\ unit'.swallowed = unit.swallowed
           /\ unit'.where # "elsewhere" /\ (unit.kind \in Scripts => unit'.where # "unknown")
           /\ Wrote(s, s', unit.kind = "autoMigration", <<unit.i, unit.left>>)
<1> DEFINE w == <<unit.i, unit.left>>
           auto == unit.kind = "autoMigration"
           ready == IF unit.kind \in {"sqlMigration", "sqlCallback"} THEN InSchema(s) ELSE s
           ran == IF auto THEN Autocommitted(s, {w}) ELSE Executed(ready, {w})
           place == IF auto THEN ran.here ELSE ready.here
<1>1. /\ unit.pc = "run" /\ unit.left > 0 /\ s \in Session /\ ~s.broken /\ unit \in UnitState
      /\ told' = told /\ Connection(s) /\ Point(s, unit) /\ InPlace(s, unit)
    BY Before DEF Run, At
<1>2. PICK moves \in BOOLEAN :
        /\ s' = [ran EXCEPT !.here = @ /\ ~moves]
        /\ unit' = [unit EXCEPT !.left = @ - 1,
                                !.where = IF @ # "unknown" \/ unit.kind = "clean" THEN @
                                          ELSE IF place THEN "configured" ELSE "elsewhere"]
    BY <1>1 DEF Run
<1>3. /\ unit.left \in 1..2 /\ unit.kind \in Scripts \cup {"clean"} /\ unit.i \in Units
      /\ (s.handle <=> unit.kind \in Whole \/ unit.own)
      /\ unit.own => unit.kind \in {"sqlCallback", "history"}
    BY <1>1 DEF Point, UnitState
<1>4. w \in Tokens /\ {w} \in SUBSET Tokens
    BY <1>3 DEF Tokens
<1>5. Like(s, ready) /\ ~ready.broken /\ Connection(ready) /\ (s.here => ready.here)
  <2>1. s.handle \/ s.callers \/ (s.pending = {} /\ ~s.noted)
      BY <1>1 DEF Connection
  <2>2. Like(s, s)
      BY <1>1 DEF Like
  <2> QED BY <1>1, <2>1, <2>2, InSchemaIs
<1> HIDE DEF ready
<1>6. Wrote(s, ran, auto, w) /\ (s.here => place) /\ ran.here \in BOOLEAN /\ ran \in Session
  <2>1. CASE auto
    <3>1. Idle(s, ran) /\ ran.durable = s.durable \cup {w} /\ (s.here => ran.here)
        BY <1>1, <1>4, <2>1, AutocommittedIs
    <3>2. ~s.handle
        BY <1>3, <2>1 DEF Whole
    <3> HIDE DEF ran
    <3>3. Connection(ran) /\ ran \in Session /\ ran.handle = s.handle /\ ran.here \in BOOLEAN
        BY <1>1, <3>1, <3>2 DEF Idle, Connection, Session
    <3> QED BY <2>1, <3>1, <3>2, <3>3 DEF Wrote, Idle
  <2>2. CASE ~auto
    <3>1. Wrote(ready, ran, FALSE, w) /\ ran.here = ready.here
        BY <1>4, <1>5, <2>2, Writing DEF Like
    <3> HIDE DEF ran
    <3>2. Wrote(s, ran, FALSE, w) /\ ran \in Session
        BY <1>5, <3>1 DEF Wrote, Like
    <3> QED BY <1>5, <2>2, <3>1, <3>2 DEF Session, Like
  <2> QED BY <2>1, <2>2
<1> HIDE DEF ran, place, auto, w
<1>7. Wrote(s, s', auto, w)
  <2>1. /\ s' \in Session /\ s'.callers = ran.callers /\ s'.handle = ran.handle
        /\ s'.broken = ran.broken /\ s'.open = ran.open /\ s'.noted = ran.noted
        /\ s'.pending = ran.pending /\ s'.durable = ran.durable
      BY <1>2, <1>6 DEF Session
  <2>2. Connection(ran)
      BY <1>6 DEF Wrote
  <2>3. Connection(s')
      BY ONLY <2>1, <2>2 DEF Connection
  <2> QED BY ONLY <1>6, <2>1, <2>3 DEF Wrote
<1>8. /\ unit' \in UnitState /\ unit'.kind = unit.kind /\ unit'.i = unit.i /\ unit'.pc = "run"
      /\ unit'.left = unit.left - 1 /\ unit'.own = unit.own /\ unit'.swallowed = unit.swallowed
      /\ unit'.where = IF unit.where # "unknown" \/ unit.kind = "clean" THEN unit.where
                       ELSE IF place THEN "configured" ELSE "elsewhere"
  <2> DEFINE wh == IF unit.where # "unknown" \/ unit.kind = "clean" THEN unit.where
                   ELSE IF place THEN "configured" ELSE "elsewhere"
  <2>1. unit' = [unit EXCEPT !.left = unit.left - 1, !.where = wh]
      BY <1>2
  <2>2. wh \in {"unknown", "configured", "elsewhere"}
      BY <1>1 DEF UnitState
  <2>3. unit.left - 1 \in 0..2
      BY <1>3
  <2> HIDE DEF wh
  <2>4. /\ unit' \in UnitState /\ unit'.kind = unit.kind /\ unit'.i = unit.i /\ unit'.pc = "run"
        /\ unit'.left = unit.left - 1 /\ unit'.own = unit.own /\ unit'.swallowed = unit.swallowed
        /\ unit'.where = wh
      BY <1>1, <2>1, <2>2, <2>3 DEF UnitState
  <2> QED BY <2>4 DEF wh
<1>9. unit'.where # "elsewhere" /\ (unit.kind \in Scripts => unit'.where # "unknown")
    BY <1>1, <1>3, <1>6, <1>8 DEF InPlace, Scripts, Migrations
<1> QED BY <1>1, <1>3, <1>7, <1>8, <1>9 DEF auto, w

\* A unit whose durable writes are statements of its own has no durable row.
LEMMA NoRowYet ==
    ASSUME NEW x, NEW u, u.i \in Nat, u.kind = "autoMigration", Of(u.i, x.durable) = StatementsOf(u)
    PROVE  AllOrNothing(x, u) /\ Row(u.i) \notin x.durable
<1>1. Row(u.i) \notin Work(u.i) /\ Row(u.i)[1] = u.i
    BY TokensAre
<1>2. Row(u.i) \notin Of(u.i, x.durable)
    BY <1>1 DEF StatementsOf
<1>3. Row(u.i) \notin x.durable
    BY <1>1, <1>2 DEF Of
<1> QED BY <1>3 DEF AllOrNothing

\* A statement runs.
LEMMA RunKeeps ==
    ASSUME SessionAssumption, SessionInv, Run
    PROVE  SessionInv'
<1> DEFINE x == s  y == s'  u == unit  v == unit'  w == <<unit.i, unit.left>>
<1>1. /\ u.pc = "run" /\ u.left \in 1..2 /\ told' = told
      /\ u.kind \in Scripts \cup {"clean"} /\ u.i \in Units
      /\ v \in UnitState /\ v.kind = u.kind /\ v.i = u.i /\ v.pc = "run"
      /\ v.left = u.left - 1 /\ v.own = u.own /\ v.swallowed = u.swallowed
      /\ v.where # "elsewhere" /\ (u.kind \in Scripts => v.where # "unknown")
      /\ Wrote(x, y, u.kind = "autoMigration", w)
    BY Running
<1>2. /\ told \in SUBSET Tokens /\ u.i \in Nat /\ Connection(x) /\ Point(x, u) /\ Progress(x, u)
    BY Before
<1>3. w = <<u.i, u.left>> /\ w[1] = u.i
    OBVIOUS
<1> HIDE DEF x, y, u, v, w
<1>4. /\ (x.handle <=> u.kind \in Whole \/ u.own) /\ u.kind \in AllKinds \ {"caller"}
      /\ u.own => u.kind \in {"sqlCallback", "history"}
    BY <1>1, <1>2 DEF Point
<1>5. /\ y \in Session /\ y.callers = x.callers /\ y.handle = x.handle /\ ~y.broken /\ Connection(y)
      /\ y.pending \cup y.durable \subseteq x.pending \cup x.durable \cup {w}
    BY <1>1 DEF Wrote
<1>6. StatementsOf(v) = StatementsOf(u) \cup {w}
    BY <1>1, <1>2, <1>3, StatementsAre
<1>7. Point(y, v)
    BY <1>1, <1>4, <1>5 DEF Point, Scripts, Migrations
<1>8. InPlace(y, v)
    BY <1>1 DEF InPlace
<1>9. \A t \in y.pending \cup y.durable : t[1] <= v.i
    BY <1>1, <1>2, <1>3, <1>5 DEF Progress
<1>10. CASE u.kind \in Whole
  <2>1. x.pending = StatementsOf(u) /\ Of(u.i, x.durable) = {}
      BY <1>1, <1>2, <1>10 DEF Progress
  <2>2. y.pending = x.pending \cup {w} /\ y.durable = x.durable
      BY <1>1, <1>4, <1>10 DEF Wrote, Whole
  <2>3. Progress(y, v)
      BY <1>1, <1>6, <1>9, <1>10, <2>1, <2>2 DEF Progress, Whole
  <2>4. AllOrNothing(y, v)
      BY <1>1, <1>2, <2>1, <2>2, NoneDurable
  <2> QED BY <1>1, <1>2, <1>5, <1>7, <1>8, <2>3, <2>4 DEF SessionInv, Typing, Fine, v, y, u, x
<1>11. CASE u.kind = "autoMigration"
  <2>1. Of(u.i, x.durable) = StatementsOf(u)
      BY <1>1, <1>2, <1>11 DEF Progress
  <2>2. y.pending = {} /\ y.durable = x.durable \cup {w}
      BY <1>1, <1>11 DEF Wrote
  <2>3. Of(v.i, y.durable) = StatementsOf(v) /\ Of(v.i, y.pending) = {}
      BY <1>1, <1>3, <1>6, <2>1, <2>2 DEF Of
  <2>4. Progress(y, v)
      BY <1>1, <1>9, <1>11, <2>3 DEF Progress, Whole
  <2>5. AllOrNothing(y, v)
      BY <1>1, <1>2, <1>11, <2>3, NoRowYet
  <2> QED BY <1>1, <1>2, <1>5, <1>7, <1>8, <2>4, <2>5 DEF SessionInv, Typing, Fine, v, y, u, x
<1>12. CASE u.kind \notin Migrations
  <2>1. Progress(y, v) /\ AllOrNothing(y, v)
      BY <1>1, <1>9, <1>12 DEF Progress, AllOrNothing, Whole, Migrations
  <2> QED BY <1>1, <1>2, <1>5, <1>7, <1>8, <2>1 DEF SessionInv, Typing, Fine, v, y, u, x
<1> QED BY <1>10, <1>11, <1>12 DEF Whole, Migrations

\* What StatementFails does.
LEMMA Failing ==
    ASSUME SessionAssumption, SessionInv, StatementFails
    PROVE  /\ unit.pc = "run" /\ unit.kind \in Scripts /\ unit.left > 0 /\ told' = told
           /\ unit' = [unit EXCEPT !.pc = IF unit.kind \in Migrations \/ unit.own THEN "undo" ELSE "idle"]
           /\ s' \in Session /\ s'.callers = s.callers /\ Connection(s') /\ s'.durable = s.durable
           /\ unit.kind # "autoMigration" =>
                s'.broken /\ s'.pending = s.pending /\ s'.handle = s.handle /\ s'.noted = s.noted
           /\ unit.kind = "autoMigration" => s'.pending = {} /\ ~s'.handle
<1>1. /\ unit.pc = "run" /\ unit.left > 0 /\ unit.kind # "clean" /\ s \in Session /\ Connection(s)
      /\ unit.kind \in Scripts
    BY Before DEF StatementFails, At, Point
<1>2. /\ told' = told
      /\ unit' = [unit EXCEPT !.pc = IF unit.kind \in Migrations \/ unit.own THEN "undo" ELSE "idle"]
    BY DEF StatementFails, Goto
<1>3. CASE unit.kind = "autoMigration"
  <2>1. s' = RolledBack(s)
      BY <1>3 DEF StatementFails
  <2>2. Idle(s, s') /\ s'.durable = s.durable
      BY <1>1, <2>1, RolledBackIs
  <2> QED BY <1>1, <1>2, <1>3, <2>2 DEF Idle, Connection
<1>4. CASE unit.kind # "autoMigration"
  <2>1. s' = Broken(s)
      BY <1>4 DEF StatementFails
  <2>2. Like(s, s') /\ s'.open /\ s'.broken
      BY <1>1, <2>1, BrokenIs
  <2> QED BY <1>1, <1>2, <1>4, <2>2 DEF Like, Connection
<1> QED BY <1>3, <1>4

\* A statement fails.
LEMMA StatementFailsKeeps ==
    ASSUME SessionAssumption, SessionInv, StatementFails
    PROVE  SessionInv'
<1> DEFINE x == s  y == s'  u == unit  v == unit'
           pc == IF unit.kind \in Migrations \/ unit.own THEN "undo" ELSE "idle"
<1>1. /\ u.pc = "run" /\ u.kind \in Scripts /\ told' = told /\ v = [u EXCEPT !.pc = pc]
      /\ y \in Session /\ Connection(y) /\ y.durable = x.durable
      /\ u.kind # "autoMigration" => y.pending = x.pending /\ y.handle = x.handle
      /\ u.kind = "autoMigration" => y.pending = {}
    BY Failing
<1>2. /\ v \in UnitState /\ v.pc = pc /\ v.kind = u.kind /\ v.i = u.i /\ v.left = u.left
      /\ v.own = u.own /\ v.where = u.where /\ v.swallowed = u.swallowed
    BY <1>1, GotoIs DEF SessionInv, Points
<1>3. /\ told \in SUBSET Tokens /\ u.i \in Nat /\ Point(x, u) /\ InPlace(x, u) /\ Progress(x, u)
      /\ AllOrNothing(x, u)
    BY Before
<1>4. pc \in {"undo", "idle"} /\ (pc = "undo" <=> u.kind \in Migrations \/ u.own)
    OBVIOUS
<1> HIDE DEF x, y, u, v, pc
<1>5. /\ (x.handle <=> u.kind \in Whole \/ u.own) /\ u.i \in Units /\ u.kind \in AllKinds \ {"caller"}
      /\ u.own => u.kind \in {"sqlCallback", "history"}
    BY <1>1, <1>3 DEF Point
<1>6. Point(y, v)
    BY <1>1, <1>2, <1>4, <1>5 DEF Point, Whole, Migrations
<1>7. InPlace(y, v)
    BY <1>1, <1>2, <1>3, <1>4 DEF InPlace
<1>8. \A t \in y.pending \cup y.durable : t[1] <= v.i
    BY <1>1, <1>2, <1>3 DEF Progress
<1>9. u.kind = "autoMigration" => Row(u.i) \notin x.durable
  <2> SUFFICES ASSUME u.kind = "autoMigration" PROVE Row(u.i) \notin x.durable
      OBVIOUS
  <2>1. Of(u.i, x.durable) = StatementsOf(u)
      BY <1>1, <1>3 DEF Progress
  <2> QED BY <1>3, <2>1, NoRowYet
<1>10. Progress(y, v)
    BY <1>1, <1>2, <1>3, <1>4, <1>8, <1>9 DEF Progress, Whole, Migrations
<1>11. AllOrNothing(y, v)
    BY <1>1, <1>2, <1>3 DEF AllOrNothing
<1> QED BY <1>1, <1>2, <1>3, <1>6, <1>7, <1>10, <1>11 DEF SessionInv, Typing, Fine, v, y, u, x

\* The last statement of a unit ran.
LEMMA RanKeeps ==
    ASSUME SessionAssumption, SessionInv, Ran
    PROVE  SessionInv'
<1> DEFINE x == s  u == unit  v == unit'
           pc == IF unit.kind \in Migrations \cup {"mark"} THEN "record" ELSE "commit"
<1>1. u.pc = "run" /\ u.left = 0 /\ s' = x /\ told' = told /\ v = [u EXCEPT !.pc = pc]
    BY DEF Ran, At, Goto
<1>2. /\ v \in UnitState /\ v.pc = pc /\ v.kind = u.kind /\ v.i = u.i /\ v.left = u.left
      /\ v.own = u.own /\ v.where = u.where /\ v.swallowed = u.swallowed
    BY <1>1, GotoIs DEF SessionInv, Points
<1>3. /\ told \in SUBSET Tokens /\ u.i \in Nat /\ Point(x, u) /\ InPlace(x, u) /\ Progress(x, u)
      /\ AllOrNothing(x, u) /\ x \in Session /\ Connection(x)
    BY Before
<1>4. pc \in {"record", "commit"} /\ (pc = "record" <=> u.kind \in Migrations \cup {"mark"})
    OBVIOUS
<1> HIDE DEF x, u, v, pc
<1>5. Point(x, v)
    BY <1>1, <1>2, <1>3, <1>4 DEF Point, Whole, Migrations
<1>6. InPlace(x, v)
    BY <1>2, <1>3, <1>4 DEF InPlace
<1>7. StatementsOf(v) = StatementsOf(u)
    BY <1>2 DEF StatementsOf
<1>8. Progress(x, v)
    BY <1>1, <1>2, <1>3, <1>4, <1>7 DEF Progress, Whole, Migrations
<1>9. AllOrNothing(x, v)
    BY <1>2, <1>3 DEF AllOrNothing
<1> QED BY <1>1, <1>2, <1>3, <1>5, <1>6, <1>8, <1>9 DEF SessionInv, Typing, Fine, v, u, x

\* What Record does: the row is written, or the statement that writes it fails.
LEMMA Recording ==
    ASSUME SessionAssumption, SessionInv, Record
    PROVE  /\ unit.pc = "record" /\ told' = told /\ unit.i \in Units
           /\ s' \in Session /\ s'.callers = s.callers /\ Connection(s')
           /\ (s'.handle <=> s.handle \/ unit.kind = "autoMigration")
           /\ \/ /\ unit' = [unit EXCEPT !.pc = "commit"] /\ ~s'.broken
                 /\ s'.handle \/ s'.callers =>
                      /\ s'.pending = s.pending \cup {Row(unit.i)} /\ s'.durable = s.durable
                      /\ s'.noted = s.noted
                 /\ ~s'.handle /\ ~s'.callers =>
                      s'.pending = {} /\ s'.durable = s.durable \cup {Row(unit.i)}
              \/ /\ unit' = [unit EXCEPT !.pc = IF unit.kind \in Migrations \/ unit.own THEN "undo" ELSE "idle"]
                 /\ s'.pending = s.pending /\ s'.durable = s.durable /\ s'.noted = s.noted
<1> DEFINE o == IF unit.kind = "autoMigration" THEN [Opened(s) EXCEPT !.handle = TRUE] ELSE s
<1>1. /\ unit.pc = "record" /\ s \in Session /\ Connection(s) /\ ~s.broken /\ unit.i \in Units
    BY Before DEF Record, At, Point
<1>2. \/ s' = Executed(o, {Row(unit.i)}) /\ unit' = [unit EXCEPT !.pc = "commit"] /\ told' = told
      \/ /\ s' = Broken(o) /\ told' = told
         /\ unit' = [unit EXCEPT !.pc = IF unit.kind \in Migrations \/ unit.own THEN "undo" ELSE "idle"]
    BY DEF Record, Goto
<1>3. /\ o \in Session /\ o.callers = s.callers /\ (o.handle <=> s.handle \/ unit.kind = "autoMigration")
      /\ ~o.broken /\ o.pending = s.pending /\ o.durable = s.durable /\ o.noted = s.noted
      /\ Connection(o)
  <2>1. CASE unit.kind = "autoMigration"
    <3>1. /\ o \in Session /\ o.callers = s.callers /\ o.handle /\ o.open /\ o.noted = s.noted
          /\ o.broken = s.broken /\ o.pending = s.pending /\ o.durable = s.durable
        BY <1>1, <2>1, HandledIs
    <3> HIDE DEF o
    <3> QED BY <1>1, <2>1, <3>1 DEF Connection
  <2>2. CASE unit.kind # "autoMigration"
    <3>1. o = s
        BY <2>2
    <3> HIDE DEF o
    <3> QED BY <1>1, <2>2, <3>1
  <2> QED BY <2>1, <2>2
<1> HIDE DEF o
<1>4. Row(unit.i) \in Tokens
    BY <1>1, TokensAre DEF Units
<1>5. CASE s' = Executed(o, {Row(unit.i)}) /\ unit' = [unit EXCEPT !.pc = "commit"] /\ told' = told
  <2>1. Wrote(o, s', FALSE, Row(unit.i))
      BY <1>3, <1>4, <1>5, Writing
  <2> QED BY <1>1, <1>3, <1>5, <2>1 DEF Wrote
<1>6. CASE /\ s' = Broken(o) /\ told' = told
           /\ unit' = [unit EXCEPT !.pc = IF unit.kind \in Migrations \/ unit.own THEN "undo" ELSE "idle"]
  <2>1. Like(o, s') /\ s'.open /\ s'.broken
      BY <1>3, <1>6, BrokenIs
  <2>2. Connection(s')
      BY <1>3, <2>1 DEF Like, Connection
  <2> QED BY <1>1, <1>3, <1>6, <2>1, <2>2 DEF Like
<1> QED BY <1>2, <1>5, <1>6

\* The row of a success is written.
LEMMA RecordKeeps ==
    ASSUME SessionAssumption, SessionInv, Record
    PROVE  SessionInv'
<1> DEFINE x == s  y == s'  u == unit  v == unit'
<1>1. /\ u.pc = "record" /\ told' = told /\ u.i \in Units
      /\ y \in Session /\ y.callers = x.callers /\ Connection(y)
      /\ (y.handle <=> x.handle \/ u.kind = "autoMigration")
    BY Recording
<1>2. /\ told \in SUBSET Tokens /\ u.i \in Nat /\ Point(x, u) /\ InPlace(x, u) /\ Progress(x, u)
      /\ AllOrNothing(x, u)
    BY Before
<1>3. PICK pc \in {"commit", "undo", "idle"} :
        /\ v = [u EXCEPT !.pc = pc]
        /\ pc = "commit" =>
             /\ ~y.broken
             /\ y.handle \/ y.callers => y.pending = x.pending \cup {Row(u.i)} /\ y.durable = x.durable
             /\ ~y.handle /\ ~y.callers => y.pending = {} /\ y.durable = x.durable \cup {Row(u.i)}
        /\ pc # "commit" =>
             /\ pc = "undo" <=> u.kind \in Migrations \/ u.own
             /\ y.pending = x.pending /\ y.durable = x.durable
    BY Recording
<1>4. /\ v \in UnitState /\ v.pc = pc /\ v.kind = u.kind /\ v.i = u.i /\ v.left = u.left
      /\ v.own = u.own /\ v.where = u.where /\ v.swallowed = u.swallowed
    BY <1>3, GotoIs DEF SessionInv, Points
<1> HIDE DEF x, y, u, v
<1>5. /\ (x.handle <=> u.kind \in Whole \/ u.own) /\ u.i \in Units /\ u.left = 0 /\ u.kind \in AllKinds \ {"caller"}
      /\ u.own => u.kind \in {"sqlCallback", "history"}
    BY <1>1, <1>2 DEF Point
<1>6. Row(u.i)[1] = u.i
    BY <1>2, TokensAre
<1>7. Point(y, v)
    BY <1>1, <1>3, <1>4, <1>5 DEF Point, Whole, Migrations
<1>8. InPlace(y, v)
    BY <1>2, <1>3, <1>4 DEF InPlace
<1>9. \A t \in y.pending \cup y.durable : t[1] <= v.i
  <2>1. y.pending \cup y.durable \subseteq x.pending \cup x.durable \cup {Row(u.i)}
      BY <1>1, <1>3
  <2> QED BY <1>2, <1>4, <1>6, <2>1 DEF Progress
<1>10. StatementsOf(u) = Work(u.i) /\ StatementsOf(v) = StatementsOf(u)
    BY <1>2, <1>4, <1>5, StatementsAre DEF StatementsOf
<1>11. CASE u.kind \in Whole
  <2>1. x.pending = Work(u.i) /\ Of(u.i, x.durable) = {} /\ y.durable = x.durable
      BY <1>1, <1>2, <1>3, <1>5, <1>10, <1>11 DEF Progress
  <2>2. pc = "commit" => y.pending = Work(u.i) \cup {Row(u.i)}
      BY <1>1, <1>3, <1>5, <1>11, <2>1
  <2>3. pc # "idle"
      BY <1>3, <1>11 DEF Whole, Migrations
  <2>4. Progress(y, v)
      BY <1>1, <1>3, <1>4, <1>9, <1>11, <2>1, <2>2, <2>3 DEF Progress, Whole
  <2>5. AllOrNothing(y, v)
      BY <1>2, <1>4, <2>1, NoneDurable
  <2> QED BY <1>1, <1>2, <1>4, <1>7, <1>8, <2>4, <2>5 DEF SessionInv, Typing, Fine, v, y, u, x
<1>12. CASE u.kind = "autoMigration"
  <2>1. Of(u.i, x.durable) = StatementsOf(u) /\ y.durable = x.durable
      BY <1>1, <1>2, <1>3, <1>12 DEF Progress
  <2>2. pc # "idle"
      BY <1>3, <1>12 DEF Migrations
  <2>3. AllOrNothing(y, v) /\ Row(u.i) \notin y.durable
      BY <1>2, <1>4, <1>10, <1>12, <2>1, NoRowYet
  <2>4. Progress(y, v)
      BY <1>3, <1>4, <1>9, <1>10, <1>12, <2>1, <2>2, <2>3 DEF Progress, Whole
  <2> QED BY <1>1, <1>2, <1>4, <1>7, <1>8, <2>3, <2>4 DEF SessionInv, Typing, Fine, v, y, u, x
<1>13. CASE u.kind \notin Migrations
  <2>1. Progress(y, v) /\ AllOrNothing(y, v)
      BY <1>4, <1>9, <1>13 DEF Progress, AllOrNothing, Whole, Migrations
  <2> QED BY <1>1, <1>2, <1>4, <1>7, <1>8, <2>1 DEF SessionInv, Typing, Fine, v, y, u, x
<1> QED BY <1>11, <1>12, <1>13 DEF Whole, Migrations

\* What Commit does: dblift's transaction is committed, or the work in the caller's is noted.
LEMMA Committing ==
    ASSUME SessionAssumption, SessionInv, Commit
    PROVE  /\ unit.pc = "commit" /\ unit.i \in Units /\ unit' = [unit EXCEPT !.pc = "idle"]
           /\ told' = told \cup Writes(unit.kind, unit.i)
           /\ s' \in Session /\ s'.callers = s.callers /\ Connection(s') /\ ~s'.handle
           /\ s.handle => s'.pending = {} /\ s'.durable = s.durable \cup s.pending
           /\ ~s.handle => /\ s'.pending = s.pending /\ s'.durable = s.durable /\ s'.open = s.open
                           /\ s.callers => s'.noted = IF unit.kind \in {"mark", "clean", "history"}
                                                      THEN s.open ELSE s.noted
<1>1. /\ unit.pc = "commit" /\ s \in Session /\ Connection(s) /\ unit.i \in Units /\ ~s.broken
      /\ (s.handle <=> unit.kind \in Migrations \/ unit.own)
      /\ unit.own => unit.kind \in {"sqlCallback", "history"}
      /\ unit' = [unit EXCEPT !.pc = "idle"] /\ told' = told \cup Writes(unit.kind, unit.i)
    BY Before DEF Commit, At, Point, Done
<1> DEFINE t == TransactionCommitted(s)
<1>2. CASE s.handle
  <2>1. s' = t
      BY <1>1, <1>2 DEF Commit, Migrations
  <2>2. Idle(s, t) /\ t.durable = s.durable \cup s.pending
      BY <1>1, <1>2, TransactionCommittedIs
  <2> HIDE DEF t
  <2> QED BY <1>1, <1>2, <2>1, <2>2 DEF Idle, Connection
<1>3. CASE ~s.handle
  <2>1. t = [s EXCEPT !.noted = FALSE]
      BY <1>1, <1>3, TransactionCommittedIs
  <2>2. /\ t \in Session /\ t.callers = s.callers /\ ~t.handle /\ t.open = s.open
        /\ t.broken = s.broken /\ ~t.noted /\ t.pending = s.pending /\ t.durable = s.durable
      BY <1>1, <1>3, <2>1 DEF Session
  <2>3. CASE s.callers /\ unit.kind \in {"mark", "clean"}
    <3>1. s' = Noted(t)
        BY <2>3 DEF Commit
    <3> HIDE DEF t
    <3>2. /\ s' \in Session /\ s'.callers = t.callers /\ s'.handle = t.handle
          /\ s'.open = t.open /\ s'.broken = t.broken /\ s'.noted = t.open
          /\ s'.pending = t.pending /\ s'.durable = t.durable
        BY <2>2, <3>1, NotedIs
    <3> QED BY <1>1, <1>3, <2>2, <2>3, <3>2 DEF Connection
  <2>4. CASE s.callers /\ unit.kind = "history"
    <3>1. s' = Noted(s)
        BY <1>1, <1>3, <2>4 DEF Commit
    <3>2. /\ s' \in Session /\ s'.callers = s.callers /\ s'.handle = s.handle
          /\ s'.open = s.open /\ s'.broken = s.broken /\ s'.noted = s.open
          /\ s'.pending = s.pending /\ s'.durable = s.durable
        BY <1>1, <3>1, NotedIs
    <3> QED BY <1>1, <1>3, <2>4, <3>2 DEF Connection
  <2>5. CASE s.callers /\ unit.kind \notin {"mark", "clean", "history"}
    <3>1. s' = s
        BY <1>1, <1>3, <2>5 DEF Commit
    <3> QED BY <1>1, <1>3, <2>5, <3>1
  <2>6. CASE ~s.callers
    <3>1. s' = t \/ s' = s
        BY <1>1, <2>6 DEF Commit
    <3> HIDE DEF t
    <3>2. Connection(t)
        BY <1>1, <1>3, <2>2 DEF Connection
    <3> QED BY <1>1, <1>3, <2>2, <2>6, <3>1, <3>2
  <2> QED BY <2>3, <2>4, <2>5, <2>6
<1> QED BY <1>2, <1>3

\* A unit ends well.
LEMMA CommitKeeps ==
    ASSUME SessionAssumption, SessionInv, Commit
    PROVE  SessionInv'
<1> DEFINE x == s  y == s'  u == unit  v == unit'
<1>1. /\ u.pc = "commit" /\ u.i \in Units /\ v = [u EXCEPT !.pc = "idle"]
      /\ told' = told \cup Writes(u.kind, u.i)
      /\ y \in Session /\ Connection(y) /\ ~y.handle
      /\ x.handle => y.pending = {} /\ y.durable = x.durable \cup x.pending
      /\ ~x.handle => y.pending = x.pending /\ y.durable = x.durable
    BY Committing
<1>2. /\ v \in UnitState /\ v.pc = "idle" /\ v.kind = u.kind /\ v.i = u.i /\ v.left = u.left
      /\ v.own = u.own /\ v.where = u.where /\ v.swallowed = u.swallowed
    BY <1>1, GotoIs DEF SessionInv, Points
<1>3. /\ told \in SUBSET Tokens /\ u.i \in Nat /\ Point(x, u) /\ InPlace(x, u) /\ Progress(x, u)
      /\ AllOrNothing(x, u)
    BY Before
<1> HIDE DEF x, y, u, v
<1>4. told' \in SUBSET Tokens
  <2>1. Work(u.i) \in SUBSET Tokens /\ Row(u.i) \in Tokens
      BY <1>1, <1>3, TokensAre
  <2> QED BY <1>1, <1>3, <2>1 DEF Writes
<1>5. /\ (x.handle <=> u.kind \in Migrations \/ u.own) /\ u.left = 0
      /\ u.own => u.kind \in {"sqlCallback", "history"}
    BY <1>1, <1>3 DEF Point
<1>6. Point(y, v)
    BY <1>1, <1>2, <1>5 DEF Point
<1>7. InPlace(y, v)
    BY <1>2, <1>3 DEF InPlace
<1>8. \A t \in y.pending \cup y.durable : t[1] <= v.i
    BY <1>1, <1>2, <1>3 DEF Progress
<1>9. /\ \A t \in Work(u.i) : t[1] = u.i
      /\ StatementsOf(u) = Work(u.i)
    BY <1>3, <1>5, TokensAre, StatementsAre
<1>10. CASE u.kind \in Migrations
  <2>1. y.pending = {} /\ y.durable = x.durable \cup x.pending
      BY <1>1, <1>5, <1>10
  <2>2. Of(v.i, y.pending) = {}
      BY <2>1 DEF Of
  <2>3. Progress(y, v)
      BY <1>2, <1>8, <2>2 DEF Progress
  <2>4. CASE u.kind \in Whole
    <3>1. x.pending = Work(u.i) \cup {Row(u.i)}
        BY <1>1, <1>3, <2>4 DEF Progress
    <3> QED BY <1>1, <1>2, <1>4, <1>6, <1>7, <2>1, <2>3, <3>1
          DEF AllOrNothing, SessionInv, Typing, Fine, v, y, u, x
  <2>5. CASE u.kind = "autoMigration"
    <3>1. Of(u.i, x.durable) = Work(u.i)
        BY <1>1, <1>3, <1>9, <2>5 DEF Progress
    <3>2. Work(u.i) \subseteq y.durable
        BY <2>1, <3>1 DEF Of
    <3> QED BY <1>1, <1>2, <1>4, <1>6, <1>7, <2>3, <2>5, <3>2
          DEF AllOrNothing, SessionInv, Typing, Fine, v, y, u, x
  <2> QED BY <1>10, <2>4, <2>5 DEF Migrations, Whole
<1>11. CASE u.kind \notin Migrations
  <2>1. Progress(y, v) /\ AllOrNothing(y, v)
      BY <1>2, <1>8, <1>11 DEF Progress, AllOrNothing, Whole, Migrations
  <2> QED BY <1>1, <1>2, <1>4, <1>6, <1>7, <2>1 DEF SessionInv, Typing, Fine, v, y, u, x
<1> QED BY <1>10, <1>11

\* What CommitFails does.
LEMMA CommitFailing ==
    ASSUME SessionAssumption, SessionInv, CommitFails
    PROVE  /\ unit.pc = "commit" /\ unit.i \in Units /\ told' = told /\ s.handle
           /\ unit.kind \in Migrations \/ unit.own
           /\ unit' \in UnitState /\ unit'.kind = unit.kind /\ unit'.i = unit.i
           /\ unit'.left = unit.left /\ unit'.own = unit.own /\ unit'.where = unit.where
           /\ unit'.pc = IF unit.kind = "sqlCallback" THEN "idle" ELSE "undo"
           /\ unit.kind = "sqlCallback" => unit'.swallowed
           /\ s' \in Session /\ s'.callers = s.callers /\ Connection(s') /\ s'.handle /\ s'.broken
           /\ s'.pending = {} /\ s'.durable = s.durable
<1>1. /\ unit.pc = "commit" /\ s \in Session /\ Connection(s) /\ unit.i \in Units /\ s.handle
      /\ unit.kind \in Migrations \/ unit.own
      /\ unit \in UnitState /\ s' = CommitLost(s)
    BY Before DEF CommitFails, At, Point
<1>2. /\ s' \in Session /\ s'.callers = s.callers /\ s'.handle = s.handle
      /\ s'.open = s.open /\ s'.broken /\ ~s'.noted
      /\ s'.pending = {} /\ s'.durable = s.durable
    BY <1>1, CommitLostIs
<1>3. Connection(s')
    BY <1>1, <1>2 DEF Connection
<1>4. CASE unit.kind = "sqlCallback"
  <2>1. unit' = [unit EXCEPT !.pc = "idle", !.swallowed = TRUE] /\ told' = told
      BY <1>4 DEF CommitFails
  <2> QED BY <1>1, <1>2, <1>3, <1>4, <2>1 DEF UnitState, Points
<1>5. CASE unit.kind # "sqlCallback"
  <2>1. unit' = [unit EXCEPT !.pc = "undo"] /\ told' = told
      BY <1>5 DEF CommitFails, Goto
  <2> QED BY <1>1, <1>2, <1>3, <1>5, <2>1 DEF UnitState, Points
<1> QED BY <1>4, <1>5

\* A commit fails.
LEMMA CommitFailsKeeps ==
    ASSUME SessionAssumption, SessionInv, CommitFails
    PROVE  SessionInv'
<1> DEFINE x == s  y == s'  u == unit  v == unit'
<1>1. /\ u.pc = "commit" /\ u.i \in Units /\ told' = told /\ (u.kind \in Migrations \/ u.own)
      /\ v \in UnitState /\ v.kind = u.kind /\ v.i = u.i
      /\ v.left = u.left /\ v.own = u.own /\ v.where = u.where
      /\ v.pc = IF u.kind = "sqlCallback" THEN "idle" ELSE "undo"
      /\ u.kind = "sqlCallback" => v.swallowed
      /\ y \in Session /\ Connection(y) /\ y.handle /\ y.broken /\ y.pending = {} /\ y.durable = x.durable
    BY CommitFailing
<1>2. /\ told \in SUBSET Tokens /\ u.i \in Nat /\ Point(x, u) /\ InPlace(x, u) /\ Progress(x, u)
      /\ AllOrNothing(x, u)
    BY Before
<1> HIDE DEF x, y, u, v
<1>3. Point(y, v)
    BY <1>1, <1>2 DEF Point, Migrations
<1>4. InPlace(y, v)
    BY <1>1, <1>2 DEF InPlace
<1>5. u.kind = "autoMigration" => Row(u.i) \notin x.durable
  <2> SUFFICES ASSUME u.kind = "autoMigration" PROVE Row(u.i) \notin x.durable
      OBVIOUS
  <2>1. Of(u.i, x.durable) = StatementsOf(u)
      BY <1>1, <1>2 DEF Progress
  <2> QED BY <1>2, <2>1, NoRowYet
<1>6. Progress(y, v)
  <2>1. Of(v.i, y.pending) = {} /\ \A t \in y.pending \cup y.durable : t[1] <= v.i
      BY <1>1, <1>2 DEF Of, Progress
  <2> QED BY <1>1, <1>2, <1>5, <2>1 DEF Progress, Whole, Migrations
<1>7. AllOrNothing(y, v)
    BY <1>1, <1>2 DEF AllOrNothing
<1> QED BY <1>1, <1>2, <1>3, <1>4, <1>6, <1>7 DEF SessionInv, Typing, Fine, v, y, u, x

\* What Undo does: everything of the transaction is rolled back, and a FAILED row may follow.
LEMMA Undoing ==
    ASSUME SessionAssumption, SessionInv, Undo
    PROVE  /\ unit.pc = "undo" /\ unit.i \in Units /\ told' = told /\ unit' = [unit EXCEPT !.pc = "idle"]
           /\ Idle(s, s') /\ Connection(s')
           /\ s'.durable = s.durable \/ s'.durable = s.durable \cup {Failure(unit.i)}
<1>1. /\ unit.pc = "undo" /\ s \in Session /\ unit.i \in Units /\ unit.i \in Nat
      /\ told' = told /\ unit' = [unit EXCEPT !.pc = "idle"]
    BY Before DEF Undo, At, Point, Goto
<1> DEFINE r == RolledBack(s)
           o == Opened(r)
           f == [o EXCEPT !.pending = {Failure(unit.i)}]
<1>2. Idle(s, r) /\ r.durable = s.durable
    BY <1>1, RolledBackIs
<1>3. s' = r \/ s' = Ended(f, TRUE)
    BY DEF Undo
<1> HIDE DEF r
<1>4. Like(r, o)
    BY <1>2, OpenedIs DEF Idle
<1>5. Failure(unit.i) \in Tokens
    BY <1>1, TokensAre
<1> HIDE DEF o
<1>6. f \in Session /\ f.callers = s.callers /\ f.durable = s.durable /\ f.pending = {Failure(unit.i)}
    BY <1>2, <1>4, <1>5 DEF Like, Idle, Session
<1> HIDE DEF f
<1>7. Idle(f, Ended(f, TRUE)) /\ Ended(f, TRUE).durable = f.durable \cup f.pending
    BY <1>6, EndedIs
<1>8. /\ Idle(s, s')
      /\ s'.durable = s.durable \/ s'.durable = s.durable \cup {Failure(unit.i)}
    BY <1>2, <1>3, <1>6, <1>7 DEF Idle
<1> QED BY <1>1, <1>8 DEF Idle, Connection

\* A failed unit is undone.
LEMMA UndoKeeps ==
    ASSUME SessionAssumption, SessionInv, Undo
    PROVE  SessionInv'
<1> DEFINE x == s  y == s'  u == unit  v == unit'
<1>1. /\ u.pc = "undo" /\ u.i \in Units /\ told' = told /\ v = [u EXCEPT !.pc = "idle"]
      /\ Idle(x, y) /\ Connection(y)
      /\ y.durable = x.durable \/ y.durable = x.durable \cup {Failure(u.i)}
    BY Undoing
<1>2. /\ v \in UnitState /\ v.pc = "idle" /\ v.kind = u.kind /\ v.i = u.i /\ v.left = u.left
      /\ v.own = u.own /\ v.where = u.where /\ v.swallowed = u.swallowed
    BY <1>1, GotoIs DEF SessionInv, Points
<1>3. /\ told \in SUBSET Tokens /\ u.i \in Nat /\ Point(x, u) /\ InPlace(x, u) /\ Progress(x, u)
      /\ AllOrNothing(x, u)
    BY Before
<1> HIDE DEF x, y, u, v
<1>4. y \in Session /\ ~y.handle /\ y.pending = {}
    BY <1>1 DEF Idle
<1>5. Point(y, v)
    BY <1>2, <1>3, <1>4 DEF Point
<1>6. InPlace(y, v)
    BY <1>2, <1>3 DEF InPlace
<1>7. /\ Failure(u.i)[1] = u.i /\ Failure(u.i) \notin Work(u.i) /\ Failure(u.i) # Row(u.i)
    BY <1>3, TokensAre
<1>8. Progress(y, v)
  <2>1. Of(v.i, y.pending) = {} /\ \A t \in y.pending \cup y.durable : t[1] <= v.i
      BY <1>1, <1>2, <1>3, <1>4, <1>7 DEF Of, Progress
  <2> QED BY <1>2, <2>1 DEF Progress
<1>9. AllOrNothing(y, v)
    BY <1>1, <1>2, <1>3, <1>7 DEF AllOrNothing
<1> QED BY <1>1, <1>2, <1>3, <1>4, <1>5, <1>6, <1>8, <1>9 DEF SessionInv, Typing, Fine, v, y, u, x

\* What the caller does: it writes, commits, or rolls back.
LEMMA Calling ==
    ASSUME SessionAssumption, SessionInv, Caller
    PROVE  /\ unit.pc = "idle" /\ s.callers /\ s' \in Session /\ s'.callers /\ Connection(s')
           /\ ~s'.handle
           /\ \/ /\ unit.i + 1 \in Units /\ told' = told
                 /\ unit' = [unit EXCEPT !.i = @ + 1, !.kind = "caller"]
                 /\ s'.pending = s.pending \cup {<<unit.i + 1, 1>>} /\ s'.durable = s.durable
                 /\ s'.noted = s.noted
              \/ /\ unit' = unit /\ told' = told
                 /\ s'.pending = {} /\ s'.durable = s.durable \cup s.pending
              \/ /\ unit' = [unit EXCEPT !.swallowed = FALSE] /\ told' = told \ s.pending
                 /\ s'.pending = {} /\ s'.durable = s.durable
<1>1. /\ unit.pc = "idle" /\ s.callers /\ s \in Session /\ unit.i \in Nat /\ MaxUnits \in Nat
      /\ Connection(s) /\ (s.handle => s.broken)
    BY Before DEF Caller, At, Kinds, SessionAssumption, Point, Session
<1>2. CASE /\ unit.i < MaxUnits /\ ~s.broken
           /\ s' = Executed(s, {<<unit.i + 1, 1>>})
           /\ unit' = [unit EXCEPT !.i = @ + 1, !.kind = "caller"] /\ told' = told
  <2>1. unit.i + 1 \in Units /\ <<unit.i + 1, 1>> \in Tokens
      BY <1>1, <1>2 DEF Units, Tokens
  <2>2. Wrote(s, s', FALSE, <<unit.i + 1, 1>>)
      BY <1>1, <1>2, <2>1, Writing
  <2> QED BY <1>1, <1>2, <2>1, <2>2 DEF Wrote
<1>3. CASE s.open /\ ~s.broken /\ s' = Ended(s, TRUE) /\ UNCHANGED <<unit, told>>
  <2>1. Idle(s, s') /\ s'.durable = s.durable \cup s.pending
      BY <1>1, <1>3, EndedIs
  <2> QED BY <1>1, <1>3, <2>1 DEF Idle, Connection
<1>4. CASE /\ s.open /\ s' = Ended(s, FALSE) /\ told' = told \ s.pending
           /\ unit' = [unit EXCEPT !.swallowed = FALSE]
  <2>1. Idle(s, s') /\ s'.durable = s.durable
      BY <1>1, <1>4, EndedIs
  <2> QED BY <1>1, <1>4, <2>1 DEF Idle, Connection
<1> QED BY <1>2, <1>3, <1>4 DEF Caller

\* The caller writes, commits or rolls back.
LEMMA CallerKeeps ==
    ASSUME SessionAssumption, SessionInv, Caller
    PROVE  SessionInv'
<1> DEFINE x == s  y == s'  u == unit  v == unit'
<1>1. u.pc = "idle" /\ y \in Session /\ Connection(y) /\ ~y.handle
    BY Calling
<1>2. \/ /\ u.i + 1 \in Units /\ told' = told
         /\ v = [u EXCEPT !.i = @ + 1, !.kind = "caller"]
         /\ y.pending = x.pending \cup {<<u.i + 1, 1>>} /\ y.durable = x.durable
      \/ /\ v = u /\ told' = told
         /\ y.pending = {} /\ y.durable = x.durable \cup x.pending
      \/ /\ v = [u EXCEPT !.swallowed = FALSE] /\ told' = told \ x.pending
         /\ y.pending = {} /\ y.durable = x.durable
    BY Calling
<1>3. /\ told \in SUBSET Tokens /\ u.i \in Nat /\ Point(x, u) /\ InPlace(x, u) /\ Progress(x, u)
      /\ AllOrNothing(x, u) /\ u \in UnitState /\ x \in Session /\ MaxUnits \in Nat
    BY Before
<1> HIDE DEF x, y, u, v
<1>4. told' \in SUBSET Tokens
    BY <1>2, <1>3
<1>5. CASE /\ u.i + 1 \in Units
           /\ v = [u EXCEPT !.i = @ + 1, !.kind = "caller"]
           /\ y.pending = x.pending \cup {<<u.i + 1, 1>>} /\ y.durable = x.durable
  <2>a. u.i + 1 \in 0..MaxUnits /\ "caller" \in AllKinds \cup {"none"}
      BY <1>3, <1>5 DEF AllKinds, Units
  <2>1. /\ v \in UnitState /\ v.kind = "caller" /\ v.i = u.i + 1 /\ v.pc = "idle"
        /\ v.own = u.own /\ v.where = u.where
      BY <1>1, <1>3, <1>5, <2>a DEF UnitState
  <2>2. ASSUME NEW t \in y.pending \cup y.durable PROVE t[1] <= v.i
    <3>1. CASE t = <<u.i + 1, 1>>
        BY <1>3, <2>1, <3>1
    <3>2. CASE t \in x.pending \cup x.durable
      <4>1. t[1] <= u.i /\ t[1] \in Nat
          BY <1>3, <3>2 DEF Progress, Session, Tokens, Units
      <4> QED BY <1>3, <2>1, <4>1
    <3> QED BY <1>5, <2>2, <3>1, <3>2
  <2>3. Progress(y, v) /\ AllOrNothing(y, v)
      BY <2>1, <2>2 DEF Progress, AllOrNothing, Whole, Migrations, Scripts
  <2>4. InPlace(y, v)
      BY <1>3, <2>1 DEF InPlace
  <2>5. Point(y, v)
      BY <1>1, <1>3, <2>1 DEF Point
  <2> QED BY <1>1, <1>4, <2>1, <2>3, <2>4, <2>5 DEF SessionInv, Typing, Fine, v, y, u, x
<1>6. CASE /\ v = u \/ v = [u EXCEPT !.swallowed = FALSE]
           /\ y.pending = {} /\ (y.durable = x.durable \/ y.durable = x.durable \cup x.pending)
  <2>1. /\ v \in UnitState /\ v.kind = u.kind /\ v.i = u.i /\ v.pc = "idle"
        /\ v.own = u.own /\ v.where = u.where /\ v.left = u.left
      BY <1>1, <1>3, <1>6 DEF UnitState
  <2>2. Of(v.i, y.pending) = {} /\ \A t \in y.pending \cup y.durable : t[1] <= v.i
      BY <1>3, <1>6, <2>1 DEF Of, Progress
  <2>3. Progress(y, v)
      BY <2>1, <2>2 DEF Progress
  <2>4. AllOrNothing(y, v)
    <3>1. u.kind \in Migrations => Of(u.i, x.pending) = {}
        BY <1>1, <1>3 DEF Progress
    <3>2. /\ \A t \in Work(u.i) : t[1] = u.i
          /\ Row(u.i)[1] = u.i
        BY <1>3, TokensAre
    <3>3. u.kind \in Migrations => x.pending \cap (Work(u.i) \cup {Row(u.i)}) = {}
        BY <3>1, <3>2 DEF Of
    <3> QED BY <1>3, <1>6, <2>1, <3>3 DEF AllOrNothing
  <2>5. InPlace(y, v)
      BY <1>3, <2>1 DEF InPlace
  <2>6. Point(y, v)
      BY <1>1, <1>3, <2>1 DEF Point
  <2> QED BY <1>1, <1>4, <2>1, <2>3, <2>4, <2>5, <2>6 DEF SessionInv, Typing, Fine, v, y, u, x
<1> QED BY <1>2, <1>5, <1>6

\* Every step keeps the invariant.
LEMMA SessionStep ==
    ASSUME SessionAssumption, SessionInv, [Next]_vars
    PROVE  SessionInv'
<1>1. CASE UNCHANGED vars
    BY <1>1 DEF vars, SessionInv, Typing, Fine, Connection, Point, InPlace, Progress, AllOrNothing,
                Of, StatementsOf
<1> QED BY <1>1, StartKeeps, PrepareKeeps, SettlingFailsKeeps, BeginKeeps, RunKeeps, StatementFailsKeeps, RanKeeps,
           RecordKeeps, CommitKeeps, CommitFailsKeeps, UndoKeeps, CallerKeeps DEF Next

\* The connection starts closed.
LEMMA SessionStarts ==
    ASSUME SessionAssumption, Init
    PROVE  SessionInv
<1>1. PICK callers \in BOOLEAN :
        s = [callers |-> callers, open |-> FALSE, broken |-> FALSE, pending |-> {}, durable |-> {},
             here |-> FALSE, before |-> FALSE, handle |-> FALSE, noted |-> FALSE, applied |-> FALSE]
    BY DEF Init
<1>2. /\ unit = [kind |-> "none", i |-> 0, pc |-> "idle", left |-> 0, own |-> FALSE,
                 where |-> "unknown", swallowed |-> FALSE]
      /\ told = {}
    BY DEF Init
<1>3. s \in Session /\ s.pending = {} /\ s.durable = {} /\ ~s.handle /\ ~s.noted /\ ~s.open /\ ~s.broken
    BY <1>1 DEF Session
<1>4. unit \in UnitState
    BY <1>2 DEF UnitState, Points, SessionAssumption
<1>5. /\ unit.kind = "none" /\ unit.pc = "idle" /\ unit.where = "unknown" /\ ~unit.own /\ unit.i = 0
    BY <1>2
<1>6. Connection(s) /\ Point(s, unit) /\ InPlace(s, unit)
    BY <1>3, <1>5 DEF Connection, Point, InPlace, Scripts, Migrations
<1>7. Progress(s, unit) /\ AllOrNothing(s, unit)
    BY <1>3, <1>5 DEF Progress, AllOrNothing, Whole, Migrations, Of
<1> QED BY <1>2, <1>3, <1>4, <1>6, <1>7 DEF SessionInv, Typing, Fine

\* The invariant holds in every state, whatever units a caller's connection is given.
THEOREM SessionIsSound ==
    ASSUME SessionAssumption
    PROVE  Spec => []SessionInv
<1>1. Init => SessionInv
    BY SessionStarts
<1>2. SessionInv /\ [Next]_vars => SessionInv'
    BY SessionStep
<1> QED BY <1>1, <1>2, PTL DEF Spec

\* A migration's writes and its row become durable together, an autocommit migration's row
\* never without its statements; the first statement of every script runs in the configured
\* schema; and a unit leaves no transaction of dblift's open, unless a callback's commit failed.
THEOREM UnitsAlwaysStandAlone ==
    ASSUME SessionAssumption
    PROVE  Spec => []UnitsStandAlone
<1>1. SessionInv => UnitsStandAlone
  <2> SUFFICES ASSUME SessionInv PROVE UnitsStandAlone
      OBVIOUS
  <2>1. /\ s \in Session /\ unit \in UnitState /\ told \in SUBSET Tokens /\ Point(s, unit)
        /\ InPlace(s, unit) /\ AllOrNothing(s, unit)
      BY Before
  <2>2. TypeOK
      BY <2>1 DEF TypeOK, Session, UnitState, Points
  <2>3. MigrationAllOrNothing
      BY <2>1 DEF AllOrNothing, MigrationAllOrNothing
  <2>4. StartsInConfiguredSchema /\ LeavesNothingOpen
      BY <2>1 DEF InPlace, Point, StartsInConfiguredSchema, LeavesNothingOpen, At
  <2> QED BY <2>2, <2>3, <2>4 DEF UnitsStandAlone
<1>2. Spec => []SessionInv
    BY SessionIsSound
<1> QED BY <1>1, <1>2, PTL

-----------------------------------------------------------------------------
(* Work that was reported. *)

\* Work of earlier units is not among the tokens of this one.
LEMMA Earlier ==
    ASSUME SessionAssumption, KeptInv
    PROVE  /\ Written(s, unit) /\ Kept(s, unit, told)
           /\ \A w \in told : w[1] \in Nat
BY DEF KeptInv, SessionInv, Typing, Tokens, Units

\* A unit begins.
LEMMA StartKept ==
    ASSUME SessionAssumption, SettledKinds, KeptInv, NEW kind \in AllKinds \ {"caller"}, Start(kind)
    PROVE  Written(s', unit') /\ Kept(s', unit', told')
<1> DEFINE x == s  y == s'  u == unit  v == unit'
<1>1. SessionInv /\ Written(x, u) /\ Kept(x, u, told) /\ \A w \in told : w[1] \in Nat
    BY Earlier DEF KeptInv
<1>2. /\ v.kind = kind /\ v.i = u.i + 1
      /\ v.left = (IF kind \in {"history", "mark"} THEN 0 ELSE 2)
      /\ v.pc = IF x.broken THEN "idle" ELSE IF kind \in Whole THEN "prepare"
                         ELSE IF kind \in {"sqlCallback", "history"} THEN "begin" ELSE "run"
      /\ Like(x, y) /\ (~x.broken => ~x.handle) /\ kind \in Kinds /\ told' = told
    BY <1>1, Starting
<1>3. u.i \in Nat /\ v.i \in Nat
    BY <1>1, <1>2, Before
<1>4. kind \in {"autoMigration", "pyCallback"} => ~x.callers
    BY <1>2 DEF Kinds, SettledKinds
<1> HIDE DEF x, y, u, v
<1>5. /\ y.callers = x.callers /\ y.handle = x.handle /\ y.noted = x.noted
      /\ y.pending = x.pending /\ y.durable = x.durable
    BY <1>2 DEF Like
<1>6. v.left = 2 => StatementsOf(v) = {}
    BY <1>3, StatementsAre
<1>7. v.pc # "undo" /\ v.pc # "commit" /\ (v.pc = "run" => v.kind # "sqlCallback")
    BY <1>2
<1>8. Written(y, v)
    BY <1>2, <1>6, <1>7 DEF Written, Scripts, Migrations
<1>9. \A w \in told : w[1] < v.i /\ w[1] <= v.i
  <2> SUFFICES ASSUME NEW w \in told PROVE w[1] < v.i /\ w[1] <= v.i
      OBVIOUS
  <2>1. w[1] <= u.i /\ w[1] \in Nat
      BY <1>1 DEF Kept
  <2> QED BY <1>2, <1>3, <2>1
<1>10. y.handle => v.pc = "idle"
    BY <1>2, <1>5
<1>11. Kept(y, v, told)
    BY <1>1, <1>2, <1>4, <1>5, <1>7, <1>9, <1>10 DEF Kept
<1> QED BY <1>2, <1>8, <1>11 DEF v, y, u, x

\* A migration begins: noted work is committed, other work of the caller's was not reported.
LEMMA PrepareKept ==
    ASSUME SessionAssumption, KeptInv, Prepare
    PROVE  Written(s', unit') /\ Kept(s', unit', told')
<1> DEFINE x == s  y == s'  u == unit  v == unit'
<1>1. SessionInv /\ Written(x, u) /\ Kept(x, u, told) /\ \A w \in told : w[1] \in Nat
    BY Earlier DEF KeptInv
<1>2. /\ u.pc = "prepare" /\ told' = told /\ y.callers = x.callers /\ y.pending = {}
      /\ x.durable \subseteq y.durable
      /\ x.callers /\ x.noted => y.durable = x.durable \cup x.pending
    BY <1>1, Preparing
<1>3. PICK pc \in {"run", "idle"} : v = [u EXCEPT !.pc = pc]
    BY <1>1, Preparing
<1>4. /\ v.pc = pc /\ v.kind = u.kind /\ v.i = u.i /\ v.left = u.left /\ v.own = u.own
    BY <1>1, <1>3, GotoIs DEF SessionInv, Points
<1>5. Point(x, u) /\ Connection(x) /\ u.i \in Nat
    BY <1>1, Before
<1> HIDE DEF x, y, u, v
<1>6. u.kind \in Whole /\ ~x.handle /\ u.left = 2
    BY <1>2, <1>5 DEF Point
<1>7. StatementsOf(v) = {}
    BY <1>4, <1>5, <1>6, StatementsAre
<1>8. told \subseteq y.durable
  <2>1. CASE x.callers /\ x.noted
      BY <1>1, <1>2, <2>1 DEF Kept
  <2>2. CASE x.callers /\ ~x.noted
      BY <1>1, <1>2, <2>2 DEF Kept
  <2>3. CASE ~x.callers
      BY <1>1, <1>2, <1>5, <1>6, <2>3 DEF Kept, Connection
  <2> QED BY <2>1, <2>2, <2>3
<1>9. Written(y, v)
    BY <1>3, <1>4, <1>7 DEF Written
<1>10. Kept(y, v, told)
    BY <1>1, <1>2, <1>3, <1>4, <1>6, <1>8 DEF Kept, Whole
<1> QED BY <1>2, <1>9, <1>10 DEF v, y, u, x

\* Noted work cannot be committed: what was reported before is durable or lost with it.
LEMMA SettlingFailsKept ==
    ASSUME SessionAssumption, KeptInv, SettlingFails
    PROVE  Written(s', unit') /\ Kept(s', unit', told')
<1> DEFINE x == s  y == s'  u == unit  v == unit'
<1>1. SessionInv /\ Written(x, u) /\ Kept(x, u, told) /\ \A w \in told : w[1] \in Nat
    BY Earlier DEF KeptInv
<1>2. /\ u.pc = "prepare" /\ x.callers /\ told' = told \ x.pending /\ v = [u EXCEPT !.pc = "idle"]
      /\ y.callers /\ ~y.handle /\ y.pending = {} /\ y.durable = x.durable
    BY <1>1, SettlingFailing
<1>3. /\ v.pc = "idle" /\ v.kind = u.kind /\ v.i = u.i
    BY <1>1, <1>2, GotoIs DEF SessionInv, Points
<1>4. Point(x, u) /\ u.i \in Nat
    BY <1>1, Before
<1> HIDE DEF x, y, u, v
<1>5. v.kind \notin {"autoMigration", "sqlCallback", "pyCallback"}
    BY <1>2, <1>3, <1>4 DEF Point, Whole
<1>6. told' \subseteq y.durable /\ told' \subseteq told
    BY <1>1, <1>2 DEF Kept
<1>7. Written(y, v)
    BY <1>3 DEF Written
<1>8. Kept(y, v, told')
    BY <1>1, <1>2, <1>3, <1>5, <1>6 DEF Kept
<1> QED BY <1>7, <1>8 DEF v, y, u, x

\* A callback or a history row begins.
LEMMA BeginKept ==
    ASSUME SessionAssumption, KeptInv, Begin
    PROVE  Written(s', unit') /\ Kept(s', unit', told')
<1> DEFINE x == s  y == s'  u == unit  v == unit'
<1>1. SessionInv /\ Written(x, u) /\ Kept(x, u, told) /\ \A w \in told : w[1] \in Nat
    BY Earlier DEF KeptInv
<1>2. /\ u.pc = "begin" /\ told' = told
      /\ v.kind = u.kind /\ v.i = u.i /\ v.left = u.left
      /\ v.own = ~x.open /\ v.pc = IF u.kind = "history" THEN "record" ELSE "run"
      /\ y.callers = x.callers /\ y.pending = x.pending /\ y.durable = x.durable
      /\ (y.handle <=> ~x.open)
      /\ y.noted = (x.noted \/ (x.open /\ x.callers /\ u.kind = "sqlCallback"))
    BY <1>1, Beginning
<1>3. Point(x, u) /\ Connection(x) /\ u.i \in Nat
    BY <1>1, Before
<1> HIDE DEF x, y, u, v
<1>4. u.kind \in {"sqlCallback", "history"} /\ (u.kind = "sqlCallback" => u.left = 2)
    BY <1>2, <1>3 DEF Point
<1>5. v.left = 2 => StatementsOf(v) = {}
    BY <1>2, <1>3, StatementsAre
<1>6. Written(y, v)
    BY <1>2, <1>4, <1>5 DEF Written, Scripts, Migrations
<1>7. ~x.open => x.pending = {}
    BY <1>3 DEF Connection
<1>8. Kept(y, v, told)
    BY <1>1, <1>2, <1>4, <1>7 DEF Kept
<1> QED BY <1>2, <1>6, <1>8 DEF v, y, u, x

\* A statement runs.
LEMMA RunKept ==
    ASSUME SessionAssumption, KeptInv, Run
    PROVE  Written(s', unit') /\ Kept(s', unit', told')
<1> DEFINE x == s  y == s'  u == unit  v == unit'  w == <<unit.i, unit.left>>
           auto == unit.kind = "autoMigration"
<1>1. SessionInv /\ Written(x, u) /\ Kept(x, u, told) /\ \A t \in told : t[1] \in Nat
    BY Earlier DEF KeptInv
<1>2. /\ u.pc = "run" /\ u.left \in 1..2 /\ told' = told /\ u.kind \in Scripts \cup {"clean"}
      /\ v.kind = u.kind /\ v.i = u.i /\ v.pc = "run" /\ v.left = u.left - 1 /\ v.own = u.own
      /\ Wrote(x, y, auto, w)
    BY <1>1, Running
<1>3. Point(x, u) /\ Connection(x) /\ u.i \in Nat
    BY <1>1, Before
<1>4. w = <<u.i, u.left>> /\ w[1] = u.i /\ (auto <=> u.kind = "autoMigration")
    OBVIOUS
<1> HIDE DEF x, y, u, v, w, auto
<1>5. StatementsOf(v) = StatementsOf(u) \cup {w}
    BY <1>2, <1>3, <1>4, StatementsAre
<1>6. auto => ~x.callers /\ ~x.handle
    BY <1>1, <1>2, <1>3, <1>4 DEF Kept, Point, Whole
<1>7. \/ /\ y.callers = x.callers /\ y.handle = x.handle /\ y.noted = x.noted
         /\ y.pending = x.pending \cup {w} /\ y.durable = x.durable
      \/ /\ ~y.callers /\ ~y.handle /\ x.pending = {}
         /\ y.pending = {} /\ y.durable = x.durable \cup {w}
  <2>1. CASE ~auto /\ (x.handle \/ x.callers)
      BY <1>2, <2>1 DEF Wrote
  <2>2. CASE ~x.handle /\ ~x.callers
      BY <1>2, <1>3, <2>2 DEF Wrote, Connection
  <2> QED BY <1>6, <2>1, <2>2
<1>8. w \notin told
    BY <1>1, <1>2, <1>4 DEF Kept
<1>9. Written(y, v)
    BY <1>1, <1>2, <1>5, <1>7 DEF Written
<1>10. Kept(y, v, told)
    BY <1>1, <1>2, <1>4, <1>6, <1>7, <1>8 DEF Kept
<1> QED BY <1>2, <1>9, <1>10 DEF v, y, u, x

\* The writes of a unit that is to be undone are its own.
LEMMA OwnWrites ==
    ASSUME NEW x, NEW u, Connection(x), Point(x, u), Kept(x, u, told),
           u.pc \in {"run", "record"}, u.kind \in Migrations \/ u.own
    PROVE  \A w \in x.pending : w[1] = u.i
<1>1. CASE u.kind = "autoMigration" /\ ~u.own
    BY <1>1 DEF Connection, Point, Kept, Whole
<1>2. CASE u.kind # "autoMigration" \/ u.own
    BY <1>2 DEF Point, Kept, Whole, Migrations
<1> QED BY <1>1, <1>2

\* A statement fails.
LEMMA StatementFailsKept ==
    ASSUME SessionAssumption, KeptInv, StatementFails
    PROVE  Written(s', unit') /\ Kept(s', unit', told')
<1> DEFINE x == s  y == s'  u == unit  v == unit'
           pc == IF unit.kind \in Migrations \/ unit.own THEN "undo" ELSE "idle"
<1>1. SessionInv /\ Written(x, u) /\ Kept(x, u, told) /\ \A t \in told : t[1] \in Nat
    BY Earlier DEF KeptInv
<1>2. /\ u.pc = "run" /\ told' = told /\ v = [u EXCEPT !.pc = pc]
      /\ y.callers = x.callers /\ y.durable = x.durable
      /\ u.kind # "autoMigration" => y.pending = x.pending /\ y.handle = x.handle /\ y.noted = x.noted
      /\ u.kind = "autoMigration" => y.pending = {} /\ ~y.handle
    BY <1>1, Failing
<1>3. /\ v.pc = pc /\ v.kind = u.kind /\ v.i = u.i /\ v.own = u.own
    BY <1>1, <1>2, GotoIs DEF SessionInv, Points
<1>4. Point(x, u) /\ Connection(x) /\ u.i \in Nat
    BY <1>1, Before
<1>5. pc \in {"undo", "idle"} /\ (pc = "undo" <=> u.kind \in Migrations \/ u.own)
    OBVIOUS
<1> HIDE DEF x, y, u, v, pc
<1>6. u.kind = "autoMigration" => ~x.callers /\ x.pending = {}
    BY <1>1, <1>2, <1>4 DEF Kept, Point, Whole, Connection
<1>7. y.pending = x.pending
    BY <1>2, <1>6
<1>8. pc = "undo" => \A w \in x.pending : w[1] = u.i
    BY <1>1, <1>2, <1>4, <1>5, OwnWrites
<1>9. Written(y, v)
    BY <1>3, <1>5 DEF Written
<1>10. Kept(y, v, told)
    BY <1>1, <1>2, <1>3, <1>5, <1>6, <1>7, <1>8 DEF Kept
<1> QED BY <1>2, <1>9, <1>10 DEF v, y, u, x

\* The last statement ran.
LEMMA RanKept ==
    ASSUME SessionAssumption, KeptInv, Ran
    PROVE  Written(s', unit') /\ Kept(s', unit', told')
<1> DEFINE x == s  u == unit  v == unit'
           pc == IF unit.kind \in Migrations \cup {"mark"} THEN "record" ELSE "commit"
<1>1. SessionInv /\ Written(x, u) /\ Kept(x, u, told) /\ \A t \in told : t[1] \in Nat
    BY Earlier DEF KeptInv
<1>2. u.pc = "run" /\ u.left = 0 /\ s' = x /\ told' = told /\ v = [u EXCEPT !.pc = pc]
    BY DEF Ran, At, Goto
<1>3. /\ v.pc = pc /\ v.kind = u.kind /\ v.i = u.i /\ v.left = u.left /\ v.own = u.own
    BY <1>1, <1>2, GotoIs DEF SessionInv, Points
<1>4. Point(x, u) /\ u.i \in Nat
    BY <1>1, Before
<1>5. pc \in {"record", "commit"} /\ (pc = "record" <=> u.kind \in Migrations \cup {"mark"})
    OBVIOUS
<1> HIDE DEF x, u, v, pc
<1>6. u.kind \in Scripts \cup {"clean", "mark"}
    BY <1>2, <1>4 DEF Point
<1>7. StatementsOf(u) = Work(u.i) /\ StatementsOf(v) = StatementsOf(u)
    BY <1>2, <1>3, <1>4, StatementsAre DEF StatementsOf
<1>8. Written(x, v)
    BY <1>1, <1>2, <1>3, <1>5, <1>6, <1>7 DEF Written, Writes, Scripts, Migrations
<1>9. Kept(x, v, told)
    BY <1>1, <1>2, <1>3, <1>5, <1>6 DEF Kept, Scripts, Migrations
<1> QED BY <1>2, <1>8, <1>9 DEF v, u, x

\* The row of a success is written.
LEMMA RecordKept ==
    ASSUME SessionAssumption, KeptInv, Record
    PROVE  Written(s', unit') /\ Kept(s', unit', told')
<1> DEFINE x == s  y == s'  u == unit  v == unit'
<1>1. SessionInv /\ Written(x, u) /\ Kept(x, u, told) /\ \A t \in told : t[1] \in Nat
    BY Earlier DEF KeptInv
<1>2. /\ u.pc = "record" /\ told' = told /\ y.callers = x.callers
      /\ (y.handle <=> x.handle \/ u.kind = "autoMigration")
    BY <1>1, Recording
<1>3. PICK pc \in {"commit", "undo", "idle"} :
        /\ v = [u EXCEPT !.pc = pc]
        /\ pc = "commit" =>
             /\ y.handle \/ y.callers => /\ y.pending = x.pending \cup {Row(u.i)} /\ y.durable = x.durable
                                         /\ y.noted = x.noted
             /\ ~y.handle /\ ~y.callers => y.pending = {} /\ y.durable = x.durable \cup {Row(u.i)}
        /\ pc # "commit" =>
             /\ pc = "undo" <=> u.kind \in Migrations \/ u.own
             /\ y.pending = x.pending /\ y.durable = x.durable /\ y.noted = x.noted
    BY <1>1, Recording
<1>4. /\ v.pc = pc /\ v.kind = u.kind /\ v.i = u.i /\ v.left = u.left /\ v.own = u.own
    BY <1>1, <1>3, GotoIs DEF SessionInv, Points
<1>5. Point(x, u) /\ Connection(x) /\ u.i \in Nat
    BY <1>1, Before
<1> HIDE DEF x, y, u, v
<1>6. u.left = 0 /\ u.kind \in Migrations \cup {"mark", "history"} /\ (x.handle <=> u.kind \in Whole \/ u.own)
    BY <1>2, <1>5 DEF Point
<1>7. StatementsOf(u) = Work(u.i) /\ Row(u.i)[1] = u.i
    BY <1>5, <1>6, StatementsAre, TokensAre
<1>8. u.kind \in Migrations \/ u.own => \A w \in x.pending : w[1] = u.i
    BY <1>1, <1>2, <1>5, OwnWrites
<1>9. \A w \in told : w[1] < u.i /\ w[1] <= u.i /\ w # Row(u.i)
    BY <1>1, <1>2, <1>5, <1>7 DEF Kept
<1>10. CASE pc = "commit" /\ (y.handle \/ y.callers)
  <2>1. y.pending = x.pending \cup {Row(u.i)} /\ y.durable = x.durable /\ y.noted = x.noted
      BY <1>3, <1>10
  <2>2. Written(y, v)
      BY <1>1, <1>2, <1>4, <1>6, <1>7, <1>10, <2>1 DEF Written, Writes, Scripts, Migrations
  <2>3. y.handle => \A w \in y.pending : w[1] = v.i
      BY <1>2, <1>4, <1>6, <1>7, <1>8, <2>1 DEF Whole, Migrations
  <2>4. Kept(y, v, told)
      BY <1>1, <1>2, <1>4, <1>6, <1>9, <1>10, <2>1, <2>3 DEF Kept, Migrations
  <2> QED BY <1>2, <2>2, <2>4 DEF v, y, u, x
<1>11. CASE pc = "commit" /\ ~y.handle /\ ~y.callers
  <2>1. y.pending = {} /\ y.durable = x.durable \cup {Row(u.i)}
      BY <1>3, <1>11
  <2>2. x.pending = {}
      BY <1>2, <1>5, <1>11 DEF Connection
  <2>3. Written(y, v)
      BY <1>1, <1>2, <1>4, <1>6, <1>7, <1>11, <2>1, <2>2 DEF Written, Writes, Scripts, Migrations
  <2>4. Kept(y, v, told)
      BY <1>1, <1>2, <1>4, <1>6, <1>9, <1>11, <2>1, <2>2 DEF Kept, Migrations
  <2> QED BY <1>2, <2>3, <2>4 DEF v, y, u, x
<1>12. CASE pc # "commit"
  <2>1. /\ pc = "undo" <=> u.kind \in Migrations \/ u.own
        /\ y.pending = x.pending /\ y.durable = x.durable /\ y.noted = x.noted
      BY <1>3, <1>12
  <2>2. Written(y, v)
      BY <1>3, <1>4, <1>12 DEF Written
  <2>3. pc # "idle" => pc = "undo"
      BY <1>12
  <2>4. Kept(y, v, told)
      BY <1>1, <1>2, <1>4, <1>6, <1>8, <1>9, <2>1, <2>3 DEF Kept, Migrations
  <2> QED BY <1>2, <2>2, <2>4 DEF v, y, u, x
<1> QED BY <1>10, <1>11, <1>12

\* A unit ends well, and its work is reported.
LEMMA CommitKept ==
    ASSUME SessionAssumption, KeptInv, Commit
    PROVE  Written(s', unit') /\ Kept(s', unit', told')
<1> DEFINE x == s  y == s'  u == unit  v == unit'
<1>1. SessionInv /\ Written(x, u) /\ Kept(x, u, told) /\ \A t \in told : t[1] \in Nat
    BY Earlier DEF KeptInv
<1>2. /\ u.pc = "commit" /\ v = [u EXCEPT !.pc = "idle"]
      /\ told' = told \cup Writes(u.kind, u.i) /\ y.callers = x.callers /\ ~y.handle
      /\ x.handle => y.pending = {} /\ y.durable = x.durable \cup x.pending
      /\ ~x.handle => /\ y.pending = x.pending /\ y.durable = x.durable
                      /\ x.callers => y.noted = IF u.kind \in {"mark", "clean", "history"}
                                                THEN x.open ELSE x.noted
    BY <1>1, Committing
<1>3. /\ v.pc = "idle" /\ v.kind = u.kind /\ v.i = u.i
    BY <1>1, <1>2, GotoIs DEF SessionInv, Points
<1>4. Point(x, u) /\ Connection(x) /\ u.i \in Nat
    BY <1>1, Before
<1> HIDE DEF x, y, u, v
<1>5. /\ (x.handle <=> u.kind \in Migrations \/ u.own) /\ u.kind \in AllKinds \ {"caller"}
    BY <1>2, <1>4 DEF Point
<1>6. \A w \in Writes(u.kind, u.i) : w[1] = u.i
    BY <1>4, TokensAre DEF Writes
<1>7. told' \subseteq y.durable \cup y.pending
    BY <1>1, <1>2 DEF Written, Kept
<1>8. y.callers /\ ~y.noted => y.pending = {} \/ (u.kind \in {"sqlCallback", "pyCallback"} /\ ~u.own /\ ~x.noted)
    BY <1>2, <1>4, <1>5 DEF Connection, AllKinds, Migrations
<1>9. y.callers /\ ~y.noted => y.pending = {}
    BY <1>1, <1>2, <1>8 DEF Kept
<1>10. Written(y, v)
    BY <1>3 DEF Written
<1>11. Kept(y, v, told')
    BY <1>1, <1>2, <1>3, <1>4, <1>6, <1>7, <1>9 DEF Kept
<1> QED BY <1>10, <1>11 DEF v, y, u, x

\* A commit fails: what is lost was not reported.
LEMMA CommitFailsKept ==
    ASSUME SessionAssumption, KeptInv, CommitFails
    PROVE  Written(s', unit') /\ Kept(s', unit', told')
<1> DEFINE x == s  y == s'  u == unit  v == unit'
<1>1. SessionInv /\ Written(x, u) /\ Kept(x, u, told) /\ \A t \in told : t[1] \in Nat
    BY Earlier DEF KeptInv
<1>2. /\ u.pc = "commit" /\ told' = told /\ x.handle
      /\ v.kind = u.kind /\ v.i = u.i /\ v.own = u.own
      /\ v.pc = IF u.kind = "sqlCallback" THEN "idle" ELSE "undo"
      /\ y.callers = x.callers /\ y.pending = {} /\ y.durable = x.durable
    BY <1>1, CommitFailing
<1>3. u.i \in Nat
    BY <1>1, Before
<1> HIDE DEF x, y, u, v
<1>4. \A w \in told : w \in x.durable /\ w[1] < u.i /\ w[1] <= u.i
    BY <1>1, <1>2, <1>3 DEF Kept
<1>5. Written(y, v)
    BY <1>2 DEF Written
<1>6. Kept(y, v, told)
    BY <1>1, <1>2, <1>4 DEF Kept
<1> QED BY <1>2, <1>5, <1>6 DEF v, y, u, x

\* A failed unit is undone: what is rolled back is its own.
LEMMA UndoKept ==
    ASSUME SessionAssumption, KeptInv, Undo
    PROVE  Written(s', unit') /\ Kept(s', unit', told')
<1> DEFINE x == s  y == s'  u == unit  v == unit'
<1>1. SessionInv /\ Written(x, u) /\ Kept(x, u, told) /\ \A t \in told : t[1] \in Nat
    BY Earlier DEF KeptInv
<1>2. /\ u.pc = "undo" /\ told' = told /\ v = [u EXCEPT !.pc = "idle"] /\ Idle(x, y)
      /\ x.durable \subseteq y.durable
    BY <1>1, Undoing
<1>3. /\ v.pc = "idle" /\ v.kind = u.kind /\ v.i = u.i
    BY <1>1, <1>2, GotoIs DEF SessionInv, Points
<1>4. u.i \in Nat
    BY <1>1, Before
<1> HIDE DEF x, y, u, v
<1>5. y.callers = x.callers /\ y.pending = {}
    BY <1>2 DEF Idle
<1>6. \A w \in told : w \in x.durable /\ w[1] < u.i /\ w[1] <= u.i
    BY <1>1, <1>2, <1>4 DEF Kept
<1>7. Written(y, v)
    BY <1>3 DEF Written
<1>8. Kept(y, v, told)
    BY <1>1, <1>2, <1>3, <1>5, <1>6 DEF Kept
<1> QED BY <1>2, <1>7, <1>8 DEF v, y, u, x

\* The caller writes, commits or rolls back.
LEMMA CallerKept ==
    ASSUME SessionAssumption, KeptInv, Caller
    PROVE  Written(s', unit') /\ Kept(s', unit', told')
<1> DEFINE x == s  y == s'  u == unit  v == unit'
<1>1. SessionInv /\ Written(x, u) /\ Kept(x, u, told) /\ \A t \in told : t[1] \in Nat
    BY Earlier DEF KeptInv
<1>2. u.pc = "idle" /\ x.callers /\ y.callers /\ ~y.handle
    BY <1>1, Calling
<1>3. \/ /\ told' = told
         /\ v = [u EXCEPT !.i = @ + 1, !.kind = "caller"]
         /\ y.pending = x.pending \cup {<<u.i + 1, 1>>} /\ y.durable = x.durable /\ y.noted = x.noted
      \/ /\ v = u /\ told' = told
         /\ y.pending = {} /\ y.durable = x.durable \cup x.pending
      \/ /\ v = [u EXCEPT !.swallowed = FALSE] /\ told' = told \ x.pending
         /\ y.pending = {} /\ y.durable = x.durable
    BY <1>1, Calling
<1>4. u.i \in Nat /\ u \in UnitState
    BY <1>1, Before
<1> HIDE DEF x, y, u, v
<1>5. \A w \in told : w[1] <= u.i /\ w[1] \in Nat /\ w # <<u.i + 1, 1>>
    BY <1>1, <1>4 DEF Kept
<1>6. CASE /\ told' = told
           /\ v = [u EXCEPT !.i = @ + 1, !.kind = "caller"]
           /\ y.pending = x.pending \cup {<<u.i + 1, 1>>} /\ y.durable = x.durable /\ y.noted = x.noted
  <2>1. v.pc = "idle" /\ v.kind = "caller" /\ v.i = u.i + 1
      BY <1>2, <1>4, <1>6 DEF UnitState
  <2>2. \A w \in told : w[1] <= v.i
      BY <1>4, <1>5, <2>1
  <2>3. Written(y, v)
      BY <2>1 DEF Written
  <2>4. Kept(y, v, told)
      BY <1>1, <1>2, <1>5, <1>6, <2>1, <2>2 DEF Kept
  <2> QED BY <1>6, <2>3, <2>4 DEF v, y, u, x
<1>7. CASE /\ v = u \/ v = [u EXCEPT !.swallowed = FALSE]
           /\ y.pending = {} /\ told' \subseteq y.durable /\ told' \subseteq told
  <2>1. v.pc = "idle" /\ v.kind = u.kind /\ v.i = u.i
      BY <1>2, <1>4, <1>7 DEF UnitState
  <2>2. Written(y, v)
      BY <2>1 DEF Written
  <2>3. Kept(y, v, told')
      BY <1>1, <1>2, <1>5, <1>7, <2>1 DEF Kept
  <2> QED BY <2>2, <2>3 DEF v, y, u, x
<1>8. told \subseteq x.durable \cup x.pending
    BY <1>1 DEF Kept
<1> QED BY <1>3, <1>6, <1>7, <1>8

\* Every step keeps what was reported.
LEMMA KeptStep ==
    ASSUME SessionAssumption, SettledKinds, KeptInv, [Next]_vars
    PROVE  KeptInv'
<1>1. SessionInv'
    BY SessionStep DEF KeptInv
<1>2. Written(s', unit') /\ Kept(s', unit', told')
  <2>1. CASE UNCHANGED vars
      BY <2>1 DEF vars, KeptInv
  <2> QED BY <2>1, StartKept, PrepareKept, SettlingFailsKept, BeginKept, RunKept, StatementFailsKept, RanKept,
             RecordKept, CommitKept, CommitFailsKept, UndoKept, CallerKept DEF Next
<1> QED BY <1>1, <1>2 DEF KeptInv

\* Work reported as done is durable, or on a caller's connection still in the caller's
\* transaction: no later unit's rollback discards it, only the caller's own and a commit
\* of the caller's transaction that fails.  On a caller's connection this is claimed
\* where every unit settles its work.
THEOREM ReportedAlwaysStays ==
    ASSUME SessionAssumption, SettledKinds
    PROVE  Spec => []ReportedStays
<1>1. Init => KeptInv
  <2> SUFFICES ASSUME Init PROVE KeptInv
      OBVIOUS
  <2>1. SessionInv
      BY SessionStarts
  <2>2. told = {} /\ unit.pc = "idle" /\ unit.kind = "none"
      BY DEF Init
  <2>3. ~s.handle
      BY DEF Init
  <2> QED BY <2>1, <2>2, <2>3 DEF KeptInv, Written, Kept
<1>2. KeptInv /\ [Next]_vars => KeptInv'
    BY KeptStep
<1>3. KeptInv => ReportedStays
    BY DEF KeptInv, Kept, ReportedStays
<1> QED BY <1>1, <1>2, <1>3, PTL DEF Spec

-----------------------------------------------------------------------------
(* The configuration. *)

\* What an entry makes of the sources g, stage by stage.
NameIn(g) ==
  IF g.flag # "" THEN g.flag ELSE IF g.var # "" THEN g.var ELSE IF g.file = "ok" THEN g.branch ELSE ""
FileTypeIn(g, from) ==
  (IF g[from].type \in Configuration!Empty THEN g.root.type ELSE g[from].type) = "file"
BaseIn(g, from, k) == IF k = "database" /\ ~FileTypeIn(g, from) THEN "cwd" ELSE "folder"
BlockIn(g, from) ==
  IF g.file = "broken" THEN [k \in Configuration!Keys |-> Configuration!None]
  ELSE [k \in Configuration!Keys |-> Configuration!Source(from, g[from], BaseIn(g, from, k))[k]]
EffectiveIn(g, k) ==
  LET block == BlockIn(g, "prod")[k]
  IN  IF NameIn(g) = "prod" /\ block.v # "none" THEN block ELSE BlockIn(g, "root")[k]
AppliedIn(g) ==
  IF NameIn(g) = "prod" THEN Configuration!Merged(BlockIn(g, "root"), BlockIn(g, "prod")) ELSE BlockIn(g, "root")
VariablesIn(g) == Configuration!Source("os", g.os, "cwd")
ArgumentsIn(g) == Configuration!Source("arg", g.arg, "cwd")
OptionsIn(g, e) ==
  LET over == [ArgumentsIn(g) EXCEPT !["dir"] = Configuration!None]
      type == [v |-> Configuration!UrlType(over["url"]), from |-> "arg", base |-> "none"]
  IN  IF e = "cli" THEN [over EXCEPT !["type"] = type] ELSE over
EnvironIn(g) == Configuration!Merged(AppliedIn(g), VariablesIn(g))
MergedIn(g, e) == Configuration!Merged(EnvironIn(g), OptionsIn(g, e))
OnlineIn(g, e) == ~(g.offline /\ e = "cli")
ResolvedIn(g, e, x) ==
  IF ~OnlineIn(g, e) THEN x
  ELSE [x EXCEPT !.v = IF @ = "secretUrl" THEN "serverUrl" ELSE IF @ = "secret" THEN "abs" ELSE @]
ReadIn(g, e) == [k \in Configuration!Keys |-> ResolvedIn(g, e, MergedIn(g, e)[k])]
BuiltIn(g, e) ==
  LET d == ReadIn(g, e)
      default == [v |-> "default", from |-> "default", base |-> "cwd"]
  IN  [type |-> Configuration!TypeOf(d), schema |-> d["schema"],
       locator |-> IF Configuration!Given(d["url"]) THEN d["url"]
                   ELSE IF Configuration!Given(d["path"]) THEN d["path"] ELSE d["database"],
       dir |-> IF Configuration!Given(d["dir"]) THEN d["dir"] ELSE default, dirs |-> d["dirs"]]
OverlaidIn(g, e) ==
  LET c == BuiltIn(g, e)
      url == ResolvedIn(g, e, ArgumentsIn(g)["url"])
  IN  IF ~Configuration!Given(url) THEN c
      ELSE [c EXCEPT !.locator = url,
                     !.type = IF Configuration!UrlType(url) # "none" THEN Configuration!UrlType(url) ELSE @]
AnchoredIn(g, e) ==
  LET c == BuiltIn(g, e)
      path(x) == IF x.v \in Configuration!Relative THEN [x EXCEPT !.base = "folder"] ELSE x
  IN  [c EXCEPT !.dir = path(@), !.dirs = path(@), !.locator = IF c.type = "file" THEN path(@) ELSE @]
OverriddenIn(g, e) ==
  IF e = "cli"
  THEN [OverlaidIn(g, e) EXCEPT
          !.schema = IF Configuration!Given(ArgumentsIn(g)["schema"]) THEN ArgumentsIn(g)["schema"] ELSE @]
  ELSE IF e = "anchored" THEN AnchoredIn(g, e) ELSE BuiltIn(g, e)
ConfiguredIn(g, e) ==
  LET c == OverriddenIn(g, e) IN IF c.dirs.v \in Configuration!Unlisted THEN c.dir ELSE c.dirs
DirectoriesIn(g, e) ==
  LET arg == ArgumentsIn(g)["dir"]
      c == ConfiguredIn(g, e)
  IN  IF Configuration!Given(arg) THEN arg
      ELSE IF e = "cli" /\ c.v \in Configuration!Relative THEN [c EXCEPT !.base = "folder"]
      ELSE c

\* Why an entry refuses them, stage by stage.
NotLoaded(g, e) == (g.file = "ok" /\ g.target = "") \/ (g.file = "broken" /\ e = "cli")
NoEnvironment(g) == NameIn(g) \notin {"", "prod"} \/ (NameIn(g) = "prod" /\ g.file = "broken")
NoFilePaths(g) ==
  \/ EffectiveIn(g, "dirs").v \in Configuration!UnusableLists
  \/ EffectiveIn(g, "dirs").v \in Configuration!Unlisted /\ EffectiveIn(g, "dir").v \in Configuration!Unusable
EmptyLocator(g, e) ==
  LET d == MergedIn(g, e)
      type == IF Configuration!Given(d["type"]) THEN d["type"] ELSE EffectiveIn(g, "type")
      inherited(k) == NameIn(g) = "prod" /\ Configuration!Given(BlockIn(g, "root")[k]) /\ d[k] = BlockIn(g, "root")[k]
  IN  /\ type.v = "file"
      /\ \E k \in Configuration!Locators :
           EffectiveIn(g, k).v = ""
             /\ ((\A l \in Configuration!Locators : ~Configuration!Given(d[l])) \/ inherited(k))
SecretsIn(g, e) == OnlineIn(g, e) /\ \E k \in Configuration!Keys : MergedIn(g, e)[k].v \in {"secretUrl", "secret"}
NotBuilt(g, e) ==
  LET d == ReadIn(g, e)
  IN  \/ SecretsIn(g, e) /\ ~g.secrets
      \/ Configuration!UnusableLocator(d) \/ Configuration!Incomplete(d) \/ Configuration!Untyped(d)
      \/ Configuration!UnusableDirectory(d)
NoDirectory(g) == ArgumentsIn(g)["dir"].v = ""

Refused(g, e) ==
  \/ NotLoaded(g, e) \/ NoEnvironment(g) \/ NoFilePaths(g) \/ EmptyLocator(g, e)
  \/ NotBuilt(g, e) \/ NoDirectory(g)
Answer(g, e) ==
  IF Refused(g, e) THEN [Configuration!Unread EXCEPT !.state = "refused"]
  ELSE LET c == OverriddenIn(g, e)
       IN  [state |-> "done", type |-> c.type, locator |-> c.locator, schema |-> c.schema,
            dirs |-> DirectoriesIn(g, e)]

\* An entry that is through has its answer, the one that is at work what its stage makes of
\* the sources.
Past(stages) == entry # "none" /\ stage \notin stages
AnswersAreMade ==
  /\ given \in Inputs /\ outcome = [e \in Entries |-> outcome[e]] /\ entry \in Entries \cup {"none"}
  /\ \A e \in Entries : outcome[e].state # "open" => outcome[e] = Answer(given, e)
  /\ stage \in {"load", "select", "check", "apply", "environ", "args", "locator", "build", "override", "dirs"}
  /\ Past({"load"}) => ~NotLoaded(given, entry)
  /\ Past({"load", "select"}) => ~NoEnvironment(given) /\ env = NameIn(given)
  /\ Past({"load", "select", "check"}) => ~NoFilePaths(given)
  /\ entry # "none" /\ stage = "environ" => data = AppliedIn(given)
  /\ entry # "none" /\ stage = "args" => data = EnvironIn(given)
  /\ entry # "none" /\ stage \in {"locator", "build"} => data = MergedIn(given, entry)
  /\ entry # "none" /\ stage \in {"build", "override", "dirs"} => ~EmptyLocator(given, entry)
  /\ entry # "none" /\ stage \in {"override", "dirs"} => ~NotBuilt(given, entry)
  /\ entry # "none" /\ stage = "override" => config = BuiltIn(given, entry)
  /\ entry # "none" /\ stage = "dirs" => config = OverriddenIn(given, entry)

\* Nothing was answered yet.
LEMMA FirstStage == Configuration!Init => AnswersAreMade
<1> SUFFICES ASSUME Configuration!Init PROVE AnswersAreMade
  OBVIOUS
<1>1. outcome = [e \in Entries |-> Configuration!Unread] /\ stage = "load" /\ given \in Inputs
  BY DEF Configuration!Init
<1>2. entry \in Entries \cup {"none"}
  BY DEF Configuration!Init, Configuration!First
<1>3. \A e \in Entries : outcome[e].state = "open"
  BY <1>1 DEF Configuration!Unread
<1> QED
  BY <1>1, <1>2, <1>3 DEF AnswersAreMade, Past

\* Ending with the answer keeps the answers.
LEMMA EndKeeps ==
  ASSUME AnswersAreMade, entry # "none", NEW answer, answer = Answer(given, entry), Configuration!Ends(answer)
  PROVE  AnswersAreMade'
<1>1. given' = given /\ stage' = "load" /\ outcome' = [outcome EXCEPT ![entry] = answer]
  BY DEF Configuration!Ends
<1>2. outcome' = [e \in Entries |-> outcome'[e]]
  BY <1>1 DEF AnswersAreMade
<1>3. entry' \in Entries \cup {"none"}
  BY DEF Configuration!Ends, Configuration!First
<1>4. \A e \in Entries : outcome'[e].state # "open" => outcome'[e] = Answer(given', e)
  BY <1>1 DEF AnswersAreMade
<1> QED
  BY <1>1, <1>2, <1>3, <1>4 DEF AnswersAreMade, Past

\* A refusal is the answer when the stage refuses the sources.
LEMMA RefusalKeeps ==
  ASSUME AnswersAreMade, entry # "none", Refused(given, entry), Configuration!Refuse
  PROVE  AnswersAreMade'
  BY EndKeeps DEF Configuration!Refuse, Answer

\* The operators of the stages, for the sources and the entry of the state.
LEMMA Readings ==
  /\ \A from \in {"root", "prod"} : Configuration!File(from) = BlockIn(given, from)
  /\ env = NameIn(given) => \A k : Configuration!Effective(k) = EffectiveIn(given, k)
  BY DEF Configuration!File, Configuration!FileType, FileTypeIn, BaseIn, BlockIn, Configuration!Effective, EffectiveIn

\* One lemma per stage: it passes on what it makes of the sources, or refuses them.
LEMMA LoadKeeps == ASSUME AnswersAreMade, Configuration!LoadFile PROVE AnswersAreMade'
<1> USE DEF Configuration!LoadFile, Configuration!At
<1>1. CASE NotLoaded(given, entry)
  BY <1>1, RefusalKeeps DEF NotLoaded, Refused
<1>2. CASE ~NotLoaded(given, entry)
  BY <1>2 DEF NotLoaded, AnswersAreMade, Past, Configuration!Goto, Configuration!Keep
<1> QED
  BY <1>1, <1>2

\* SelectEnvironment.
LEMMA SelectKeeps == ASSUME AnswersAreMade, Configuration!SelectEnvironment PROVE AnswersAreMade'
<1> USE DEF Configuration!SelectEnvironment, Configuration!At
<1>1. CASE NoEnvironment(given)
  BY <1>1, RefusalKeeps DEF NoEnvironment, NameIn, Refused
<1>2. CASE ~NoEnvironment(given)
  <2>1. env' = NameIn(given) /\ UNCHANGED <<data, config>> /\ Configuration!Goto("check")
    BY <1>2 DEF NoEnvironment, NameIn
  <2> QED
    BY <1>2, <2>1 DEF AnswersAreMade, Past, Configuration!Goto
<1> QED
  BY <1>1, <1>2

\* RefuseFilePaths.
LEMMA CheckKeeps == ASSUME AnswersAreMade, Configuration!RefuseFilePaths PROVE AnswersAreMade'
<1> USE DEF Configuration!RefuseFilePaths, Configuration!At
<1>0. env = NameIn(given)
  BY DEF AnswersAreMade, Past
<1>1. CASE NoFilePaths(given)
  BY <1>0, <1>1, Readings, RefusalKeeps DEF NoFilePaths, Refused
<1>2. CASE ~NoFilePaths(given)
  <2>1. Configuration!Goto("apply") /\ Configuration!Keep
    BY <1>0, <1>2, Readings DEF NoFilePaths
  <2> QED
    BY <1>2, <2>1 DEF AnswersAreMade, Past, Configuration!Goto, Configuration!Keep
<1> QED
  BY <1>1, <1>2

\* ApplyEnvironment.
LEMMA ApplyKeeps == ASSUME AnswersAreMade, Configuration!ApplyEnvironment PROVE AnswersAreMade'
<1> USE DEF Configuration!ApplyEnvironment, Configuration!At
<1>0. env = NameIn(given)
  BY DEF AnswersAreMade, Past
<1>1. data' = AppliedIn(given) /\ env' = env /\ Configuration!Goto("environ")
  BY <1>0, Readings DEF AppliedIn
<1> QED
  BY <1>1 DEF AnswersAreMade, Past, Configuration!Goto

\* MergeEnviron.
LEMMA EnvironKeeps == ASSUME AnswersAreMade, Configuration!MergeEnviron PROVE AnswersAreMade'
<1> USE DEF Configuration!MergeEnviron, Configuration!At
<1>1. data' = EnvironIn(given) /\ env' = env /\ Configuration!Goto("args")
  BY DEF AnswersAreMade, EnvironIn, VariablesIn
<1> QED
  BY <1>1 DEF AnswersAreMade, Past, Configuration!Goto

\* MergeArgs.
LEMMA ArgsKeeps == ASSUME AnswersAreMade, Configuration!MergeArgs PROVE AnswersAreMade'
<1> USE DEF Configuration!MergeArgs, Configuration!At
<1>1. data' = MergedIn(given, entry) /\ env' = env /\ Configuration!Goto("locator")
  BY DEF AnswersAreMade, MergedIn, OptionsIn, ArgumentsIn
<1> QED
  BY <1>1 DEF AnswersAreMade, Past, Configuration!Goto

\* RefuseEmptyLocator.
LEMMA LocatorKeeps == ASSUME AnswersAreMade, Configuration!RefuseEmptyLocator PROVE AnswersAreMade'
<1> USE DEF Configuration!At
<1>0. entry # "none" /\ env = NameIn(given) /\ data = MergedIn(given, entry)
  BY DEF AnswersAreMade, Past, Configuration!RefuseEmptyLocator
<1>1. IF EmptyLocator(given, entry) THEN Configuration!Refuse
      ELSE Configuration!Goto("build") /\ Configuration!Keep
  BY <1>0, Readings DEF EmptyLocator, Configuration!RefuseEmptyLocator
<1>2. CASE EmptyLocator(given, entry)
  BY <1>0, <1>1, <1>2, RefusalKeeps DEF Refused
<1>3. CASE ~EmptyLocator(given, entry)
  BY <1>0, <1>1, <1>3 DEF AnswersAreMade, Past, Configuration!Goto, Configuration!Keep, Configuration!RefuseEmptyLocator
<1> QED
  BY <1>2, <1>3

\* Build.
LEMMA BuildKeeps == ASSUME AnswersAreMade, Configuration!Build PROVE AnswersAreMade'
<1> USE DEF Configuration!At
<1>0. entry # "none" /\ data = MergedIn(given, entry)
  BY DEF AnswersAreMade, Configuration!Build
<1>1. /\ Configuration!Online = OnlineIn(given, entry)
      /\ \A x : Configuration!Resolved(x) = ResolvedIn(given, entry, x)
  BY DEF Configuration!Online, OnlineIn, Configuration!Resolved, ResolvedIn
<1>2. [k \in Configuration!Keys |-> Configuration!Resolved(data[k])] = ReadIn(given, entry)
  BY <1>0, <1>1 DEF ReadIn
<1>3. Configuration!Secrets(data) <=> SecretsIn(given, entry)
  BY <1>0, <1>1 DEF Configuration!Secrets, SecretsIn
<1>4. IF NotBuilt(given, entry) THEN Configuration!Refuse
      ELSE config' = BuiltIn(given, entry) /\ UNCHANGED <<env, data>> /\ Configuration!Goto("override")
  BY <1>2, <1>3 DEF Configuration!Build, NotBuilt, BuiltIn
<1>5. CASE NotBuilt(given, entry)
  BY <1>0, <1>4, <1>5, RefusalKeeps DEF Refused
<1>6. CASE ~NotBuilt(given, entry)
  BY <1>0, <1>4, <1>6 DEF AnswersAreMade, Past, Configuration!Goto, Configuration!Build
<1> QED
  BY <1>5, <1>6

\* Override.
LEMMA OverrideKeeps == ASSUME AnswersAreMade, Configuration!Override PROVE AnswersAreMade'
<1> USE DEF Configuration!At
<1>0. entry # "none" /\ config = BuiltIn(given, entry)
  BY DEF AnswersAreMade, Configuration!Override
<1>1. \A x : Configuration!Resolved(x) = ResolvedIn(given, entry, x)
  BY DEF Configuration!Online, OnlineIn, Configuration!Resolved, ResolvedIn
<1>2. Configuration!Overlaid(Configuration!Resolved(ArgumentsIn(given)["url"])) = OverlaidIn(given, entry)
  BY <1>0, <1>1 DEF Configuration!Overlaid, OverlaidIn
<1>3. Configuration!Anchored = AnchoredIn(given, entry)
  BY <1>0 DEF Configuration!Anchored, AnchoredIn
<1>4. config' = OverriddenIn(given, entry) /\ UNCHANGED <<env, data>> /\ Configuration!Goto("dirs")
  BY <1>0, <1>2, <1>3 DEF Configuration!Override, OverriddenIn, ArgumentsIn
<1> QED
  BY <1>0, <1>4 DEF AnswersAreMade, Past, Configuration!Goto, Configuration!Override

\* Directories.
LEMMA DirectoriesKeeps == ASSUME AnswersAreMade, Configuration!Directories PROVE AnswersAreMade'
<1> USE DEF Configuration!At
<1>0. /\ entry # "none" /\ config = OverriddenIn(given, entry)
      /\ ~NotLoaded(given, entry) /\ ~NoEnvironment(given) /\ ~NoFilePaths(given)
      /\ ~EmptyLocator(given, entry) /\ ~NotBuilt(given, entry)
  BY DEF AnswersAreMade, Past, Configuration!Directories
<1>1. Configuration!Configured = ConfiguredIn(given, entry)
  BY <1>0 DEF Configuration!Configured, ConfiguredIn
<1>2. IF NoDirectory(given) THEN Configuration!Refuse
      ELSE Configuration!Ends([state |-> "done", type |-> config.type, locator |-> config.locator,
                               schema |-> config.schema, dirs |-> DirectoriesIn(given, entry)])
  BY <1>1 DEF Configuration!Directories, DirectoriesIn, ArgumentsIn, NoDirectory
<1>3. CASE NoDirectory(given)
  BY <1>0, <1>2, <1>3, RefusalKeeps DEF Refused
<1>4. CASE ~NoDirectory(given)
  <2>1. ~Refused(given, entry)
    BY <1>0, <1>4 DEF Refused
  <2>2. [state |-> "done", type |-> config.type, locator |-> config.locator, schema |-> config.schema,
         dirs |-> DirectoriesIn(given, entry)] = Answer(given, entry)
    BY <1>0, <2>1 DEF Answer
  <2> QED
    BY <1>0, <1>2, <1>4, <2>2, EndKeeps
<1> QED
  BY <1>3, <1>4

\* All stages, and the other parts.
LEMMA AnswersKeep == AnswersAreMade /\ (Configuration!Next \/ UNCHANGED configVars) => AnswersAreMade'
<1>1. ASSUME AnswersAreMade, Configuration!Next PROVE AnswersAreMade'
  BY <1>1, LoadKeeps, SelectKeeps, CheckKeeps, ApplyKeeps, EnvironKeeps, ArgsKeeps, LocatorKeeps,
     BuildKeeps, OverrideKeeps, DirectoriesKeeps DEF Configuration!Next
<1>2. ASSUME AnswersAreMade, UNCHANGED configVars PROVE AnswersAreMade'
  BY <1>2 DEF AnswersAreMade, configVars, Past
<1> QED
  BY <1>1, <1>2
-----------------------------------------------------------------------------
\* What a source says of a key: its value, who gives it and where its relative paths start.
Reading(x) == x = [v |-> x.v, from |-> x.from, base |-> x.base]
Reads(x, from, kinds, base) ==
  /\ Reading(x) /\ x.v \in kinds /\ (x.v # "none" => x.from = from)
  /\ (x.v \in Configuration!Relative => x.base = base)
KindsOf(k) ==
  IF k = "type" THEN Configuration!Types
  ELSE IF k = "url" THEN Configuration!Urls
  ELSE IF k = "schema" THEN Configuration!Schemas
  ELSE IF k = "dirs" THEN Configuration!Paths \cup {"[]", "[empty]"}
  ELSE Configuration!Paths

\* What a source says of a key is one of its values, with the base of the source if it is relative.
LEMMA SourceReads ==
  ASSUME NEW from, NEW raw, NEW base, NEW k \in Configuration!Keys, NEW kinds,
         "none" \in kinds, k \in DOMAIN raw => raw[k] \in kinds
  PROVE  Reads(Configuration!Source(from, raw, base)[k], from, kinds, base)
<1> DEFINE x == Configuration!Source(from, raw, base)[k]
<1>1. CASE k \notin DOMAIN raw \/ raw[k] = "none"
  <2>1. x = [v |-> "none", from |-> "default", base |-> "none"]
    BY <1>1 DEF Configuration!Source, Configuration!None
  <2> QED
    BY <2>1 DEF Reads, Reading, Configuration!Relative
<1>2. CASE ~(k \notin DOMAIN raw \/ raw[k] = "none")
  <2>1. x = [v |-> raw[k], from |-> from, base |-> IF raw[k] \in Configuration!Relative THEN base ELSE "none"]
    BY <1>2 DEF Configuration!Source
  <2> QED
    BY <1>2, <2>1 DEF Reads, Reading
<1> QED
  BY <1>1, <1>2

\* The same of the sections of the file.
LEMMA BlockReads ==
  ASSUME NEW g \in Configuration!Sources, NEW from \in {"root", "prod"}, NEW k \in Configuration!Keys
  PROVE  Reads(BlockIn(g, from)[k], from, KindsOf(k), BaseIn(g, from, k))
<1>0. "none" \in KindsOf(k)
  BY DEF KindsOf, Configuration!Keys, Configuration!Types, Configuration!Urls, Configuration!Paths, Configuration!Schemas
<1>1. g[from] \in Configuration!Sections
  BY DEF Configuration!Sources
<1>2. g[from][k] \in KindsOf(k)
  BY <1>1 DEF Configuration!Sections, KindsOf, Configuration!Keys
<1>3. CASE g.file = "broken"
  BY <1>0, <1>3 DEF BlockIn, Reads, Reading, Configuration!None, Configuration!Relative
<1>4. CASE g.file # "broken"
  <2>1. BlockIn(g, from)[k] = Configuration!Source(from, g[from], BaseIn(g, from, k))[k]
    BY <1>4 DEF BlockIn
  <2> QED
    BY <1>0, <1>2, <2>1, SourceReads
<1> QED
  BY <1>3, <1>4

\* And of the variables, which give neither a path nor directories.
LEMMA VariablesRead ==
  ASSUME NEW g \in Configuration!Sources, NEW k \in Configuration!Keys
  PROVE  /\ Reads(VariablesIn(g)[k], "os", KindsOf(k), "cwd")
         /\ k \in {"path", "dir", "dirs"} => VariablesIn(g)[k] = Configuration!None
<1>0. "none" \in KindsOf(k)
  BY DEF KindsOf, Configuration!Keys, Configuration!Types, Configuration!Urls, Configuration!Paths, Configuration!Schemas
<1>1. g.os \in [type : Configuration!Types, url : Configuration!Urls, database : Configuration!Paths, schema : Configuration!Schemas]
  BY DEF Configuration!Sources
<1>2. k \in DOMAIN g.os => g.os[k] \in KindsOf(k)
  BY <1>1 DEF KindsOf, Configuration!Keys
<1>3. k \in {"path", "dir", "dirs"} => VariablesIn(g)[k] = Configuration!None
  BY <1>1 DEF VariablesIn, Configuration!Source
<1> QED
  BY <1>0, <1>2, <1>3, SourceReads DEF VariablesIn

\* And of the options.
LEMMA ArgumentsRead ==
  ASSUME NEW g \in Configuration!Sources, NEW k \in Configuration!Keys
  PROVE  /\ Reads(ArgumentsIn(g)[k], "arg", KindsOf(k), "cwd")
         /\ k \in {"type", "path", "database", "dirs"} => ArgumentsIn(g)[k] = Configuration!None
         /\ ArgumentsIn(g)["dir"].v \in {"none", "", "rel", "abs"}
<1>0. "none" \in KindsOf(k)
  BY DEF KindsOf, Configuration!Keys, Configuration!Types, Configuration!Urls, Configuration!Paths, Configuration!Schemas
<1>1. g.arg \in [url : Configuration!Urls, schema : Configuration!Schemas, dir : {"none", "", "rel", "abs"}]
  BY DEF Configuration!Sources
<1>2. k \in DOMAIN g.arg => g.arg[k] \in KindsOf(k)
  <2>1. DOMAIN g.arg = {"url", "schema", "dir"} /\ g.arg.url \in Configuration!Urls
        /\ g.arg.schema \in Configuration!Schemas /\ g.arg.dir \in {"none", "", "rel", "abs"}
    BY <1>1
  <2> QED
    BY <2>1 DEF KindsOf, Configuration!Keys, Configuration!Paths
<1>3. k \in {"type", "path", "database", "dirs"} => ArgumentsIn(g)[k] = Configuration!None
  BY <1>1 DEF ArgumentsIn, Configuration!Source
<1>4. ArgumentsIn(g)["dir"].v \in {"none", "", "rel", "abs"}
  BY <1>1 DEF ArgumentsIn, Configuration!Source, Configuration!None, Configuration!Keys
<1> QED
  BY <1>0, <1>2, <1>3, <1>4, SourceReads DEF ArgumentsIn

\* What the command line and the API make of the options.
LEMMA OptionsRead ==
  ASSUME NEW g \in Configuration!Sources, NEW e
  PROVE  /\ \A k \in {"path", "database", "dir", "dirs"} : OptionsIn(g, e)[k] = Configuration!None
         /\ \A k \in {"url", "schema"} : OptionsIn(g, e)[k] = ArgumentsIn(g)[k]
         /\ OptionsIn(g, e)["type"].v \in {"none", "file", "server"} /\ Reading(OptionsIn(g, e)["type"])
         /\ Configuration!Given(OptionsIn(g, e)["type"])
              => e = "cli" /\ OptionsIn(g, e)["type"].v = Configuration!UrlType(ArgumentsIn(g)["url"])
<1>1. ArgumentsIn(g) = [k \in Configuration!Keys |-> ArgumentsIn(g)[k]]
  BY DEF ArgumentsIn, Configuration!Source
<1>2. \A k \in {"type", "path", "database", "dirs"} : ArgumentsIn(g)[k] = Configuration!None
  BY ArgumentsRead DEF Configuration!Keys
<1> DEFINE over == [ArgumentsIn(g) EXCEPT !["dir"] = Configuration!None]
           type == [v |-> Configuration!UrlType(over["url"]), from |-> "arg", base |-> "none"]
<1>3. /\ over = [k \in Configuration!Keys |-> over[k]]
      /\ \A k \in {"type", "path", "database", "dir", "dirs"} : over[k] = Configuration!None
      /\ \A k \in {"url", "schema"} : over[k] = ArgumentsIn(g)[k]
  BY <1>1, <1>2 DEF Configuration!Keys
<1>4. OptionsIn(g, e) = IF e = "cli" THEN [over EXCEPT !["type"] = type] ELSE over
  BY DEF OptionsIn
<1> HIDE DEF over
<1>5. OptionsIn(g, e)["type"] = IF e = "cli" THEN type ELSE Configuration!None
  BY <1>3, <1>4 DEF Configuration!Keys
<1>6. \A k \in Configuration!Keys \ {"type"} : OptionsIn(g, e)[k] = over[k]
  BY <1>3, <1>4
<1>7. type.v = Configuration!UrlType(ArgumentsIn(g)["url"]) /\ type.v \in {"none", "file", "server"} /\ Reading(type)
  BY <1>3 DEF Configuration!UrlType, Reading
<1>8. Reading(Configuration!None) /\ Configuration!None.v = "none" /\ ~Configuration!Given(Configuration!None)
  BY DEF Configuration!None, Reading, Configuration!Given, Configuration!Empty
<1> HIDE DEF type
<1> QED
  BY <1>3, <1>5, <1>6, <1>7, <1>8 DEF Configuration!Keys

\* Only the command line infers a type, and only of a URL that its options give.
LEMMA InferredType ==
  ASSUME NEW g \in Configuration!Sources, NEW e, ~Configuration!Given(ArgumentsIn(g)["url"])
  PROVE  ~Configuration!Given(OptionsIn(g, e)["type"])
<1>1. Configuration!Given(OptionsIn(g, e)["type"])
        => OptionsIn(g, e)["type"].v = Configuration!UrlType(ArgumentsIn(g)["url"])
  BY OptionsRead
<1>2. Configuration!UrlType(ArgumentsIn(g)["url"]) = "none"
  BY DEF Configuration!UrlType, Configuration!Given, Configuration!Empty
<1> QED
  BY <1>1, <1>2 DEF Configuration!Given, Configuration!Empty

\* Of several values the strongest that is given is merged.
LEMMA MergedIs ==
  ASSUME NEW g \in Configuration!Sources, NEW e, NEW k \in Configuration!Keys
  PROVE  MergedIn(g, e)[k] =
           IF Configuration!Given(OptionsIn(g, e)[k]) THEN OptionsIn(g, e)[k]
           ELSE IF Configuration!Given(VariablesIn(g)[k]) THEN VariablesIn(g)[k]
           ELSE IF NameIn(g) = "prod" /\ Configuration!Given(BlockIn(g, "prod")[k]) THEN BlockIn(g, "prod")[k]
           ELSE BlockIn(g, "root")[k]
  BY DEF MergedIn, EnvironIn, AppliedIn, Configuration!Merged

\* Merged values are of the kind their key has.
LEMMA MergedReads ==
  ASSUME NEW g \in Configuration!Sources, NEW e, NEW k \in Configuration!Keys
  PROVE  Reading(MergedIn(g, e)[k]) /\ MergedIn(g, e)[k].v \in KindsOf(k)
<1>1. Reading(OptionsIn(g, e)[k]) /\ OptionsIn(g, e)[k].v \in KindsOf(k)
  <2>0. /\ \A j \in {"path", "database", "dir", "dirs"} : OptionsIn(g, e)[j] = Configuration!None
        /\ \A j \in {"url", "schema"} : OptionsIn(g, e)[j] = ArgumentsIn(g)[j]
        /\ OptionsIn(g, e)["type"].v \in {"none", "file", "server"} /\ Reading(OptionsIn(g, e)["type"])
    BY OptionsRead
  <2>1. CASE k = "type"
    BY <2>0, <2>1 DEF KindsOf, Configuration!Types
  <2>2. CASE k \in {"path", "database", "dir", "dirs"}
    <3>1. OptionsIn(g, e)[k] = Configuration!None
      BY <2>0, <2>2
    <3> QED
      BY <2>2, <3>1 DEF KindsOf, Reading, Configuration!None, Configuration!Paths
  <2>3. CASE k \in {"url", "schema"}
    <3>1. OptionsIn(g, e)[k] = ArgumentsIn(g)[k]
      BY <2>0, <2>3
    <3> QED
      BY <3>1, ArgumentsRead DEF Reads
  <2> QED
    BY <2>1, <2>2, <2>3 DEF Configuration!Keys
<1> QED
  BY <1>1, MergedIs, VariablesRead, BlockReads DEF Reads

\* Resolving a secret changes what is read and not who gives it or where it starts.
LEMMA ResolvedIs ==
  ASSUME NEW g, NEW e, NEW x, Reading(x)
  PROVE  /\ Reading(ResolvedIn(g, e, x))
         /\ ResolvedIn(g, e, x).from = x.from /\ ResolvedIn(g, e, x).base = x.base
         /\ ResolvedIn(g, e, x).v =
              IF OnlineIn(g, e) /\ x.v = "secretUrl" THEN "serverUrl"
              ELSE IF OnlineIn(g, e) /\ x.v = "secret" THEN "abs" ELSE x.v
  BY DEF ResolvedIn, Reading

\* A value with its secrets resolved has the source and the base it had before.
LEMMA ReadIs ==
  ASSUME NEW g \in Configuration!Sources, NEW e, NEW k \in Configuration!Keys
  PROVE  LET d == ReadIn(g, e)[k]
             x == MergedIn(g, e)[k]
         IN  /\ Reading(d) /\ d = ResolvedIn(g, e, x) /\ d.from = x.from /\ d.base = x.base
             /\ d.v \in KindsOf(k) /\ (d.v = x.v \/ <<x.v, d.v>> \in {<<"secretUrl", "serverUrl">>, <<"secret", "abs">>})
             /\ OnlineIn(g, e) => d.v \notin {"secret", "secretUrl"}
<1>1. Reading(MergedIn(g, e)[k]) /\ MergedIn(g, e)[k].v \in KindsOf(k)
  BY MergedReads
<1>2. ReadIn(g, e)[k] = ResolvedIn(g, e, MergedIn(g, e)[k])
  BY DEF ReadIn
<1>3. ("secretUrl" \in KindsOf(k) => "serverUrl" \in KindsOf(k)) /\ ("secret" \in KindsOf(k) => "abs" \in KindsOf(k))
  BY DEF KindsOf, Configuration!Types, Configuration!Urls, Configuration!Schemas, Configuration!Paths
<1>4. /\ Reading(ReadIn(g, e)[k]) /\ ReadIn(g, e)[k].from = MergedIn(g, e)[k].from
      /\ ReadIn(g, e)[k].base = MergedIn(g, e)[k].base
      /\ ReadIn(g, e)[k].v =
              IF OnlineIn(g, e) /\ MergedIn(g, e)[k].v = "secretUrl" THEN "serverUrl"
              ELSE IF OnlineIn(g, e) /\ MergedIn(g, e)[k].v = "secret" THEN "abs" ELSE MergedIn(g, e)[k].v
  BY <1>1, <1>2, ResolvedIs
<1> QED
  BY <1>1, <1>2, <1>3, <1>4

\* What is given stays given.
LEMMA GivenIs ==
  ASSUME NEW g \in Configuration!Sources, NEW e, NEW k \in Configuration!Keys
  PROVE  Configuration!Given(ReadIn(g, e)[k]) <=> Configuration!Given(MergedIn(g, e)[k])
<1> DEFINE d == ReadIn(g, e)[k]
           x == MergedIn(g, e)[k]
<1>1. d.v = x.v \/ <<x.v, d.v>> \in {<<"secretUrl", "serverUrl">>, <<"secret", "abs">>}
  BY ReadIs
<1> HIDE DEF d, x
<1> QED
  BY <1>1 DEF d, x, Configuration!Given, Configuration!Empty

\* The fields of a configuration that is built, one by one.
LEMMA BuiltIs ==
  ASSUME NEW g \in Configuration!Sources, NEW e
  PROVE  LET b == BuiltIn(g, e)
             d == ReadIn(g, e)
         IN  /\ b = [type |-> b.type, schema |-> b.schema, locator |-> b.locator, dir |-> b.dir, dirs |-> b.dirs]
             /\ b.type = Configuration!TypeOf(d) /\ b.schema = d["schema"] /\ b.dirs = d["dirs"]
             /\ b.locator = (IF Configuration!Given(d["url"]) THEN d["url"]
                             ELSE IF Configuration!Given(d["path"]) THEN d["path"] ELSE d["database"])
             /\ b.dir = (IF Configuration!Given(d["dir"]) THEN d["dir"]
                         ELSE [v |-> "default", from |-> "default", base |-> "cwd"])
             /\ Reading(b.locator) /\ Reading(b.dir) /\ Reading(b.dirs) /\ Reading(b.schema)
<1>1. /\ Reading(ReadIn(g, e)["url"]) /\ Reading(ReadIn(g, e)["path"]) /\ Reading(ReadIn(g, e)["database"])
      /\ Reading(ReadIn(g, e)["dir"])
      /\ Reading(ReadIn(g, e)["dirs"]) /\ Reading(ReadIn(g, e)["schema"])
  BY ReadIs DEF Configuration!Keys
<1>2. Reading([v |-> "default", from |-> "default", base |-> "cwd"])
  BY DEF Reading
<1> HIDE DEF Reading
<1> QED
  BY <1>1, <1>2 DEF BuiltIn

\* What the command line lays over a configuration is what it was made of.
LEMMA OverlaidIs ==
  ASSUME NEW g \in Configuration!Sources
  PROVE  LET b == BuiltIn(g, "cli")
             c == OverlaidIn(g, "cli")
             url == ResolvedIn(g, "cli", ArgumentsIn(g)["url"])
         IN  c = [b EXCEPT !.type = IF Configuration!Given(ArgumentsIn(g)["url"]) /\ Configuration!UrlType(url) # "none"
                                    THEN Configuration!UrlType(url) ELSE b.type]
<1> DEFINE b == BuiltIn(g, "cli")
           a == ArgumentsIn(g)["url"]
           url == ResolvedIn(g, "cli", a)
<1>1. Reading(a)
  BY ArgumentsRead DEF Reads, Configuration!Keys
<1>2. Configuration!Given(a) <=> Configuration!Given(url)
  <2>1. url.v = IF OnlineIn(g, "cli") /\ a.v = "secretUrl" THEN "serverUrl"
                ELSE IF OnlineIn(g, "cli") /\ a.v = "secret" THEN "abs" ELSE a.v
    BY <1>1, ResolvedIs
  <2> QED
    BY <2>1 DEF Configuration!Given, Configuration!Empty
<1>3. Configuration!Given(a) => b.locator = url
  <2>1. Configuration!Given(a) => MergedIn(g, "cli")["url"] = a
    BY MergedIs, OptionsRead DEF Configuration!Keys
  <2>2. ReadIn(g, "cli")["url"] = ResolvedIn(g, "cli", MergedIn(g, "cli")["url"])
    BY DEF ReadIn, Configuration!Keys
  <2> QED
    BY <2>1, <2>2, <1>2, BuiltIs
<1>4. b = [type |-> b.type, schema |-> b.schema, locator |-> b.locator, dir |-> b.dir, dirs |-> b.dirs]
  BY BuiltIs
<1>5. OverlaidIn(g, "cli") =
        IF ~Configuration!Given(url) THEN b
        ELSE [b EXCEPT !.locator = url,
                       !.type = IF Configuration!UrlType(url) # "none" THEN Configuration!UrlType(url) ELSE b.type]
  BY <1>4 DEF OverlaidIn
<1> HIDE DEF b, a, url
<1> QED
  BY <1>2, <1>3, <1>4, <1>5 DEF b, a, url

\* What an entry ends with: its locator and its schema are those that were merged, but for
\* secrets and relative_to_config's folder.
LEMMA OverriddenIs ==
  ASSUME NEW g \in Configuration!Sources, NEW e \in {"cli", "api", "anchored"}
  PROVE  LET b == BuiltIn(g, e)
             c == OverriddenIn(g, e)
             path(x) == IF x.v \in Configuration!Relative THEN [x EXCEPT !.base = "folder"] ELSE x
         IN  /\ c.locator = (IF e = "anchored" /\ b.type = "file" THEN path(b.locator) ELSE b.locator)
             /\ c.schema = b.schema
             /\ c.dir = (IF e = "anchored" THEN path(b.dir) ELSE b.dir)
             /\ c.dirs = (IF e = "anchored" THEN path(b.dirs) ELSE b.dirs)
             /\ c.type = (IF e = "cli" THEN OverlaidIn(g, "cli").type ELSE b.type)
<1> DEFINE b == BuiltIn(g, e)
           c == OverriddenIn(g, e)
           path(x) == IF x.v \in Configuration!Relative THEN [x EXCEPT !.base = "folder"] ELSE x
<1>0. b = [type |-> b.type, schema |-> b.schema, locator |-> b.locator, dir |-> b.dir, dirs |-> b.dirs]
  BY BuiltIs
<1>1. CASE e = "cli"
  <2> DEFINE a == ArgumentsIn(g)["schema"]
             o == OverlaidIn(g, "cli")
  <2>1. Configuration!Given(a) => b.schema = a
    <3>1. Configuration!Given(a) => MergedIn(g, e)["schema"] = a
      BY MergedIs, OptionsRead DEF Configuration!Keys
    <3>2. Reading(a) /\ a.v \in Configuration!Schemas
      BY ArgumentsRead DEF Reads, KindsOf, Configuration!Keys
    <3>3. ResolvedIn(g, e, a) = a
      BY <3>2 DEF ResolvedIn, Reading, Configuration!Schemas
    <3>4. b.schema = ResolvedIn(g, e, MergedIn(g, e)["schema"])
      BY BuiltIs DEF ReadIn, Configuration!Keys
    <3> QED
      BY <3>1, <3>3, <3>4
  <2>2. /\ o = [type |-> o.type, schema |-> b.schema, locator |-> b.locator, dir |-> b.dir, dirs |-> b.dirs]
    BY <1>0, <1>1, OverlaidIs
  <2>3. c = [o EXCEPT !.schema = IF Configuration!Given(a) THEN a ELSE o.schema]
    BY <1>1, <2>2 DEF OverriddenIn
  <2> HIDE DEF b, c, a, o
  <2>4. c.locator = b.locator /\ c.schema = b.schema /\ c.dir = b.dir /\ c.dirs = b.dirs /\ c.type = o.type
    BY <2>1, <2>2, <2>3
  <2> QED
    BY <1>1, <2>4 DEF b, c, o
<1>2. CASE e = "anchored"
  <2>1. c = [b EXCEPT !.dir = path(b.dir), !.dirs = path(b.dirs),
                      !.locator = IF b.type = "file" THEN path(b.locator) ELSE b.locator]
    BY <1>0, <1>2 DEF OverriddenIn, AnchoredIn
  <2> HIDE DEF b, c, path
  <2>2. /\ c.locator = (IF b.type = "file" THEN path(b.locator) ELSE b.locator)
        /\ c.dir = path(b.dir) /\ c.dirs = path(b.dirs) /\ c.schema = b.schema /\ c.type = b.type
    BY <1>0, <2>1
  <2> QED
    BY <1>2, <2>2 DEF b, c, path
<1>3. CASE e = "api"
  BY <1>3 DEF OverriddenIn
<1> QED
  BY <1>1, <1>2, <1>3

\* Anchoring a path changes where it starts.
LEMMA AnchoredIs ==
  ASSUME NEW x, Reading(x)
  PROVE  LET y == IF x.v \in Configuration!Relative THEN [x EXCEPT !.base = "folder"] ELSE x
         IN  /\ Reading(y) /\ y.v = x.v /\ y.from = x.from
             /\ y.base = IF x.v \in Configuration!Relative THEN "folder" ELSE x.base
  BY DEF Reading

\* The key the database is found by: a URL, else a path, else a "database".
KeyIn(g, e) ==
  IF Configuration!Given(MergedIn(g, e)["url"]) THEN "url"
  ELSE IF Configuration!Given(MergedIn(g, e)["path"]) THEN "path" ELSE "database"

\* The database an entry finds is what the strongest source of that key says.
LEMMA LocatorIs ==
  ASSUME NEW g \in Configuration!Sources, NEW e \in {"cli", "api", "anchored"}, ~NotBuilt(g, e)
  PROVE  LET x == MergedIn(g, e)[KeyIn(g, e)]
             d == ReadIn(g, e)[KeyIn(g, e)]
             l == OverriddenIn(g, e).locator
         IN  /\ Configuration!Given(x) /\ l.from = x.from /\ l.v = d.v
             /\ l.base = x.base \/ (e = "anchored" /\ l.v \in Configuration!Relative /\ l.base = "folder")
<1> DEFINE b == BuiltIn(g, e)
           l == OverriddenIn(g, e).locator
           key == KeyIn(g, e)
<1>1. \A k \in Configuration!Keys : Configuration!Given(ReadIn(g, e)[k]) <=> Configuration!Given(MergedIn(g, e)[k])
  BY GivenIs
<1>2. ~Configuration!Incomplete(ReadIn(g, e)) /\ ~Configuration!Untyped(ReadIn(g, e))
  BY DEF NotBuilt
<1>3. Configuration!TypeOf(ReadIn(g, e)) \in {"none", "file", "server"}
  <2>1. ReadIn(g, e)["type"].v \in Configuration!Types
    BY ReadIs DEF KindsOf, Configuration!Keys
  <2> QED
    BY <2>1 DEF Configuration!TypeOf, Configuration!UrlType, Configuration!Types, Configuration!Given, Configuration!Empty
<1>4. ~Configuration!Given(ReadIn(g, e)["url"]) /\ ~Configuration!Given(ReadIn(g, e)["path"])
        => Configuration!Given(ReadIn(g, e)["database"])
  BY <1>2, <1>3 DEF Configuration!Incomplete, Configuration!Locators
<1>5. /\ Reading(b.locator)
      /\ b.locator = IF Configuration!Given(ReadIn(g, e)["url"]) THEN ReadIn(g, e)["url"]
                     ELSE IF Configuration!Given(ReadIn(g, e)["path"]) THEN ReadIn(g, e)["path"]
                     ELSE ReadIn(g, e)["database"]
  BY BuiltIs
<1>6. /\ l.v = b.locator.v /\ l.from = b.locator.from
      /\ l.base = b.locator.base \/ (e = "anchored" /\ l.v \in Configuration!Relative /\ l.base = "folder")
  <2> DEFINE y == IF b.locator.v \in Configuration!Relative THEN [b.locator EXCEPT !.base = "folder"] ELSE b.locator
  <2>1. l = IF e = "anchored" /\ b.type = "file" THEN y ELSE b.locator
    BY OverriddenIs
  <2>2. /\ y.v = b.locator.v /\ y.from = b.locator.from
        /\ y.base = IF b.locator.v \in Configuration!Relative THEN "folder" ELSE b.locator.base
    BY <1>5, AnchoredIs
  <2> HIDE DEF y, l, b
  <2> QED
    BY <2>1, <2>2
<1>7. "url" \in Configuration!Keys /\ "path" \in Configuration!Keys /\ "database" \in Configuration!Keys
  BY DEF Configuration!Keys
<1>8. key \in Configuration!Keys /\ Configuration!Given(MergedIn(g, e)[key]) /\ b.locator = ReadIn(g, e)[key]
  BY <1>1, <1>4, <1>5, <1>7 DEF KeyIn
<1>9. ReadIn(g, e)[key].from = MergedIn(g, e)[key].from /\ ReadIn(g, e)[key].base = MergedIn(g, e)[key].base
  BY <1>8, ReadIs
<1> HIDE DEF b, l, key
<1> QED
  BY <1>6, <1>8, <1>9 DEF l, key

\* The scripts it finds are where its argument says, else where the list does once it has an
\* entry, else the directory or the default.
LEMMA DirectoriesAre ==
  ASSUME NEW g \in Configuration!Sources, NEW e \in {"cli", "api", "anchored"}, ~NotBuilt(g, e), ~NoDirectory(g)
  PROVE  LET a == ArgumentsIn(g)["dir"]
             list == ReadIn(g, e)["dirs"]
             single == ReadIn(g, e)["dir"]
             c == IF list.v \notin Configuration!Unlisted THEN list ELSE IF Configuration!Given(single) THEN single
                  ELSE [v |-> "default", from |-> "default", base |-> "cwd"]
             q == DirectoriesIn(g, e)
         IN  /\ Configuration!Given(a) => q = a
             /\ ~Configuration!Given(a) =>
                  /\ a.v = "none" /\ q.from = c.from /\ q.v = c.v
                  /\ c.v \notin Configuration!Unusable \cup Configuration!UnusableLists
                  /\ q.base = (IF e # "api" /\ c.v \in Configuration!Relative THEN "folder" ELSE c.base)
                  /\ e = "api" => q = c
                  /\ e = "cli" => q = IF c.v \in Configuration!Relative THEN [c EXCEPT !.base = "folder"] ELSE c
<1> DEFINE a == ArgumentsIn(g)["dir"]
           list == ReadIn(g, e)["dirs"]
           single == ReadIn(g, e)["dir"]
           b == BuiltIn(g, e)
           o == OverriddenIn(g, e)
           c == IF list.v \notin Configuration!Unlisted THEN list ELSE IF Configuration!Given(single) THEN single
                ELSE [v |-> "default", from |-> "default", base |-> "cwd"]
           path(x) == IF x.v \in Configuration!Relative THEN [x EXCEPT !.base = "folder"] ELSE x
           w == ConfiguredIn(g, e)
           q == DirectoriesIn(g, e)
<1>1. a.v # ""
  BY DEF NoDirectory
<1>2. ~Configuration!UnusableDirectory(ReadIn(g, e))
  BY DEF NotBuilt
<1>3. b.dirs = list /\ b.dir = (IF Configuration!Given(single) THEN single
                                ELSE [v |-> "default", from |-> "default", base |-> "cwd"])
      /\ Reading(b.dir) /\ Reading(b.dirs)
  BY BuiltIs
<1>4. o.dir = (IF e = "anchored" THEN path(b.dir) ELSE b.dir) /\ o.dirs = (IF e = "anchored" THEN path(b.dirs) ELSE b.dirs)
  BY OverriddenIs
<1>5. c = (IF list.v \in Configuration!Unlisted THEN b.dir ELSE b.dirs) /\ Reading(c)
  BY <1>3
<1>6. c.v \notin Configuration!Unusable \cup Configuration!UnusableLists
  <2>1. single.v \in Configuration!Paths
    BY ReadIs DEF Configuration!Keys, KindsOf
  <2>2. list.v \notin Configuration!UnusableLists /\ (list.v \in Configuration!Unlisted => single.v \notin Configuration!Unusable)
    BY <1>2 DEF Configuration!UnusableDirectory
  <2> HIDE DEF list, single
  <2>3. CASE list.v \notin Configuration!Unlisted
    BY <2>2, <2>3 DEF Configuration!Unusable, Configuration!UnusableLists, Configuration!Unlisted
  <2>4. CASE list.v \in Configuration!Unlisted
    BY <2>1, <2>2, <2>4 DEF Configuration!Unusable, Configuration!UnusableLists, Configuration!Paths
  <2> QED
    BY <2>3, <2>4
<1>7. w = IF o.dirs.v \in Configuration!Unlisted THEN o.dir ELSE o.dirs
  BY DEF ConfiguredIn
<1>8. q = IF Configuration!Given(a) THEN a
          ELSE IF e = "cli" /\ w.v \in Configuration!Relative THEN [w EXCEPT !.base = "folder"] ELSE w
  BY DEF DirectoriesIn
<1>9. path(b.dirs).v = list.v
  BY <1>3, AnchoredIs
<1>10. w = IF e = "anchored" THEN path(c) ELSE c
  BY <1>3, <1>4, <1>5, <1>7, <1>9
<1>11. /\ path(c).v = c.v /\ path(c).from = c.from
       /\ path(c).base = IF c.v \in Configuration!Relative THEN "folder" ELSE c.base
  BY <1>5, AnchoredIs
<1>12. a.v \notin {"none", ""} <=> Configuration!Given(a)
  BY DEF Configuration!Given, Configuration!Empty
<1> HIDE DEF a, list, single, b, o, c, w, q
<1>13. CASE Configuration!Given(a)
  BY <1>8, <1>13 DEF a, q
<1>14. CASE ~Configuration!Given(a)
  <2>1. a.v = "none"
    BY <1>1, <1>12, <1>14
  <2>2. q = IF e \in {"cli", "anchored"} THEN path(c) ELSE c
    BY <1>8, <1>10, <1>14
  <2>3. /\ q.from = c.from /\ q.v = c.v
        /\ q.base = (IF e # "api" /\ c.v \in Configuration!Relative THEN "folder" ELSE c.base)
    BY <1>11, <2>2
  <2> HIDE DEF path
  <2> QED
    BY <1>6, <1>14, <2>1, <2>2, <2>3 DEF a, q, c, list, single, path
<1> QED
  BY <1>13, <1>14

-----------------------------------------------------------------------------
\* Who gives a key its value.
GiverIn(k) ==
  IF Configuration!Given(ArgumentsIn(given)[k]) THEN "arg"
  ELSE IF Configuration!Given(VariablesIn(given)[k]) THEN "os"
  ELSE IF NameIn(given) = "prod" /\ Configuration!Given(BlockIn(given, "prod")[k]) THEN "prod"
  ELSE IF Configuration!Given(BlockIn(given, "root")[k]) THEN "root" ELSE "default"

\* A value that is given names its source.
LEMMA GivenFrom ==
  ASSUME NEW x, NEW from, NEW kinds, NEW base, Reads(x, from, kinds, base), Configuration!Given(x)
  PROVE  x.from = from
  BY DEF Reads, Configuration!Given, Configuration!Empty

\* The list of sources when an environment is chosen, and when none is.
LEMMA FourSources ==
  ASSUME NEW a, NEW o, NEW p, NEW r
  PROVE  LET k == <<a, o>> \o <<p>> \o <<r>>
         IN  DOMAIN k = 1..4 /\ k[1] = a /\ k[2] = o /\ k[3] = p /\ k[4] = r
  OBVIOUS

\* Without an environment.
LEMMA ThreeSources ==
  ASSUME NEW a, NEW o, NEW r
  PROVE  LET k == <<a, o>> \o << >> \o <<r>>
         IN  DOMAIN k = 1..3 /\ k[1] = a /\ k[2] = o /\ k[3] = r
  OBVIOUS

\* The strongest source of a key, without the list.
LEMMA GiverIs ==
  ASSUME given \in Configuration!Sources, ~NoEnvironment(given), NEW k \in Configuration!Keys
  PROVE  Configuration!Giver(k) = GiverIn(k)
<1> DEFINE a == ArgumentsIn(given)[k]
           o == VariablesIn(given)[k]
           p == BlockIn(given, "prod")[k]
           r == BlockIn(given, "root")[k]
           kinds == Configuration!Ranked(k)
           givers == {i \in DOMAIN kinds : Configuration!Given(kinds[i])}
<1>1. kinds = <<a, o>> \o (IF Configuration!Chosen = "prod" THEN <<p>> ELSE << >>) \o <<r>>
  BY Readings DEF Configuration!Ranked, ArgumentsIn, VariablesIn
<1>2. /\ Configuration!Given(a) => a.from = "arg"
      /\ Configuration!Given(o) => o.from = "os"
      /\ Configuration!Given(p) => p.from = "prod"
      /\ Configuration!Given(r) => r.from = "root"
  BY GivenFrom, ArgumentsRead, VariablesRead, BlockReads
<1>3. Configuration!Chosen = "prod" /\ NameIn(given) # "prod" => ~Configuration!Given(p)
  BY DEF Configuration!Chosen, NameIn, BlockIn, Configuration!Given, Configuration!Empty, Configuration!None,
         Configuration!Sources
<1>4. NameIn(given) = "prod" => Configuration!Chosen = "prod"
  BY DEF Configuration!Chosen, NameIn
<1>5. Configuration!Giver(k) = IF givers = {} THEN "default"
                               ELSE kinds[CHOOSE i \in givers : \A j \in givers : i <= j].from
  BY DEF Configuration!Giver
<1>6. GiverIn(k) = IF Configuration!Given(a) THEN "arg" ELSE IF Configuration!Given(o) THEN "os"
                   ELSE IF NameIn(given) = "prod" /\ Configuration!Given(p) THEN "prod"
                   ELSE IF Configuration!Given(r) THEN "root" ELSE "default"
  BY DEF GiverIn
<1> HIDE DEF a, o, p, r, kinds
<1>7. ASSUME NEW i \in givers, \A j \in givers : i <= j, givers \subseteq Nat
      PROVE  Configuration!Giver(k) = kinds[i].from
  <2>1. \A j \in givers : (\A h \in givers : j <= h) => j = i
    BY <1>7
  <2>2. (CHOOSE j \in givers : \A h \in givers : j <= h) = i
    BY <1>7, <2>1
  <2> QED
    BY <1>5, <1>7, <2>2
<1>8. CASE Configuration!Chosen = "prod"
  <2>1. kinds = <<a, o>> \o <<p>> \o <<r>>
    BY <1>1, <1>8
  <2>2. DOMAIN kinds = 1..4 /\ kinds[1] = a /\ kinds[2] = o /\ kinds[3] = p /\ kinds[4] = r
    <3> DEFINE K == <<a, o>> \o <<p>> \o <<r>>
    <3>1. DOMAIN K = 1..4 /\ K[1] = a /\ K[2] = o /\ K[3] = p /\ K[4] = r
      BY FourSources
    <3>2. kinds = K
      BY <2>1
    <3> HIDE DEF K
    <3> QED
      BY <3>1, <3>2
  <2>3. /\ givers \subseteq 1..4 /\ givers \subseteq Nat
        /\ (1 \in givers) <=> Configuration!Given(a)
        /\ (2 \in givers) <=> Configuration!Given(o)
        /\ (3 \in givers) <=> Configuration!Given(p)
        /\ (4 \in givers) <=> Configuration!Given(r)
    BY <2>2
  <2> HIDE DEF givers
  <2>4. CASE Configuration!Given(a)
    BY <1>2, <1>6, <1>7, <2>2, <2>3, <2>4
  <2>5. CASE ~Configuration!Given(a) /\ Configuration!Given(o)
    BY <1>2, <1>6, <1>7, <2>2, <2>3, <2>5
  <2>6. CASE ~Configuration!Given(a) /\ ~Configuration!Given(o) /\ Configuration!Given(p)
    BY <1>2, <1>3, <1>6, <1>7, <2>2, <2>3, <2>6, <1>8
  <2>7. CASE ~Configuration!Given(a) /\ ~Configuration!Given(o) /\ ~Configuration!Given(p) /\ Configuration!Given(r)
    BY <1>2, <1>6, <1>7, <2>2, <2>3, <2>7
  <2>8. CASE ~Configuration!Given(a) /\ ~Configuration!Given(o) /\ ~Configuration!Given(p) /\ ~Configuration!Given(r)
    <3>1. givers = {}
      BY <2>3, <2>8
    <3> QED
      BY <1>5, <1>6, <2>8, <3>1
  <2> QED
    BY <2>4, <2>5, <2>6, <2>7, <2>8
<1>9. CASE Configuration!Chosen # "prod"
  <2>1. kinds = <<a, o>> \o << >> \o <<r>>
    BY <1>1, <1>9
  <2>2. DOMAIN kinds = 1..3 /\ kinds[1] = a /\ kinds[2] = o /\ kinds[3] = r
    BY <2>1, ThreeSources
  <2>3. /\ givers \subseteq 1..3 /\ givers \subseteq Nat
        /\ (1 \in givers) <=> Configuration!Given(a)
        /\ (2 \in givers) <=> Configuration!Given(o)
        /\ (3 \in givers) <=> Configuration!Given(r)
    BY <2>2
  <2> HIDE DEF givers
  <2>4. CASE Configuration!Given(a)
    BY <1>2, <1>6, <1>7, <2>2, <2>3, <2>4
  <2>5. CASE ~Configuration!Given(a) /\ Configuration!Given(o)
    BY <1>2, <1>6, <1>7, <2>2, <2>3, <2>5
  <2>6. CASE ~Configuration!Given(a) /\ ~Configuration!Given(o) /\ Configuration!Given(r)
    BY <1>2, <1>4, <1>6, <1>7, <1>9, <2>2, <2>3, <2>6
  <2>7. CASE ~Configuration!Given(a) /\ ~Configuration!Given(o) /\ ~Configuration!Given(r)
    <3>1. givers = {}
      BY <2>3, <2>7
    <3> QED
      BY <1>4, <1>5, <1>6, <1>9, <2>7, <3>1
  <2> QED
    BY <2>4, <2>5, <2>6, <2>7
<1> QED
  BY <1>8, <1>9

\* The key it is found by, of who gives them.
LocatorIn ==
  IF GiverIn("url") # "default" THEN "url" ELSE IF GiverIn("path") # "default" THEN "path" ELSE "database"

\* What precedence, paths and references ask of an entry that is through.
LEMMA PrecedenceOfOne ==
  ASSUME given \in Configuration!Sources, NEW e \in {"cli", "api", "anchored"}, ~Refused(given, e)
  PROVE  LET c == OverriddenIn(given, e)
             q == DirectoriesIn(given, e)
         IN  /\ LocatorIn = KeyIn(given, e) /\ c.locator.from = GiverIn(LocatorIn)
             /\ GiverIn("schema") = IF Configuration!Given(c.schema) THEN c.schema.from ELSE "default"
             /\ q.from \in {GiverIn("dir"), GiverIn("dirs")}
             /\ GiverIn("dir") = "arg" => q.from = "arg"
<1> DEFINE M(k) == MergedIn(given, e)[k]
<1>0. ~NotBuilt(given, e) /\ ~NoDirectory(given) /\ ~NoFilePaths(given)
  BY DEF Refused
<1>1. \A k \in Configuration!Keys :
        /\ Configuration!Given(ArgumentsIn(given)[k]) => ArgumentsIn(given)[k].from = "arg"
        /\ Configuration!Given(VariablesIn(given)[k]) => VariablesIn(given)[k].from = "os"
        /\ Configuration!Given(BlockIn(given, "prod")[k]) => BlockIn(given, "prod")[k].from = "prod"
        /\ Configuration!Given(BlockIn(given, "root")[k]) => BlockIn(given, "root")[k].from = "root"
  BY GivenFrom, ArgumentsRead, VariablesRead, BlockReads
<1>2. ~Configuration!Given(Configuration!None)
  BY DEF Configuration!Given, Configuration!None, Configuration!Empty
<1>3. \A k \in {"url", "schema", "path", "database", "dirs"} :
        /\ k \in Configuration!Keys
        /\ OptionsIn(given, e)[k] = ArgumentsIn(given)[k]
  <2>1. \A k \in {"path", "database", "dirs"} :
          OptionsIn(given, e)[k] = Configuration!None /\ ArgumentsIn(given)[k] = Configuration!None
    <3>1. \A k \in {"path", "database", "dirs"} : OptionsIn(given, e)[k] = Configuration!None
      BY OptionsRead
    <3>2. \A k \in {"path", "database", "dirs"} : ArgumentsIn(given)[k] = Configuration!None
      BY ArgumentsRead DEF Configuration!Keys
    <3> QED
      BY <3>1, <3>2
  <2>2. \A k \in {"url", "schema"} : OptionsIn(given, e)[k] = ArgumentsIn(given)[k]
    BY OptionsRead
  <2> QED
    BY <2>1, <2>2 DEF Configuration!Keys
<1>4. \A k \in {"url", "schema", "path", "database", "dirs"} :
        GiverIn(k) = IF Configuration!Given(M(k)) THEN M(k).from ELSE "default"
  BY <1>1, <1>3, MergedIs DEF GiverIn
<1>5. GiverIn("dir") = IF Configuration!Given(ArgumentsIn(given)["dir"]) THEN "arg"
                       ELSE IF Configuration!Given(M("dir")) THEN M("dir").from ELSE "default"
  <2>1. "dir" \in Configuration!Keys /\ OptionsIn(given, e)["dir"] = Configuration!None
    BY OptionsRead DEF Configuration!Keys
  <2> QED
    BY <1>1, <1>2, <2>1, MergedIs DEF GiverIn
<1>6. \A k \in Configuration!Keys :
        /\ Configuration!Given(ReadIn(given, e)[k]) <=> Configuration!Given(M(k))
        /\ ReadIn(given, e)[k].from = M(k).from
  <2>1. \A k \in Configuration!Keys : ReadIn(given, e)[k].from = M(k).from
    BY ReadIs
  <2>2. \A k \in Configuration!Keys : Configuration!Given(ReadIn(given, e)[k]) <=> Configuration!Given(M(k))
    BY GivenIs
  <2> QED
    BY <2>1, <2>2
<1>7. \A k \in Configuration!Locators : Configuration!Given(M(k)) <=> GiverIn(k) # "default"
  <2> SUFFICES ASSUME NEW k \in Configuration!Locators PROVE Configuration!Given(M(k)) <=> GiverIn(k) # "default"
    OBVIOUS
  <2>1. k \in Configuration!Keys /\ k \in {"url", "schema", "path", "database", "dirs"}
    BY DEF Configuration!Locators, Configuration!Keys
  <2>2. Configuration!Given(M(k)) => M(k).from \in {"arg", "os", "prod", "root"}
    BY <1>1, <1>3, <2>1, MergedIs
  <2> HIDE DEF M
  <2> QED
    BY <1>4, <2>1, <2>2
<1>8. LocatorIn = KeyIn(given, e)
  BY <1>7 DEF LocatorIn, KeyIn, Configuration!Locators
<1>9. OverriddenIn(given, e).locator.from = GiverIn(LocatorIn)
  <2>1. /\ Configuration!Given(M(KeyIn(given, e)))
        /\ OverriddenIn(given, e).locator.from = M(KeyIn(given, e)).from
    BY <1>0, LocatorIs
  <2>2. KeyIn(given, e) \in {"url", "schema", "path", "database", "dirs"}
    BY DEF KeyIn
  <2> HIDE DEF M
  <2> QED
    BY <1>4, <1>8, <2>1, <2>2
<1>10. GiverIn("schema") = IF Configuration!Given(OverriddenIn(given, e).schema)
                           THEN OverriddenIn(given, e).schema.from ELSE "default"
  <2>1. OverriddenIn(given, e).schema = ReadIn(given, e)["schema"]
    BY OverriddenIs, BuiltIs
  <2> QED
    BY <1>4, <1>6, <2>1 DEF Configuration!Keys
<1>11. /\ Configuration!Given(ArgumentsIn(given)["dir"]) => DirectoriesIn(given, e).from = "arg"
       /\ ~Configuration!Given(ArgumentsIn(given)["dir"]) =>
            DirectoriesIn(given, e).from \in {GiverIn("dir"), GiverIn("dirs")}
  <2> DEFINE list == ReadIn(given, e)["dirs"]
             single == ReadIn(given, e)["dir"]
             c == IF list.v \notin Configuration!Unlisted THEN list ELSE IF Configuration!Given(single) THEN single
                  ELSE [v |-> "default", from |-> "default", base |-> "cwd"]
  <2>1. /\ Configuration!Given(ArgumentsIn(given)["dir"]) => DirectoriesIn(given, e) = ArgumentsIn(given)["dir"]
        /\ ~Configuration!Given(ArgumentsIn(given)["dir"]) =>
             DirectoriesIn(given, e).from = c.from /\ c.v \notin Configuration!Unusable \cup Configuration!UnusableLists
    BY <1>0, DirectoriesAre
  <2>2. CASE list.v \notin Configuration!Unlisted /\ c.v \notin Configuration!Unusable \cup Configuration!UnusableLists
    <3>1. Configuration!Given(list)
      BY <2>2 DEF Configuration!Given, Configuration!Empty, Configuration!Unlisted
    <3>2. c.from = GiverIn("dirs")
      BY <1>4, <1>6, <2>2, <3>1 DEF Configuration!Keys
    <3> QED
      BY <1>1, <2>1, <3>2 DEF Configuration!Keys
  <2>3. CASE list.v \in Configuration!Unlisted
    <3>1. c.from = IF Configuration!Given(single) THEN single.from ELSE "default"
      BY <2>3
    <3> HIDE DEF c
    <3>2. ~Configuration!Given(ArgumentsIn(given)["dir"]) => c.from = GiverIn("dir")
      BY <1>5, <1>6, <3>1 DEF Configuration!Keys
    <3> QED
      BY <1>1, <2>1, <3>2 DEF Configuration!Keys
  <2> QED
    BY <1>1, <2>1, <2>2, <2>3 DEF Configuration!Keys
<1>12. ~Configuration!Given(ArgumentsIn(given)["dir"]) => GiverIn("dir") # "arg"
  BY <1>1, <1>2, OptionsRead, MergedIs DEF GiverIn, Configuration!Keys
<1>13. Configuration!Given(ArgumentsIn(given)["dir"]) => GiverIn("dir") = "arg"
  BY <1>5
<1> QED
  BY <1>8, <1>9, <1>10, <1>11, <1>12, <1>13

\* Where a merged value's relative path starts depends on who gives it.
LEMMA MergedStarts ==
  ASSUME NEW g \in Configuration!Sources, NEW e, NEW k \in {"url", "path", "database", "dir", "dirs"}
  PROVE  LET x == MergedIn(g, e)[k]
         IN  x.v \in Configuration!Relative
               => x.base = (IF x.from \in {"root", "prod"} THEN BaseIn(g, x.from, k) ELSE "cwd")
                    /\ x.from \in {"arg", "os", "prod", "root"}
                    /\ (k \in {"dir", "dirs"} => x.from \in {"prod", "root"})
<1> DEFINE x == MergedIn(g, e)[k]
           start == x.v \in Configuration!Relative
               => x.base = (IF x.from \in {"root", "prod"} THEN BaseIn(g, x.from, k) ELSE "cwd")
                    /\ x.from \in {"arg", "os", "prod", "root"}
                    /\ (k \in {"dir", "dirs"} => x.from \in {"prod", "root"})
<1>0. k \in Configuration!Keys /\ "none" \notin Configuration!Relative
  BY DEF Configuration!Keys, Configuration!Relative
<1>1. ~Configuration!Given(Configuration!None)
  BY DEF Configuration!None, Configuration!Given, Configuration!Empty
<1>2. CASE Configuration!Given(OptionsIn(g, e)[k])
  <2>1. k = "url" /\ OptionsIn(g, e)[k] = ArgumentsIn(g)[k]
    BY <1>1, <1>2, OptionsRead
  <2>2. x = ArgumentsIn(g)[k] /\ Reads(x, "arg", KindsOf(k), "cwd")
    BY <1>0, <1>2, <2>1, MergedIs, ArgumentsRead
  <2> QED
    BY <1>0, <2>1, <2>2 DEF Reads
<1>3. CASE ~Configuration!Given(OptionsIn(g, e)[k]) /\ Configuration!Given(VariablesIn(g)[k])
  <2>1. k \in {"url", "database"}
    BY <1>0, <1>1, <1>3, VariablesRead
  <2>2. x = VariablesIn(g)[k] /\ Reads(x, "os", KindsOf(k), "cwd")
    BY <1>0, <1>3, MergedIs, VariablesRead
  <2> QED
    BY <1>0, <2>1, <2>2 DEF Reads
<1>4. CASE ~Configuration!Given(OptionsIn(g, e)[k]) /\ ~Configuration!Given(VariablesIn(g)[k])
  <2>1. x \in {BlockIn(g, "prod")[k], BlockIn(g, "root")[k]}
    BY <1>0, <1>4, MergedIs
  <2>2. Reads(x, "prod", KindsOf(k), BaseIn(g, "prod", k)) \/ Reads(x, "root", KindsOf(k), BaseIn(g, "root", k))
    BY <1>0, <2>1, BlockReads
  <2> QED
    BY <1>0, <2>2 DEF Reads
<1> QED
  BY <1>2, <1>3, <1>4

\* PathsFollowTheirSource for one entry.
LEMMA PathsOfOne ==
  ASSUME given \in Configuration!Sources, NEW e \in {"cli", "api", "anchored"}, ~Refused(given, e)
  PROVE  LET l == OverriddenIn(given, e).locator
             q == DirectoriesIn(given, e)
         IN  /\ q.from \in {"root", "prod"} /\ q.v \in Configuration!Relative => q.base = "folder"
             /\ (/\ l.from \in {"root", "prod"} /\ l.v \in Configuration!Relative
                 /\ KeyIn(given, e) # "database" \/ FileTypeIn(given, l.from)) => l.base = "folder"
             /\ q.from = "arg" /\ q.v \in Configuration!Relative => q.base = "cwd"
             /\ l.from \in {"os", "arg"} /\ l.v \in Configuration!Relative /\ e # "anchored" => l.base = "cwd"
<1> DEFINE l == OverriddenIn(given, e).locator
           q == DirectoriesIn(given, e)
           x == MergedIn(given, e)[KeyIn(given, e)]
           a == ArgumentsIn(given)["dir"]
           list == ReadIn(given, e)["dirs"]
           single == ReadIn(given, e)["dir"]
           c == IF list.v \notin Configuration!Unlisted THEN list ELSE IF Configuration!Given(single) THEN single
                ELSE [v |-> "default", from |-> "default", base |-> "cwd"]
<1>0. ~NotBuilt(given, e) /\ ~NoDirectory(given)
  BY DEF Refused
<1>1. \A k \in Configuration!Keys :
        LET d == ReadIn(given, e)[k]
        IN  /\ d.from = MergedIn(given, e)[k].from /\ d.base = MergedIn(given, e)[k].base
            /\ d.v \in Configuration!Relative => MergedIn(given, e)[k].v \in Configuration!Relative
  BY ReadIs DEF Configuration!Relative
<1>2. /\ l.from = x.from /\ (l.v \in Configuration!Relative => x.v \in Configuration!Relative)
      /\ l.base = x.base \/ (e = "anchored" /\ l.v \in Configuration!Relative /\ l.base = "folder")
  <2>1. KeyIn(given, e) \in Configuration!Keys
    BY DEF KeyIn, Configuration!Keys
  <2> QED
    BY <1>0, <1>1, <2>1, LocatorIs
<1>3. x.v \in Configuration!Relative
        => x.base = (IF x.from \in {"root", "prod"} THEN BaseIn(given, x.from, KeyIn(given, e)) ELSE "cwd")
  <2>1. KeyIn(given, e) \in {"url", "path", "database", "dir", "dirs"}
    BY DEF KeyIn
  <2> QED
    BY <2>1, MergedStarts
<1>4. /\ a.v \in Configuration!Relative => a.base = "cwd"
      /\ Configuration!Given(a) => a.from = "arg"
  BY ArgumentsRead, GivenFrom DEF Reads, Configuration!Keys
<1>5. c.v \in Configuration!Relative => c.from \in {"root", "prod", "default"}
  <2>1. /\ list.v \in Configuration!Relative => list.from \in {"root", "prod"}
        /\ single.v \in Configuration!Relative => single.from \in {"root", "prod"}
    BY <1>1, MergedStarts DEF Configuration!Keys
  <2> QED
    BY <2>1
<1>6. /\ Configuration!Given(a) => q = a
      /\ ~Configuration!Given(a) =>
           /\ q.from = c.from /\ q.v = c.v
           /\ q.base = (IF e # "api" /\ c.v \in Configuration!Relative THEN "folder" ELSE c.base)
  BY <1>0, DirectoriesAre
<1>7. c.v \in Configuration!Relative /\ c.from \in {"root", "prod"} => c.base = "folder"
  <2>1. /\ list.v \in Configuration!Relative => list.base = "folder"
        /\ single.v \in Configuration!Relative => single.base = "folder"
    BY <1>1, MergedStarts DEF BaseIn, Configuration!Keys
  <2> QED
    BY <2>1
<1> HIDE DEF l, q, x, a, c
<1>8. (/\ l.from \in {"root", "prod"} /\ l.v \in Configuration!Relative
       /\ KeyIn(given, e) # "database" \/ FileTypeIn(given, l.from)) => l.base = "folder"
  BY <1>2, <1>3 DEF BaseIn
<1>9. q.from \in {"root", "prod"} /\ q.v \in Configuration!Relative => q.base = "folder"
  BY <1>4, <1>6, <1>7
<1>10. q.from = "arg" /\ q.v \in Configuration!Relative => q.base = "cwd"
  BY <1>4, <1>5, <1>6
<1>11. l.from \in {"os", "arg"} /\ l.v \in Configuration!Relative /\ e # "anchored" => l.base = "cwd"
  BY <1>2, <1>3
<1> QED
  BY <1>8, <1>9, <1>10, <1>11 DEF l, q

\* NothingUnresolved for one entry.
LEMMA ReferencesOfOne ==
  ASSUME NEW g \in Configuration!Sources, NEW e \in {"cli", "api", "anchored"}, ~Refused(g, e)
  PROVE  LET c == OverriddenIn(g, e)
             q == DirectoriesIn(g, e)
         IN  /\ q.v \notin Configuration!Unusable \cup Configuration!UnusableLists /\ c.locator.v \notin {"strange", "fileUrlEmpty"}
             /\ c.type = "file" => c.locator.v \notin {"strangeUrl", "serverUrl"}
             /\ OnlineIn(g, e) => {q.v, c.locator.v} \cap {"secret", "secretUrl"} = {}
<1> DEFINE c == OverriddenIn(g, e)
           q == DirectoriesIn(g, e)
           d == ReadIn(g, e)
           a == ArgumentsIn(g)["dir"]
           u == ArgumentsIn(g)["url"]
<1>0. ~NotBuilt(g, e) /\ ~NoDirectory(g)
  BY DEF Refused
<1>1. ~Configuration!UnusableLocator(d) /\ ~Configuration!Incomplete(d)
      /\ ~Configuration!Untyped(d) /\ ~Configuration!UnusableDirectory(d)
  BY <1>0 DEF NotBuilt
<1>2. /\ d["url"].v \in Configuration!Urls /\ d["path"].v \in Configuration!Paths
      /\ d["database"].v \in Configuration!Paths
      /\ d["type"].v \in Configuration!Types
      /\ OnlineIn(g, e) => \A k \in Configuration!Keys : d[k].v \notin {"secret", "secretUrl"}
  <2>1. \A k \in Configuration!Keys : d[k].v \in KindsOf(k)
    BY ReadIs
  <2>2. OnlineIn(g, e) => \A k \in Configuration!Keys : d[k].v \notin {"secret", "secretUrl"}
    BY ReadIs
  <2> QED
    BY <2>1, <2>2 DEF KindsOf, Configuration!Keys
<1>3. \A k \in Configuration!Keys : Configuration!Given(d[k]) <=> Configuration!Given(MergedIn(g, e)[k])
  BY GivenIs
<1>4. c.locator.v = IF Configuration!Given(d["url"]) THEN d["url"].v
                    ELSE IF Configuration!Given(d["path"]) THEN d["path"].v ELSE d["database"].v
  <2>1. c.locator.v = d[KeyIn(g, e)].v
    BY <1>0, LocatorIs
  <2> HIDE DEF c, d
  <2> QED
    BY <1>3, <2>1 DEF KeyIn, Configuration!Keys
<1>5. c.locator.v \notin {"strange", "fileUrlEmpty"}
  <2> DEFINE url == d["url"]
             path == d["path"]
             database == d["database"]
             type == d["type"]
  <2> HIDE DEF c, url, path, database, type
  <2>1. CASE Configuration!Given(url)
    BY <1>1, <1>2, <1>4, <2>1 DEF Configuration!UnusableLocator, Configuration!Urls, url
  <2>2. CASE ~Configuration!Given(url) /\ Configuration!Given(path)
    BY <1>1, <1>2, <1>4, <2>2 DEF Configuration!UnusableLocator, Configuration!Paths, url, path
  <2>3. CASE ~Configuration!Given(url) /\ ~Configuration!Given(path)
    <3>1. Configuration!TypeOf(d) \notin {"none", "server"}
      BY <1>1, <2>3 DEF Configuration!Incomplete, url
    <3>2. Configuration!TypeOf(d) = IF Configuration!Given(type) THEN type.v ELSE Configuration!UrlType(url)
      BY DEF Configuration!TypeOf, type, url
    <3>3. url.v \in {"none", ""}
      BY <2>3 DEF Configuration!Given, Configuration!Empty
    <3>4. Configuration!UrlType(url) = "none"
      BY <3>3 DEF Configuration!UrlType
    <3>5. Configuration!Given(type) /\ type.v \notin {"none", "server"}
      BY <3>1, <3>2, <3>4
    <3>6. type.v = "file"
      BY <1>2, <3>5 DEF type, Configuration!Given, Configuration!Empty, Configuration!Types
    <3>7. database.v # "strange"
      BY <1>1, <2>3, <3>6 DEF Configuration!UnusableLocator, url, database, type
    <3>8. c.locator.v = database.v
      BY <1>4, <2>3 DEF url, path, database
    <3> QED
      BY <1>2, <3>7, <3>8 DEF database, Configuration!Paths
  <2> QED
    BY <2>1, <2>2, <2>3
<1>6. OnlineIn(g, e) => c.locator.v \notin {"secret", "secretUrl"}
  BY <1>2, <1>4 DEF Configuration!Keys
<1>7. a.v \in {"none", "", "rel", "abs"} /\ (Configuration!Given(a) <=> a.v \in {"rel", "abs"})
  BY ArgumentsRead DEF Configuration!Keys, Configuration!Given, Configuration!Empty
<1>8. q.v \notin Configuration!Unusable \cup Configuration!UnusableLists /\ (OnlineIn(g, e) => q.v \notin {"secret", "secretUrl"})
  <2>1. CASE Configuration!Given(a)
    <3>1. q = a
      BY <1>0, <2>1, DirectoriesAre
    <3> QED
      BY <1>7, <2>1, <3>1 DEF Configuration!Unusable, Configuration!UnusableLists
  <2>2. CASE ~Configuration!Given(a)
    <3> DEFINE x == IF d["dirs"].v \notin Configuration!Unlisted THEN d["dirs"] ELSE IF Configuration!Given(d["dir"]) THEN d["dir"]
                    ELSE [v |-> "default", from |-> "default", base |-> "cwd"]
    <3>1. q.v = x.v /\ x.v \notin Configuration!Unusable \cup Configuration!UnusableLists
      BY <1>0, <2>2, DirectoriesAre
    <3>2. OnlineIn(g, e) => x.v \notin {"secret", "secretUrl"}
      BY <1>2 DEF Configuration!Keys
    <3> HIDE DEF x
    <3> QED
      BY <3>1, <3>2
  <2> QED
    BY <2>1, <2>2
<1>9. ASSUME c.type = "file", c.locator.v \in {"strangeUrl", "serverUrl"} PROVE FALSE
  <2>1. Configuration!Given(d["url"]) /\ d["url"].v \in {"strangeUrl", "serverUrl"}
    BY <1>2, <1>4, <1>9 DEF Configuration!Paths
  <2>2. d["type"].v # "file"
    BY <1>1, <2>1 DEF Configuration!UnusableLocator
  <2>3. Configuration!TypeOf(d) # "file"
    BY <2>1, <2>2 DEF Configuration!TypeOf, Configuration!UrlType
  <2>4. BuiltIn(g, e).type # "file"
    BY <2>3, BuiltIs
  <2>5. e = "cli" /\ OverlaidIn(g, "cli").type = "file"
    BY <1>9, <2>4, OverriddenIs
  <2>6. Configuration!Given(u) /\ Configuration!UrlType(ResolvedIn(g, "cli", u)) = "file"
    <3> DEFINE b == BuiltIn(g, "cli")
               t == IF Configuration!Given(u) /\ Configuration!UrlType(ResolvedIn(g, "cli", u)) # "none"
                    THEN Configuration!UrlType(ResolvedIn(g, "cli", u)) ELSE b.type
    <3>1. OverlaidIn(g, "cli") = [b EXCEPT !.type = t]
      BY OverlaidIs
    <3>2. b = [type |-> b.type, schema |-> b.schema, locator |-> b.locator, dir |-> b.dir, dirs |-> b.dirs]
      BY BuiltIs
    <3> HIDE DEF b, t
    <3>3. t = "file"
      BY <2>5, <3>1, <3>2
    <3> QED
      BY <2>4, <2>5, <3>3 DEF b, t
  <2>7. d["url"] = ResolvedIn(g, "cli", u)
    BY <2>5, <2>6, OptionsRead, MergedIs DEF ReadIn, Configuration!Keys
  <2> QED
    BY <2>1, <2>6, <2>7 DEF Configuration!UrlType
<1> QED
  BY <1>5, <1>6, <1>8, <1>9

\* EmptyNeverFallsBack for one entry: were the root's locator in its place, the entry would have refused.
LEMMA EmptyOfOne ==
  ASSUME NEW g \in Configuration!Sources, NEW e \in {"cli", "api", "anchored"}, ~Refused(g, e),
         NameIn(g) = "prod", OverriddenIn(g, e).type = "file",
         \E x \in {VariablesIn(g)["type"], BlockIn(g, "prod")["type"], BlockIn(g, "root")["type"]} : Configuration!Given(x),
         NEW k, k = KeyIn(g, e),
         BlockIn(g, "prod")[k].v = ""
  PROVE  OverriddenIn(g, e).locator.from # "root"
<1> DEFINE M(j) == MergedIn(g, e)[j]
           u == ArgumentsIn(g)["url"]
<1>1. SUFFICES ASSUME OverriddenIn(g, e).locator.from = "root" PROVE FALSE
  OBVIOUS
<1>2. ~NotBuilt(g, e) /\ ~EmptyLocator(g, e)
  BY DEF Refused
<1>3. /\ k \in Configuration!Keys /\ "type" \in Configuration!Keys /\ "url" \in Configuration!Keys
      /\ k \in {"url", "path", "database"} /\ k \in Configuration!Locators
  BY DEF KeyIn, Configuration!Keys, Configuration!Locators
<1>4. Configuration!Given(M(k)) /\ M(k).from = "root"
  BY <1>1, <1>2, LocatorIs
<1>5. /\ Configuration!Given(OptionsIn(g, e)[k]) => OptionsIn(g, e)[k].from = "arg"
      /\ Configuration!Given(VariablesIn(g)[k]) => VariablesIn(g)[k].from = "os"
      /\ Configuration!Given(BlockIn(g, "prod")[k]) => BlockIn(g, "prod")[k].from = "prod"
  <2>1. OptionsIn(g, e)[k] = ArgumentsIn(g)[k]
    <3>0. /\ \A j \in {"path", "database", "dir", "dirs"} : OptionsIn(g, e)[j] = Configuration!None
          /\ \A j \in {"url", "schema"} : OptionsIn(g, e)[j] = ArgumentsIn(g)[j]
      BY OptionsRead
    <3>1. /\ \A j \in {"path", "database"} : OptionsIn(g, e)[j] = Configuration!None
          /\ OptionsIn(g, e)["url"] = ArgumentsIn(g)["url"]
      BY <3>0
    <3>2. \A j \in {"path", "database"} : ArgumentsIn(g)[j] = Configuration!None
      BY ArgumentsRead DEF Configuration!Keys
    <3> QED
      BY <1>3, <3>1, <3>2
  <2> QED
    BY <1>3, <2>1, GivenFrom, ArgumentsRead, VariablesRead, BlockReads
<1>6. M(k) = BlockIn(g, "root")[k]
  BY <1>3, <1>4, <1>5, MergedIs
<1>7. ~Configuration!Given(u)
  <2>1. Configuration!Given(u) => u.from = "arg"
    BY <1>3, ArgumentsRead, GivenFrom
  <2>2. OptionsIn(g, e)["url"] = u
    BY OptionsRead
  <2>3. Configuration!Given(u) => M("url") = u
    BY <1>3, <2>2, MergedIs
  <2>4. Configuration!Given(u) => k = "url"
    BY <2>3 DEF KeyIn
  <2> QED
    BY <1>4, <2>1, <2>3, <2>4
<1>8. ~Configuration!Given(OptionsIn(g, e)["type"])
  BY <1>7, InferredType
<1>9. Configuration!Given(M("type"))
  BY <1>3, <1>8, MergedIs
<1>10. M("type").v = "file"
  <2>1. /\ ReadIn(g, e)["type"].v = M("type").v
        /\ Configuration!Given(ReadIn(g, e)["type"])
    <3>1. /\ ReadIn(g, e)["type"].v \in KindsOf("type") /\ M("type").v \in KindsOf("type")
          /\ ReadIn(g, e)["type"].v = M("type").v
               \/ <<M("type").v, ReadIn(g, e)["type"].v>> \in {<<"secretUrl", "serverUrl">>, <<"secret", "abs">>}
      BY <1>3, ReadIs, MergedReads
    <3>2. ReadIn(g, e)["type"].v = M("type").v
      BY <3>1 DEF KindsOf, Configuration!Types
    <3> QED
      BY <1>9, <3>2 DEF Configuration!Given
  <2>2. BuiltIn(g, e).type = M("type").v
    BY <2>1, BuiltIs DEF Configuration!TypeOf
  <2>3. OverriddenIn(g, e).type = BuiltIn(g, e).type
    <3>1. CASE e # "cli"
      BY <3>1, OverriddenIs
    <3>2. CASE e = "cli"
      <4> DEFINE b == BuiltIn(g, "cli")
      <4>1. OverlaidIn(g, "cli") = [b EXCEPT !.type = b.type]
        BY <1>7, OverlaidIs
      <4>2. b = [type |-> b.type, schema |-> b.schema, locator |-> b.locator, dir |-> b.dir, dirs |-> b.dirs]
        BY BuiltIs
      <4>3. OverriddenIn(g, e).type = OverlaidIn(g, "cli").type
        BY <3>2, OverriddenIs
      <4> HIDE DEF b
      <4>4. OverlaidIn(g, "cli").type = b.type
        BY <4>1, <4>2
      <4> QED
        BY <3>2, <4>3, <4>4 DEF b
    <3> QED
      BY <3>1, <3>2
  <2> QED
    BY <2>2, <2>3
<1>11. EffectiveIn(g, k).v = ""
  BY DEF EffectiveIn
<1>12. EmptyLocator(g, e)
  BY <1>3, <1>4, <1>6, <1>9, <1>10, <1>11 DEF EmptyLocator
<1> QED
  BY <1>2, <1>12

\* The command line and the API, where the options give no URL and secrets are resolved.
LEMMA SameMerged ==
  ASSUME NEW g \in Configuration!Sources, ~g.offline, ~Configuration!Given(ArgumentsIn(g)["url"])
  PROVE  /\ MergedIn(g, "cli") = MergedIn(g, "api") /\ ReadIn(g, "cli") = ReadIn(g, "api")
         /\ BuiltIn(g, "cli") = BuiltIn(g, "api")
<1>1. \A k \in Configuration!Keys \ {"type"} : OptionsIn(g, "cli")[k] = OptionsIn(g, "api")[k]
  <2>1. \A e \in {"cli", "api"} :
          /\ \A k \in {"path", "database", "dir", "dirs"} : OptionsIn(g, e)[k] = Configuration!None
          /\ \A k \in {"url", "schema"} : OptionsIn(g, e)[k] = ArgumentsIn(g)[k]
    BY OptionsRead
  <2> QED
    BY <2>1 DEF Configuration!Keys
<1>2. ~Configuration!Given(OptionsIn(g, "cli")["type"]) /\ ~Configuration!Given(OptionsIn(g, "api")["type"])
  BY InferredType
<1>3. \A k \in Configuration!Keys : MergedIn(g, "cli")[k] = MergedIn(g, "api")[k]
  BY <1>1, <1>2, MergedIs
<1>4. /\ MergedIn(g, "cli") = [k \in Configuration!Keys |-> MergedIn(g, "cli")[k]]
      /\ MergedIn(g, "api") = [k \in Configuration!Keys |-> MergedIn(g, "api")[k]]
  BY DEF MergedIn, Configuration!Merged
<1>5. MergedIn(g, "cli") = MergedIn(g, "api")
  BY <1>3, <1>4
<1>6. \A x : ResolvedIn(g, "cli", x) = ResolvedIn(g, "api", x)
  BY DEF ResolvedIn, OnlineIn
<1>7. ReadIn(g, "cli") = ReadIn(g, "api")
  BY <1>5, <1>6 DEF ReadIn
<1> QED
  BY <1>5, <1>7 DEF BuiltIn

\* EntriesAgree, for sources that the command line or the API refuses.
LEMMA SameRefusal ==
  ASSUME NEW g \in Configuration!Sources, ~g.offline, g.file = "ok", ~Configuration!Given(ArgumentsIn(g)["url"])
  PROVE  Refused(g, "cli") <=> Refused(g, "api")
<1>1. MergedIn(g, "cli") = MergedIn(g, "api") /\ ReadIn(g, "cli") = ReadIn(g, "api")
  BY SameMerged
<1>2. NotLoaded(g, "cli") <=> NotLoaded(g, "api")
  BY DEF NotLoaded
<1>3. EmptyLocator(g, "cli") <=> EmptyLocator(g, "api")
  BY <1>1 DEF EmptyLocator
<1>4. SecretsIn(g, "cli") <=> SecretsIn(g, "api")
  BY <1>1 DEF SecretsIn, OnlineIn
<1>5. NotBuilt(g, "cli") <=> NotBuilt(g, "api")
  BY <1>1, <1>4 DEF NotBuilt
<1> QED
  BY <1>2, <1>3, <1>5 DEF Refused

\* And for sources that both accept.
LEMMA SameAnswer ==
  ASSUME NEW g \in Configuration!Sources, ~g.offline, g.file = "ok", ~Configuration!Given(ArgumentsIn(g)["url"]),
         ~Refused(g, "cli")
  PROVE  LET c == OverriddenIn(g, "cli")
             a == OverriddenIn(g, "api")
         IN  /\ c.locator = a.locator /\ c.type = a.type /\ c.schema = a.schema
             /\ DirectoriesIn(g, "cli").from # "default" => DirectoriesIn(g, "cli") = DirectoriesIn(g, "api")
<1> DEFINE b == BuiltIn(g, "cli")
<1>0. ~NotBuilt(g, "cli") /\ ~NotBuilt(g, "api") /\ ~NoDirectory(g)
  BY SameRefusal DEF Refused
<1>1. b = BuiltIn(g, "api") /\ ReadIn(g, "cli") = ReadIn(g, "api")
  BY SameMerged
<1>2. /\ OverriddenIn(g, "cli").locator = b.locator /\ OverriddenIn(g, "cli").schema = b.schema
      /\ OverriddenIn(g, "cli").type = OverlaidIn(g, "cli").type
  BY OverriddenIs
<1>3. /\ OverriddenIn(g, "api").locator = b.locator /\ OverriddenIn(g, "api").schema = b.schema
      /\ OverriddenIn(g, "api").type = b.type
  BY <1>1, OverriddenIs
<1>4. OverlaidIn(g, "cli").type = b.type
  <2>1. OverlaidIn(g, "cli") = [b EXCEPT !.type = b.type]
    BY OverlaidIs
  <2>2. b = [type |-> b.type, schema |-> b.schema, locator |-> b.locator, dir |-> b.dir, dirs |-> b.dirs]
    BY BuiltIs
  <2> HIDE DEF b
  <2> QED
    BY <2>1, <2>2
<1>5. DirectoriesIn(g, "cli").from # "default" => DirectoriesIn(g, "cli") = DirectoriesIn(g, "api")
  <2> DEFINE a == ArgumentsIn(g)["dir"]
             list == ReadIn(g, "cli")["dirs"]
             single == ReadIn(g, "cli")["dir"]
             c == IF list.v \notin Configuration!Unlisted THEN list ELSE IF Configuration!Given(single) THEN single
                  ELSE [v |-> "default", from |-> "default", base |-> "cwd"]
  <2>1. CASE Configuration!Given(a)
    BY <1>0, <2>1, DirectoriesAre
  <2>2. CASE ~Configuration!Given(a)
    <3>1. /\ DirectoriesIn(g, "cli") = IF c.v \in Configuration!Relative THEN [c EXCEPT !.base = "folder"] ELSE c
          /\ DirectoriesIn(g, "cli").from = c.from
      BY <1>0, <2>2, DirectoriesAre
    <3>2. DirectoriesIn(g, "api") = c
      BY <1>0, <1>1, <2>2, DirectoriesAre
    <3>3. /\ Reading(list) /\ (list.v \in Configuration!Relative => list.base = "folder")
          /\ Reading(single) /\ (single.v \in Configuration!Relative => single.base = "folder")
      <4>1. \A k \in {"dir", "dirs"} :
              /\ Reading(ReadIn(g, "cli")[k]) /\ ReadIn(g, "cli")[k].base = MergedIn(g, "cli")[k].base
              /\ ReadIn(g, "cli")[k].v \in Configuration!Relative => MergedIn(g, "cli")[k].v \in Configuration!Relative
        BY ReadIs DEF Configuration!Keys, Configuration!Relative
      <4>2. \A k \in {"dir", "dirs"} :
              MergedIn(g, "cli")[k].v \in Configuration!Relative => MergedIn(g, "cli")[k].base = "folder"
        BY MergedStarts DEF BaseIn
      <4> QED
        BY <4>1, <4>2
    <3>4. CASE c = list \/ c = single
      <4>1. Reading(c) /\ (c.v \in Configuration!Relative => c.base = "folder")
        BY <3>3, <3>4
      <4> HIDE DEF c
      <4>2. c.v \in Configuration!Relative => [c EXCEPT !.base = "folder"] = c
        BY <4>1 DEF Reading
      <4> QED
        BY <3>1, <3>2, <4>2
    <3>5. CASE ~(c = list \/ c = single)
      <4>1. c.from = "default"
        BY <3>5
      <4> QED
        BY <3>1, <4>1
    <3> QED
      BY <3>4, <3>5
  <2> QED
    BY <2>1, <2>2
<1> QED
  BY <1>2, <1>3, <1>4, <1>5

-----------------------------------------------------------------------------
\* An entry that is ready has the answer of sources it does not refuse.
LEMMA ReadyIs ==
  ASSUME AnswersAreMade, Configuration!ConfigResolutionAssumption, NEW e \in Entries, Configuration!Ready(e)
  PROVE  /\ given \in Configuration!Sources /\ e \in {"cli", "api", "anchored"}
         /\ ~Refused(given, e) /\ ~NoEnvironment(given)
         /\ outcome[e].locator = OverriddenIn(given, e).locator /\ outcome[e].type = OverriddenIn(given, e).type
         /\ outcome[e].schema = OverriddenIn(given, e).schema /\ outcome[e].dirs = DirectoriesIn(given, e)
<1>1. given \in Configuration!Sources /\ e \in {"cli", "api", "anchored"}
  BY DEF AnswersAreMade, Configuration!ConfigResolutionAssumption
<1>2. outcome[e] = Answer(given, e) /\ outcome[e].state = "done"
  BY DEF AnswersAreMade, Configuration!Ready
<1>3. ~Refused(given, e)
  BY <1>2 DEF Answer, Configuration!Unread
<1> QED
  BY <1>1, <1>2, <1>3 DEF Answer, Refused

\* The properties of ConfigResolution follow from the answers.
LEMMA OutcomesAgree ==
  ASSUME AnswersAreMade, Configuration!ConfigResolutionAssumption
  PROVE  Configuration!EntriesAgree
<1> SUFFICES ASSUME {"cli", "api"} \subseteq Entries, ~given.offline, given.file = "ok",
                    outcome["cli"].state # "open", outcome["api"].state # "open", given.arg["url"] = "none"
             PROVE  /\ outcome["cli"].state = outcome["api"].state
                    /\ outcome["cli"].locator = outcome["api"].locator /\ outcome["cli"].type = outcome["api"].type
                    /\ outcome["cli"].schema = outcome["api"].schema
                    /\ outcome["cli"].dirs.from # "default" => outcome["cli"].dirs = outcome["api"].dirs
  BY DEF Configuration!EntriesAgree
<1>1. given \in Configuration!Sources
  BY DEF AnswersAreMade, Configuration!ConfigResolutionAssumption
<1>2. outcome["cli"] = Answer(given, "cli") /\ outcome["api"] = Answer(given, "api")
  BY DEF AnswersAreMade
<1>3. ~Configuration!Given(ArgumentsIn(given)["url"])
  BY DEF ArgumentsIn, Configuration!Source, Configuration!Given, Configuration!Empty, Configuration!None, Configuration!Keys
<1>4. Refused(given, "cli") <=> Refused(given, "api")
  BY <1>1, <1>3, SameRefusal
<1>5. CASE Refused(given, "cli")
  BY <1>2, <1>4, <1>5 DEF Answer
<1>6. CASE ~Refused(given, "cli")
  <2>1. \A e \in {"cli", "api"} :
          outcome[e] = [state |-> "done", type |-> OverriddenIn(given, e).type,
                        locator |-> OverriddenIn(given, e).locator, schema |-> OverriddenIn(given, e).schema,
                        dirs |-> DirectoriesIn(given, e)]
    BY <1>2, <1>4, <1>6 DEF Answer
  <2>2. /\ OverriddenIn(given, "cli").locator = OverriddenIn(given, "api").locator
        /\ OverriddenIn(given, "cli").type = OverriddenIn(given, "api").type
        /\ OverriddenIn(given, "cli").schema = OverriddenIn(given, "api").schema
        /\ DirectoriesIn(given, "cli").from # "default" => DirectoriesIn(given, "cli") = DirectoriesIn(given, "api")
    BY <1>1, <1>3, <1>6, SameAnswer
  <2> QED
    BY <2>1, <2>2
<1> QED
  BY <1>5, <1>6

\* PrecedenceHolds.
LEMMA OutcomesKeepPrecedence ==
  ASSUME AnswersAreMade, Configuration!ConfigResolutionAssumption
  PROVE  Configuration!PrecedenceHolds
<1> SUFFICES ASSUME NEW e \in Entries, Configuration!Ready(e)
             PROVE  /\ outcome[e].locator.from = Configuration!Giver(Configuration!Locator)
                    /\ Configuration!Giver("schema") =
                         IF Configuration!Given(outcome[e].schema) THEN outcome[e].schema.from ELSE "default"
                    /\ outcome[e].dirs.from \in {Configuration!Giver("dir"), Configuration!Giver("dirs")}
                    /\ Configuration!Giver("dir") = "arg" => outcome[e].dirs.from = "arg"
  BY DEF Configuration!PrecedenceHolds
<1>1. \A k \in Configuration!Keys : Configuration!Giver(k) = GiverIn(k)
  BY ReadyIs, GiverIs
<1>2. Configuration!Locator = LocatorIn /\ LocatorIn \in Configuration!Keys
  BY <1>1 DEF Configuration!Locator, LocatorIn, Configuration!Keys
<1>3. /\ given \in Configuration!Sources /\ e \in {"cli", "api", "anchored"} /\ ~Refused(given, e)
      /\ outcome[e].locator = OverriddenIn(given, e).locator
      /\ outcome[e].schema = OverriddenIn(given, e).schema /\ outcome[e].dirs = DirectoriesIn(given, e)
  BY ReadyIs
<1>4. /\ OverriddenIn(given, e).locator.from = GiverIn(LocatorIn)
      /\ GiverIn("schema") = IF Configuration!Given(OverriddenIn(given, e).schema)
                             THEN OverriddenIn(given, e).schema.from ELSE "default"
      /\ DirectoriesIn(given, e).from \in {GiverIn("dir"), GiverIn("dirs")}
      /\ GiverIn("dir") = "arg" => DirectoriesIn(given, e).from = "arg"
  BY <1>3, PrecedenceOfOne
<1> QED
  BY <1>1, <1>2, <1>3, <1>4 DEF Configuration!Keys

\* PathsFollowTheirSource.
LEMMA OutcomesFollowPaths ==
  ASSUME AnswersAreMade, Configuration!ConfigResolutionAssumption
  PROVE  Configuration!PathsFollowTheirSource
<1> SUFFICES ASSUME NEW e \in Entries, Configuration!Ready(e)
             PROVE  /\ outcome[e].dirs.from \in {"root", "prod"} /\ outcome[e].dirs.v \in Configuration!Relative
                         => outcome[e].dirs.base = "folder"
                    /\ (/\ outcome[e].locator.from \in {"root", "prod"}
                        /\ outcome[e].locator.v \in Configuration!Relative
                        /\ Configuration!Locator # "database" \/ Configuration!FileType(outcome[e].locator.from))
                         => outcome[e].locator.base = "folder"
                    /\ outcome[e].dirs.from = "arg" /\ outcome[e].dirs.v \in Configuration!Relative
                         => outcome[e].dirs.base = "cwd"
                    /\ (outcome[e].locator.from \in {"os", "arg"} /\ outcome[e].locator.v \in Configuration!Relative
                          /\ e # "anchored") => outcome[e].locator.base = "cwd"
  BY DEF Configuration!PathsFollowTheirSource
<1>1. \A k \in Configuration!Keys : Configuration!Giver(k) = GiverIn(k)
  BY ReadyIs, GiverIs
<1>2. Configuration!Locator = LocatorIn
  BY <1>1 DEF Configuration!Locator, LocatorIn, Configuration!Keys
<1>3. LocatorIn = KeyIn(given, e)
  BY ReadyIs, PrecedenceOfOne
<1>4. \A from : Configuration!FileType(from) = FileTypeIn(given, from)
  BY DEF Configuration!FileType, FileTypeIn
<1> QED
  BY <1>2, <1>3, <1>4, ReadyIs, PathsOfOne

\* NothingUnresolved.
LEMMA OutcomesAreResolved ==
  ASSUME AnswersAreMade, Configuration!ConfigResolutionAssumption
  PROVE  Configuration!NothingUnresolved
<1> SUFFICES ASSUME NEW e \in Entries, Configuration!Ready(e)
             PROVE  /\ outcome[e].dirs.v \notin Configuration!Unusable \cup Configuration!UnusableLists
                    /\ outcome[e].locator.v \notin {"strange", "fileUrlEmpty"}
                    /\ outcome[e].type = "file" => outcome[e].locator.v \notin {"strangeUrl", "serverUrl"}
                    /\ (e # "cli" \/ ~given.offline)
                         => {outcome[e].dirs.v, outcome[e].locator.v} \cap {"secret", "secretUrl"} = {}
  BY DEF Configuration!NothingUnresolved
<1> QED
  BY ReadyIs, ReferencesOfOne DEF OnlineIn

\* EmptyNeverFallsBack.
LEMMA OutcomesNeverFallBack ==
  ASSUME AnswersAreMade, Configuration!ConfigResolutionAssumption
  PROVE  Configuration!EmptyNeverFallsBack
<1> DEFINE key == Configuration!Locator
<1> SUFFICES ASSUME NEW e \in Entries, Configuration!Ready(e), outcome[e].type = "file",
                    Configuration!Chosen = "prod", Configuration!Giver("type") # "default",
                    Configuration!File("prod")[key].v = ""
             PROVE  outcome[e].locator.from # "root"
  BY DEF Configuration!EmptyNeverFallsBack
<1>1. /\ given \in Configuration!Sources /\ e \in {"cli", "api", "anchored"}
      /\ ~Refused(given, e) /\ ~NoEnvironment(given)
      /\ outcome[e].locator = OverriddenIn(given, e).locator /\ OverriddenIn(given, e).type = "file"
  BY ReadyIs
<1>2. BlockIn(given, "prod")[key].v = ""
  BY Readings
<1>3. key \in Configuration!Keys
  BY DEF Configuration!Locator, Configuration!Keys
<1>4. \A k \in Configuration!Keys : Configuration!Giver(k) = GiverIn(k)
  BY <1>1, GiverIs
<1> HIDE DEF key
<1>5. NameIn(given) = "prod"
  <2>1. given.file # "broken"
    BY <1>2, <1>3 DEF BlockIn, Configuration!None
  <2>2. given.file = "ok"
    BY <1>1, <2>1 DEF Configuration!Sources
  <2> QED
    BY <2>2 DEF Configuration!Chosen, NameIn
<1>6. \E x \in {VariablesIn(given)["type"], BlockIn(given, "prod")["type"], BlockIn(given, "root")["type"]} :
        Configuration!Given(x)
  <2>1. ~Configuration!Given(ArgumentsIn(given)["type"])
    <3>1. ArgumentsIn(given)["type"] = Configuration!None
      BY <1>1, ArgumentsRead DEF Configuration!Keys
    <3>2. ~Configuration!Given(Configuration!None)
      BY DEF Configuration!Given, Configuration!None, Configuration!Empty
    <3> QED
      BY <3>1, <3>2
  <2> QED
    BY <1>4, <2>1 DEF GiverIn, Configuration!Keys
<1>7. key = KeyIn(given, e)
  <2>1. Configuration!Locator = LocatorIn
    BY <1>4 DEF Configuration!Locator, LocatorIn, Configuration!Keys
  <2>2. LocatorIn = KeyIn(given, e)
    BY <1>1, PrecedenceOfOne
  <2> QED
    BY <2>1, <2>2 DEF key
<1> QED
  BY <1>1, <1>2, <1>3, <1>5, <1>6, <1>7, EmptyOfOne

\* The configuration's entries have their answers in every state.
LEMMA AnswersAlways ==
  ASSUME ScriptRunAssumption
  PROVE  ScriptsSpec => [](part = "configuration" => AnswersAreMade)
<1> DEFINE Inv == part = "configuration" => AnswersAreMade
<1>1. ScriptsInit => Inv
  BY FirstStage DEF ScriptsInit
<1>2. Inv /\ [ScriptsNext]_scriptsVars => Inv'
  <2> SUFFICES ASSUME part = "configuration" => AnswersAreMade, [ScriptsNext]_scriptsVars, part' = "configuration"
               PROVE  AnswersAreMade'
    OBVIOUS
  <2>1. part = "configuration"
    BY DEF ScriptsNext, scriptsVars, MySqlOnly, LexicalOnly, SessionOnly, CatalogOnly
  <2>2. Configuration!Next \/ UNCHANGED configVars
    BY <2>1 DEF ScriptsNext, scriptsVars
  <2> QED
    BY <2>1, <2>2, AnswersKeep
<1> QED
  BY <1>1, <1>2, PTL DEF ScriptsSpec

\* Whatever the sources say and whoever reads them, the strongest source that gives the URL,
\* the path, the "database", the schema or the scripts directory decides over that key, a URL
\* goes before a path and a path before a "database", and the command line and the API find
\* the same database and the same scripts.
THEOREM PrecedenceIsKept ==
  ASSUME ScriptRunAssumption
  PROVE  ScriptsSpec => []PrecedenceKept
<1>1. Configuration!ConfigResolutionAssumption
  BY DEF ScriptRunAssumption
<1>2. (part = "configuration" => AnswersAreMade) => PrecedenceKept
  BY <1>1, OutcomesKeepPrecedence, OutcomesAgree DEF PrecedenceKept
<1> QED
  BY <1>2, AnswersAlways, PTL

\* Whatever the sources say, relative paths start where their source says (but for a
\* "database" whose type the file does not give), an empty locator is never replaced by the
\* root's under the same key, and no reference is opened as a path.
THEOREM PathsAndReferencesAreSound ==
  ASSUME ScriptRunAssumption
  PROVE  ScriptsSpec => []PathsAndReferences
<1>1. Configuration!ConfigResolutionAssumption
  BY DEF ScriptRunAssumption
<1>2. (part = "configuration" => AnswersAreMade) => PathsAndReferences
  BY <1>1, OutcomesFollowPaths, OutcomesNeverFallBack, OutcomesAreResolved DEF PathsAndReferences
<1> QED
  BY <1>2, AnswersAlways, PTL
=============================================================================
