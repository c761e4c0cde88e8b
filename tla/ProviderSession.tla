--------------------------- MODULE ProviderSession ---------------------------
(***************************************************************************)
(* One database connection under migrations, callbacks and history writes: *)
(* SqlAlchemyProvider's transaction handle and its note of work left in a  *)
(* caller's transaction, the execution engine's units and                  *)
(* history_transaction.  The connection is dblift's own or was passed to   *)
(* from_sqlalchemy(connection=...), where nothing is committed but dblift's *)
(* own transactions and the work it noted.                                 *)
(*                                                                         *)
(* SQLAlchemy begins a transaction with the first statement and refuses a  *)
(* second one; a statement that failed or a commit that failed makes it    *)
(* unusable until it is rolled back.  Where SET is transactional           *)
(* (PostgreSQL) a rollback restores the schema of the session.             *)
(***************************************************************************)
EXTENDS Naturals

CONSTANTS
  OwnKinds,      \* the units on a connection of dblift's own
  CallerKinds,   \* the units on a caller's connection
  SetIsUndone,   \* a rollback undoes SET search_path
  MaxUnits       \* bound: units and the caller's own writes

AllKinds == {"sqlMigration", "pyMigration", "autoMigration", "sqlCallback", "pyCallback",
             "history", "mark", "clean", "caller"}
SessionAssumption ==
  /\ OwnKinds \subseteq AllKinds \ {"caller"} /\ CallerKinds \subseteq AllKinds
  /\ SetIsUndone \in BOOLEAN /\ MaxUnits \in Nat

VARIABLES
  s,      \* the connection and what the provider knows of it
  unit,   \* the unit that runs
  told    \* work reported as done, but for what its owner rolled back and what
          \* was lost with a caller's transaction that could not be committed

vars == <<s, unit, told>>

Units == 1..MaxUnits
Kinds == IF s.callers THEN CallerKinds ELSE OwnKinds
Migrations == {"sqlMigration", "pyMigration", "autoMigration"}
Scripts == Migrations \cup {"sqlCallback", "pyCallback"}
\* A unit's writes: two statements and a history row.
Work(i) == {<<i, 2>>, <<i, 1>>}
Row(i) == <<i, 0>>
Failure(i) == <<i, 3>>
Tokens == Units \X (0..3)
Writes(kind, i) ==
  (IF kind \in Scripts \cup {"clean"} THEN Work(i) ELSE {})
    \cup (IF kind \in Migrations \cup {"history", "mark"} THEN {Row(i)} ELSE {})

TypeOK ==
  /\ \A f \in {"callers", "open", "broken", "handle", "noted", "applied", "here", "before"} : s[f] \in BOOLEAN
  /\ s.pending \subseteq Tokens /\ s.durable \subseteq Tokens /\ told \subseteq Tokens
  /\ unit.i \in 0..MaxUnits /\ unit.left \in 0..2
  /\ unit.pc \in {"idle", "prepare", "begin", "run", "record", "commit", "undo", "fail"}
  /\ unit.where \in {"unknown", "configured", "elsewhere"}

Init ==
  /\ \E callers \in BOOLEAN :                   \* the connection is the caller's
       s = [callers |-> callers, open |-> FALSE, broken |-> FALSE, pending |-> {}, durable |-> {},
            here |-> FALSE, before |-> FALSE,    \* the session is in the configured schema
            handle |-> FALSE,                    \* _tx
            noted |-> FALSE,                     \* _caller_work_tx is the open transaction
            applied |-> FALSE]                   \* _schema_applied_for
  /\ unit = [kind |-> "none", i |-> 0, pc |-> "idle", left |-> 0, own |-> FALSE,
             where |-> "unknown", swallowed |-> FALSE]
  /\ told = {}

-----------------------------------------------------------------------------
(* SqlAlchemyProvider. *)

Opened(x) == IF x.open THEN x ELSE [x EXCEPT !.open = TRUE, !.before = x.here]

Ended(x, kept) ==
  [x EXCEPT !.open = FALSE, !.broken = FALSE, !.handle = FALSE, !.noted = FALSE, !.pending = {},
            !.durable = IF kept THEN @ \cup x.pending ELSE @,
            !.here = IF x.open /\ ~kept /\ SetIsUndone THEN x.before ELSE @]

\* Mutant: the cached schema outlives the rollback that undid its SET.
RolledBackCached(x) == Ended(x, FALSE)

RolledBack(x) ==
  [Ended(x, FALSE) EXCEPT !.applied = IF x.open /\ SetIsUndone THEN FALSE ELSE @]

\* execute_statement and execute_query; only dblift's own connection is committed.
Executed(x, writes) ==
  LET done == [Opened(x) EXCEPT !.pending = @ \cup writes]
  IN  IF x.handle \/ x.callers THEN done ELSE Ended(done, TRUE)

\* set_current_schema.
InSchema(x) ==
  IF x.applied THEN x ELSE Executed([Opened(x) EXCEPT !.here = TRUE, !.applied = TRUE], {})

Broken(x) == [Opened(x) EXCEPT !.broken = TRUE]

\* commit_transaction: without a handle it only forgets the note.
TransactionCommitted(x) == IF x.handle THEN Ended(x, TRUE) ELSE [x EXCEPT !.noted = FALSE]

\* The commit fails: the work is lost and the connection wants a rollback.
CommitLost(x) ==
  [x EXCEPT !.broken = TRUE, !.pending = {}, !.noted = FALSE,
            !.here = IF SetIsUndone THEN x.before ELSE @]

Noted(x) == [x EXCEPT !.noted = x.open]

\* commit_caller_work: only the transaction that was noted.
CallerWorkCommitted(x) == IF x.noted THEN Ended(x, ~x.broken) ELSE x

\* execute_autocommit_statement around a statement of its own.
Autocommitted(x, writes) ==
  LET on == InSchema([RolledBack(x) EXCEPT !.handle = TRUE])
      done == [on EXCEPT !.durable = @ \cup writes, !.pending = {}, !.open = FALSE, !.handle = FALSE]
  IN  [done EXCEPT !.applied = IF SetIsUndone THEN FALSE ELSE @]

-----------------------------------------------------------------------------
(* Units. *)

Done == unit' = [unit EXCEPT !.pc = "idle"] /\ told' = told \cup Writes(unit.kind, unit.i)

Goto(pc) == unit' = [unit EXCEPT !.pc = pc] /\ told' = told

At(pc) == unit.pc = pc

\* A unit begins: migrations and callbacks select the configured schema; the
\* others have read the history.
Start(kind) ==
  /\ At("idle") /\ unit.i < MaxUnits /\ kind \in Kinds
  /\ s' = IF s.broken THEN s
          ELSE IF kind \in Scripts THEN InSchema([s EXCEPT !.applied = FALSE])
          ELSE Executed(s, {})
  /\ unit' = [kind |-> kind, i |-> unit.i + 1, left |-> IF kind \in {"history", "mark"} THEN 0 ELSE 2,
              pc |-> IF s.broken THEN "idle"
                     ELSE IF kind \in {"sqlMigration", "pyMigration"} THEN "prepare"
                     ELSE IF kind \in {"sqlCallback", "history"} THEN "begin" ELSE "run",
              own |-> FALSE, where |-> "unknown", swallowed |-> unit.swallowed /\ s.broken]
  /\ told' = told

\* Mutant: the open transaction is rolled back before dblift's work in it is settled.
PrepareForgets ==
  /\ At("prepare")
  /\ \/ s' = InSchema([Opened(RolledBack(s)) EXCEPT !.handle = TRUE]) /\ Goto("run")
     \/ s' = RolledBack(s) /\ Goto("idle")

\* _prepare_transaction: settle, roll back, begin, select the schema; begin or the
\* selection may fail.
Prepare ==
  /\ At("prepare")
  /\ LET settled == RolledBack(IF s.callers THEN CallerWorkCommitted(s) ELSE s)
     IN  \/ s' = InSchema([Opened(settled) EXCEPT !.handle = TRUE]) /\ Goto("run")
         \/ s' = settled /\ Goto("idle")

\* _prepare_transaction: the commit of the noted work fails.  The note is gone already;
\* the failure is a warning and an error for this migration alone, nothing is rolled
\* back, and what units before it reported in that transaction is lost.
SettlingFails ==
  /\ At("prepare") /\ s.callers /\ s.noted
  /\ s' = CommitLost(s)
  /\ unit' = [unit EXCEPT !.pc = "idle"]
  /\ told' = told \ s.pending

\* A callback or history_transaction begins; in a transaction that is already open
\* it goes on without one of its own, and a callback notes that now.
Begin ==
  /\ At("begin")
  /\ s' = IF ~s.open THEN [Opened(s) EXCEPT !.handle = TRUE]
          ELSE IF s.callers /\ unit.kind = "sqlCallback" THEN Noted(s) ELSE s
  /\ unit' = [unit EXCEPT !.pc = IF unit.kind = "history" THEN "record" ELSE "run", !.own = ~s.open]
  /\ told' = told

\* A statement is executed; it may leave the session in another schema.
Run ==
  /\ At("run") /\ unit.left > 0 /\ ~s.broken
  /\ \E moves \in BOOLEAN :
       LET ready == IF unit.kind \in {"sqlMigration", "sqlCallback"} THEN InSchema(s) ELSE s
           ran == IF unit.kind = "autoMigration" THEN Autocommitted(s, {<<unit.i, unit.left>>})
                  ELSE Executed(ready, {<<unit.i, unit.left>>})
           place == IF unit.kind = "autoMigration" THEN ran.here ELSE ready.here
       IN  /\ s' = [ran EXCEPT !.here = @ /\ ~moves]
           /\ unit' = [unit EXCEPT !.left = @ - 1,
                                   !.where = IF @ # "unknown" \/ unit.kind = "clean" THEN @
                                             ELSE IF place THEN "configured" ELSE "elsewhere"]
  /\ told' = told

\* A statement fails.
StatementFails ==
  /\ At("run") /\ unit.left > 0 /\ unit.kind # "clean"
  /\ s' = IF unit.kind = "autoMigration" THEN RolledBack(s) ELSE Broken(s)
  /\ IF unit.kind \in Migrations \/ unit.own THEN Goto("undo") ELSE Goto("idle")

\* The last statement was executed.
Ran ==
  /\ At("run") /\ unit.left = 0
  /\ s' = s
  /\ Goto(IF unit.kind \in Migrations \cup {"mark"} THEN "record" ELSE "commit")

\* The row of a success.  An autocommit migration's has a transaction of its own,
\* and so have the rows of baseline and repair; it may fail.
Record ==
  /\ At("record")
  /\ LET opened == IF unit.kind = "autoMigration"
                   THEN [Opened(s) EXCEPT !.handle = TRUE] ELSE s
     IN  \/ s' = Executed(opened, {Row(unit.i)}) /\ Goto("commit")
         \/ s' = Broken(opened)
            /\ IF unit.kind \in Migrations \/ unit.own THEN Goto("undo") ELSE Goto("idle")

\* The unit's transaction is committed, if it has one.  On the caller's connection
\* history rows and the objects of clean are noted.
Commit ==
  /\ At("commit") /\ ~s.broken
  /\ s' = IF s.callers /\ unit.kind \in {"mark", "clean"} THEN Noted(TransactionCommitted(s))
          ELSE IF s.callers /\ unit.kind = "history" /\ ~unit.own THEN Noted(s)
          ELSE IF unit.own \/ unit.kind \in Migrations \cup {"mark", "clean"} THEN TransactionCommitted(s)
          ELSE s
  /\ Done

\* The commit fails.  A callback's failure is only logged.
CommitFails ==
  /\ At("commit") /\ s.handle
  /\ s' = CommitLost(s)
  /\ IF unit.kind = "sqlCallback"
     THEN unit' = [unit EXCEPT !.pc = "idle", !.swallowed = TRUE] /\ told' = told
     ELSE Goto("undo")

\* The unit's transaction is rolled back; a failed migration may get a FAILED row,
\* in a transaction of its own.
Undo ==
  /\ At("undo")
  /\ \/ s' = RolledBack(s)
     \/ unit.kind \in Migrations
        /\ s' = Ended([Opened(RolledBack(s)) EXCEPT !.pending = {Failure(unit.i)}], TRUE)
  /\ Goto("idle")

\* Between units the caller writes on its connection, commits or rolls back; what it
\* rolls back is its own decision.
Caller ==
  /\ "caller" \in Kinds /\ At("idle")
  /\ \/ /\ unit.i < MaxUnits /\ ~s.broken
        /\ s' = Executed(s, {<<unit.i + 1, 1>>})
        /\ unit' = [unit EXCEPT !.i = @ + 1, !.kind = "caller"] /\ told' = told
     \/ s.open /\ ~s.broken /\ s' = Ended(s, TRUE) /\ UNCHANGED <<unit, told>>
     \/ s.open /\ s' = Ended(s, FALSE) /\ told' = told \ s.pending
        /\ unit' = [unit EXCEPT !.swallowed = FALSE]

Next ==
  \/ \E kind \in AllKinds \ {"caller"} : Start(kind)
  \/ Prepare \/ SettlingFails \/ Begin \/ Run \/ StatementFails \/ Ran \/ Record \/ Commit \/ CommitFails
  \/ Undo \/ Caller

Spec == Init /\ [][Next]_vars

-----------------------------------------------------------------------------
(* Properties. *)

\* What a migration wrote and its success row become durable together
\* (ExecutionEngine.execute_migration, _execute_via_factory); an autocommit migration's
\* row never without its statements.
MigrationAllOrNothing ==
  \A i \in Units : (i = unit.i /\ unit.kind \in Migrations) =>
    /\ Row(i) \in s.durable => Work(i) \subseteq s.durable
    /\ (unit.kind # "autoMigration" /\ s.durable \cap Work(i) # {}) => Row(i) \in s.durable

\* What a unit reported as done stays: it is durable, or on the caller's connection
\* still in the caller's transaction.  No later unit's rollback discards it, whether it
\* begins, fails or is settled first (commit_caller_work).  Two things take reported
\* work away: the caller's own rollback, and a caller's transaction whose commit fails
\* when the next migration settles it (SettlingFails); what other transactions wrote
\* stays then too.
ReportedStays == told \subseteq s.durable \cup s.pending

\* The first statement of a migration or callback runs in the configured schema,
\* whatever an earlier unit selected or a rollback restored (_apply_configured_schema,
\* the schema cache of the provider).
StartsInConfiguredSchema ==
  unit.where # "elsewhere"

\* A unit leaves no transaction of dblift's open for the next one, unless a callback's
\* commit failed.
LeavesNothingOpen == (At("idle") /\ s.handle) => unit.swallowed

\* A migration's writes and its row become durable together, every unit starts in the
\* configured schema and leaves no transaction of dblift's open.
UnitsStandAlone == TypeOK /\ MigrationAllOrNothing /\ StartsInConfiguredSchema /\ LeavesNothingOpen
=============================================================================
