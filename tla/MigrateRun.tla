------------------------------ MODULE MigrateRun ------------------------------
(***************************************************************************)
(* Processes that run `migrate`, `migrate --mark-as-executed`, `repair` and *)
(* `import-flyway` against one database: commands/migrate_command.py,      *)
(* _script_runner.py, executor/execution_engine.py, repair_command.py and  *)
(* import_flyway_command.py, over the lock promised by MigrationLock.      *)
(*                                                                         *)
(* A process in Unreliable may be paused past its lease, so that another   *)
(* takes the lock over while it runs.  Any process may be killed.          *)
(***************************************************************************)
EXTENDS Integers, FiniteSets

CONSTANTS
    Procs,              \* processes that run commands
    Unreliable,         \* those whose lease may expire while they live
    Commands,           \* commands they run
    Versions,           \* number of versioned scripts
    Size,               \* Size[v]: statements of script v
    Mode,               \* Mode[v]: "transactional" or "autocommit"
    TransactionalDdl,   \* the engine rolls DDL back
    FlywayApplied,      \* versions in Flyway's history table
    Tokens, NoToken, Ownerless

ASSUME RunAssumption ==
    /\ Unreliable \subseteq Procs
    /\ Commands \subseteq {"migrate", "mark", "repair", "import"}
    /\ Versions \in Nat
    /\ Size \in [1 .. Versions -> Nat \ {0}]
    /\ Mode \in [1 .. Versions -> {"transactional", "autocommit"}]
    /\ TransactionalDdl \in BOOLEAN
    /\ FlywayApplied \subseteq 1 .. Versions
ASSUME RunTokenAssumption == NoToken \notin Tokens /\ Ownerless \in Tokens

VARIABLES
    lease, spent,   \* the migration lock
    ok,             \* ok[v]: SUCCESS rows of version v in the history
    failed,         \* versions with a FAILED row
    effects,        \* effects[v]: committed executions of statements of v
    pc,             \* where each process is
    cmd,            \* the command it runs
    token,          \* the owner token of its acquisition
    todo,           \* what its plan still has to do
    at,             \* the script it runs (0: none)
    done,           \* statements of that script executed so far
    work,           \* those that its open transaction has not committed
    lost,           \* it was told that its lock is lost
    report          \* versions its result lists as applied

lockVars == <<lease, spent>>
dbVars   == <<ok, failed, effects>>
runVars  == <<cmd, token>>
stepVars == <<at, done, work>>
vars == <<lease, spent, ok, failed, effects, pc, cmd, token, todo, at, done,
          work, lost, report>>

Lock == INSTANCE MigrationLock

AllVersions == 1 .. Versions
Gone == {"idle", "dead"}
Writing == {"loop", "run", "fail", "mark", "repair"}
Locked == Writing \cup {"locked", "leave"}

Applied == {v \in AllVersions : ok[v] > 0}
First(S) == CHOOSE v \in S : \A w \in S : v <= w
Latest(S) == IF S = {} THEN 0 ELSE CHOOSE v \in S : \A w \in S : w <= v

Typed ==
    /\ lease \in Tokens \cup {NoToken}
    /\ spent \subseteq Tokens
    /\ ok \in [AllVersions -> Nat]
    /\ failed \subseteq AllVersions
    /\ effects \in [AllVersions -> Nat]
    /\ pc \in [Procs -> Gone \cup Locked \cup {"acquire", "import"}]
    /\ cmd \in [Procs -> {"none", "migrate", "mark", "repair", "import"}]
    /\ token \in [Procs -> Tokens \cup {NoToken}]
    /\ todo \in [Procs -> SUBSET AllVersions]
    /\ at \in [Procs -> 0 .. Versions]
    /\ done \in [Procs -> Nat]
    /\ work \in [Procs -> Nat]
    /\ lost \in [Procs -> BOOLEAN]
    /\ report \in [Procs -> SUBSET AllVersions]

\* How far a process is in its command and in the script it runs.
Progress(p) ==
    /\ pc[p] = "acquire" => token[p] \in Tokens
    /\ pc[p] \in {"run", "fail"} => at[p] \in todo[p]
    /\ pc[p] = "run" => done[p] <= Size[at[p]] /\ work[p] <= done[p]
    /\ pc[p] # "run" => work[p] = 0
    /\ pc[p] \in {"mark", "import"} => todo[p] # {}

TypeOK == Typed /\ \A p \in Procs : Progress(p)

Init ==
    /\ lease = NoToken
    /\ spent = {Ownerless}
    /\ ok = [v \in AllVersions |-> 0]
    /\ failed = {}
    /\ effects = [v \in AllVersions |-> 0]
    /\ pc = [p \in Procs |-> "idle"]
    /\ cmd = [p \in Procs |-> "none"]
    /\ token = [p \in Procs |-> NoToken]
    /\ todo = [p \in Procs |-> {}]
    /\ at = [p \in Procs |-> 0]
    /\ done = [p \in Procs |-> 0]
    /\ work = [p \in Procs |-> 0]
    /\ lost = [p \in Procs |-> FALSE]
    /\ report = [p \in Procs |-> {}]

Go(p, l) == pc' = [pc EXCEPT ![p] = l]

-----------------------------------------------------------------------------
(* Planning and the lock                                                   *)

\* plan_migrate and the validator: everything not applied, unless a FAILED
\* row asks for a repair.
Pending == IF failed = {} THEN AllVersions \ Applied ELSE {}

\* _filter_existing_rows: any row of the version counts, a FAILED one too.
ToImport == FlywayApplied \ (Applied \cup failed)

\* The plan read before the lock: a run without work never asks for it.
Start(p, c, t) ==
    /\ pc[p] \in Gone
    /\ t \notin spent
    /\ \A q \in Procs : token[q] # t
    /\ cmd' = [cmd EXCEPT ![p] = c]
    /\ report' = [report EXCEPT ![p] = {}]
    /\ lost' = [lost EXCEPT ![p] = FALSE]
    /\ \/ c \in {"migrate", "mark"} /\ Pending # {}
          /\ Go(p, "acquire")
          /\ todo' = [todo EXCEPT ![p] = Pending]
          /\ token' = [token EXCEPT ![p] = t]
       \/ c = "repair"
          /\ Go(p, "acquire")
          /\ todo' = [todo EXCEPT ![p] = {}]
          /\ token' = [token EXCEPT ![p] = t]
       \/ c = "import" /\ ToImport # {}
          /\ Go(p, "import")
          /\ todo' = [todo EXCEPT ![p] = ToImport]
          /\ UNCHANGED token
    /\ UNCHANGED <<lockVars, dbVars, stepVars>>

Acquire(p) ==
    /\ pc[p] = "acquire"
    /\ Lock!Grant(token[p])
    /\ Go(p, "locked")
    /\ UNCHANGED <<dbVars, runVars, todo, stepVars, lost, report>>

\* Mutant of Refused: a refused lock is not looked at.
RefusedGoesOn(p) ==
    /\ pc[p] = "acquire"
    /\ Lock!Abandon(token[p])
    /\ Go(p, "locked")
    /\ UNCHANGED <<dbVars, runVars, todo, stepVars, lost, report>>

Refused(p) ==
    /\ pc[p] = "acquire"
    /\ Lock!Abandon(token[p])
    /\ Go(p, "idle")
    /\ UNCHANGED <<dbVars, runVars, todo, stepVars, lost, report>>

\* Under the lock everything is read again; repair only reads here.
PlanAgain(p) ==
    /\ pc[p] = "locked"
    /\ cmd[p] \in {"migrate", "mark", "repair"}
    /\ LET plan == IF cmd[p] = "repair" THEN failed ELSE Pending
           step == IF cmd[p] = "migrate" THEN "loop" ELSE cmd[p]
       IN /\ todo' = [todo EXCEPT ![p] = plan]
          /\ Go(p, IF plan = {} THEN "leave" ELSE step)
    /\ UNCHANGED <<lockVars, dbVars, runVars, stepVars, lost, report>>

Release(p) ==
    IF lease = token[p] THEN lease' = NoToken /\ UNCHANGED spent
    ELSE UNCHANGED lockVars

\* A failed release is only logged.
Leave(p) ==
    /\ pc[p] = "leave"
    /\ Release(p) \/ UNCHANGED lockVars
    /\ Go(p, "idle")
    /\ UNCHANGED <<dbVars, runVars, todo, stepVars, lost, report>>

-----------------------------------------------------------------------------
(* The scripts of migrate                                                  *)

\* Mutant of NextScript: any pending script may run next.
AnyScript(p) ==
    /\ pc[p] = "loop"
    /\ todo[p] # {}
    /\ ~lost[p]
    /\ \E v \in todo[p] : at' = [at EXCEPT ![p] = v]
    /\ done' = [done EXCEPT ![p] = 0]
    /\ Go(p, "run")
    /\ UNCHANGED <<lockVars, dbVars, runVars, todo, work, lost, report>>

\* The next script starts: whatever transaction is open is rolled back and a
\* new one begins, unless the script needs autocommit.
NextScript(p) ==
    /\ pc[p] = "loop"
    /\ todo[p] # {}
    /\ ~lost[p]
    /\ at' = [at EXCEPT ![p] = First(todo[p])]
    /\ done' = [done EXCEPT ![p] = 0]
    /\ Go(p, "run")
    /\ UNCHANGED <<lockVars, dbVars, runVars, todo, work, lost, report>>

\* Nothing left, the lock is lost, or the script could not be started (its
\* transaction did not begin, its SQL was refused).
LoopEnds(p) ==
    /\ pc[p] = "loop"
    /\ Go(p, "leave")
    /\ UNCHANGED <<lockVars, dbVars, runVars, todo, stepVars, lost, report>>

\* A statement outside a transaction that can undo it.
Immediate(v) == Mode[v] = "autocommit" \/ ~TransactionalDdl

Execute(p) ==
    /\ pc[p] = "run"
    /\ done[p] < Size[at[p]]
    /\ done' = [done EXCEPT ![p] = @ + 1]
    /\ IF Immediate(at[p])
       THEN effects' = [effects EXCEPT ![at[p]] = @ + 1] /\ UNCHANGED work
       ELSE work' = [work EXCEPT ![p] = @ + 1] /\ UNCHANGED effects
    /\ UNCHANGED <<lockVars, ok, failed, pc, runVars, todo, at, lost, report>>

\* Mutant of StatementFails: the failure path commits instead of rolling back.
StatementFailsKeeps(p) ==
    /\ pc[p] = "run"
    /\ effects' = [effects EXCEPT ![at[p]] = @ + work[p]]
    /\ work' = [work EXCEPT ![p] = 0]
    /\ Go(p, "fail")
    /\ UNCHANGED <<lockVars, ok, failed, runVars, todo, at, done, lost, report>>

\* _handle_statement_failure: a statement, or the provider's verdict after
\* the last one, failed; the rollback comes first.
StatementFails(p) ==
    /\ pc[p] = "run"
    /\ work' = [work EXCEPT ![p] = 0]
    /\ Go(p, "fail")
    /\ UNCHANGED <<lockVars, dbVars, runVars, todo, at, done, lost, report>>

\* ... and the FAILED row in a transaction of its own, which may fail too.
RecordFailure(p) ==
    /\ pc[p] = "fail"
    /\ failed' \in {failed \cup {at[p]}, failed}
    /\ Go(p, "leave")
    /\ UNCHANGED <<lockVars, ok, effects, runVars, todo, stepVars, lost, report>>

Commits(p) ==
    /\ ok' = [ok EXCEPT ![at[p]] = @ + 1]
    /\ effects' = [effects EXCEPT ![at[p]] = @ + work[p]]
    /\ UNCHANGED failed

\* Mutant of RecordAndCommit: the row is written before the last statement.
RecordEarly(p) ==
    /\ pc[p] = "run"
    /\ done[p] >= Size[at[p]] - 1
    /\ Commits(p)
    /\ work' = [work EXCEPT ![p] = 0]
    /\ todo' = [todo EXCEPT ![p] = @ \ {at[p]}]
    /\ report' = [report EXCEPT ![p] = @ \cup {at[p]}]
    /\ Go(p, "loop")
    /\ UNCHANGED <<lockVars, runVars, at, done, lost>>

\* The row joins the script's transaction, or follows an autocommit script in
\* a short one; only then is the script reported applied.
RecordAndCommit(p) ==
    /\ pc[p] = "run"
    /\ done[p] = Size[at[p]]
    /\ Commits(p)
    /\ work' = [work EXCEPT ![p] = 0]
    /\ todo' = [todo EXCEPT ![p] = @ \ {at[p]}]
    /\ report' = [report EXCEPT ![p] = @ \cup {at[p]}]
    /\ Go(p, "loop")
    /\ UNCHANGED <<lockVars, runVars, at, done, lost>>

\* The row or the commit failed: no FAILED row.  When the answer to the
\* commit was lost, the database may have committed.
RecordFails(p) ==
    /\ pc[p] = "run"
    /\ done[p] = Size[at[p]]
    /\ Commits(p) \/ UNCHANGED dbVars
    /\ work' = [work EXCEPT ![p] = 0]
    /\ Go(p, "leave")
    /\ UNCHANGED <<lockVars, runVars, todo, at, done, lost, report>>

-----------------------------------------------------------------------------
(* The other commands                                                      *)

\* Each row of --mark-as-executed is committed on its own; the lock is not
\* looked at again.
MarkScript(p) ==
    /\ pc[p] = "mark"
    /\ LET v == First(todo[p])
       IN /\ ok' = [ok EXCEPT ![v] = @ + 1]
          /\ todo' = [todo EXCEPT ![p] = @ \ {v}]
          /\ report' = [report EXCEPT ![p] = @ \cup {v}]
          /\ Go(p, IF todo[p] = {v} THEN "leave" ELSE "mark")
    /\ UNCHANGED <<lockVars, failed, effects, runVars, stepVars, lost>>

MarkFails(p) ==
    /\ pc[p] = "mark"
    /\ Go(p, "leave")
    /\ UNCHANGED <<lockVars, dbVars, runVars, todo, stepVars, lost, report>>

\* Mutant of RepairRows: every row of a failed version goes.
RepairAllRows(p) ==
    /\ pc[p] = "repair"
    /\ failed' = failed \ todo[p]
    /\ ok' = [v \in AllVersions |-> IF v \in todo[p] THEN 0 ELSE ok[v]]
    /\ Go(p, "leave")
    /\ UNCHANGED <<lockVars, effects, runVars, todo, stepVars, lost, report>>

\* delete_failed_migration_entry for each, in one history_transaction.
RepairRows(p) ==
    /\ pc[p] = "repair"
    /\ failed' = failed \ todo[p]
    /\ Go(p, "leave")
    /\ UNCHANGED <<lockVars, ok, effects, runVars, todo, stepVars, lost, report>>

RepairFails(p) ==
    /\ pc[p] = "repair"
    /\ Go(p, "leave")
    /\ UNCHANGED <<lockVars, dbVars, runVars, todo, stepVars, lost, report>>

\* import-flyway takes no lock; its rows are committed one by one.
ImportRow(p) ==
    /\ pc[p] = "import"
    /\ LET v == First(todo[p])
       IN /\ ok' = [ok EXCEPT ![v] = @ + 1]
          /\ todo' = [todo EXCEPT ![p] = @ \ {v}]
          /\ Go(p, IF todo[p] = {v} THEN "idle" ELSE "import")
    /\ UNCHANGED <<lockVars, failed, effects, runVars, stepVars, lost, report>>

ImportFails(p) ==
    /\ pc[p] = "import"
    /\ Go(p, "idle")
    /\ UNCHANGED <<lockVars, dbVars, runVars, todo, stepVars, lost, report>>

-----------------------------------------------------------------------------
(* Interrupts, crashes and leases                                          *)

\* A signal turned into an exception: the lock is released on the way out and
\* the connection is closed with its transaction.
Interrupt(p) ==
    /\ pc[p] \in Locked
    /\ Release(p)
    /\ work' = [work EXCEPT ![p] = 0]
    /\ Go(p, "idle")
    /\ UNCHANGED <<dbVars, runVars, todo, at, done, lost, report>>

Crash(p) ==
    /\ pc[p] \notin Gone
    /\ work' = [work EXCEPT ![p] = 0]
    /\ Go(p, "dead")
    /\ UNCHANGED <<lockVars, dbVars, runVars, todo, at, done, lost, report>>

\* A lease is reclaimed once nobody refreshes it: its holder is gone, or may
\* be paused (LeaseLock shows that no other lease is).
Expire ==
    /\ lease # NoToken
    /\ \A p \in Procs \ Unreliable : token[p] = lease => pc[p] \in Gone
    /\ lease' = NoToken
    /\ UNCHANGED <<spent, dbVars, pc, runVars, todo, stepVars, lost, report>>

NoticeLoss(p) ==
    /\ pc[p] \in Locked
    /\ ~lost[p]
    /\ p \in Unreliable
    /\ lost' = [lost EXCEPT ![p] = TRUE]
    /\ UNCHANGED <<lockVars, dbVars, pc, runVars, todo, stepVars, report>>

Migrating(p) ==
    \/ NextScript(p) \/ LoopEnds(p)
    \/ Execute(p) \/ StatementFails(p) \/ RecordFailure(p)
    \/ RecordAndCommit(p) \/ RecordFails(p)

Next ==
    \/ \E p \in Procs, c \in Commands, t \in Tokens : Start(p, c, t)
    \/ \E p \in Procs :
         \/ Acquire(p) \/ Refused(p) \/ PlanAgain(p) \/ Leave(p)
         \/ Migrating(p)
         \/ MarkScript(p) \/ MarkFails(p)
         \/ RepairRows(p) \/ RepairFails(p)
         \/ ImportRow(p) \/ ImportFails(p)
         \/ Interrupt(p) \/ Crash(p) \/ NoticeLoss(p)
    \/ Expire

Spec == Init /\ [][Next]_vars

-----------------------------------------------------------------------------
(* Properties                                                              *)

\* "nothing that writes the schema history runs at the same time as a
\* migration" (CHANGELOG.md): between reading its plan and its last write a
\* command is the only one in that span.
SoleHistoryWriter ==
    \A p, q \in Procs :
        pc[p] \in Writing /\ pc[q] \in Writing \cup {"import"} => p = q

\* A transactional script is in the database whole or not at all, whatever
\* failed, was killed or was paused in the middle of it.
AtomicScripts ==
    \A v \in AllVersions :
        ~Immediate(v) => \E n \in 0 .. effects[v] : effects[v] = n * Size[v]

\* No version is recorded as applied before the versions below it, even when
\* two runs overlap because a lease expired.
AppliedInOrder ==
    \A v \in Applied : \A w \in 1 .. v : w \in Applied

\* What a run reports as applied is in the history, whoever else wrote it.
ReportIsTrue == \A p \in Procs : report[p] \subseteq Applied

\* Overlapping runs leave a history in order, and tell no more than it.
HistoryIsInOrder == AppliedInOrder /\ ReportIsTrue

\* A SUCCESS row is never taken out: repair only removes FAILED rows, also
\* when its plan went stale while it was paused.
AppliedStays ==
    [][\A v \in AllVersions : ok'[v] >= ok[v]]_vars

\* A script with a SUCCESS row had every statement executed, for scripts no
\* transaction protects: a killed or failed run leaves no row to skip it by.
RowsAreEarned == \A v \in Applied : effects[v] >= Size[v]

\* A version is recorded once: a run that waited for the lock does not run
\* what the holder applied meanwhile, and a retry follows no success.
AppliedOnce == \A v \in AllVersions : ok[v] <= 1

\* A row stands for exactly one complete execution.
RowsMeanRuns == RowsAreEarned /\ AppliedOnce

\* With live holders and transactional scripts the commands keep the promise
\* of AtomicMigrations.
Promise == INSTANCE AtomicMigrations WITH current <- Latest(Applied)
PromiseSpec == Promise!PromiseSpec
=============================================================================
