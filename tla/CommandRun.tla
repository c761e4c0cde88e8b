----------------------------- MODULE CommandRun -----------------------------
(***************************************************************************)
(* What surrounds the work of a command: preflight, header, lock, callback *)
(* events, the script runner with its script events and journal entries,   *)
(* error handlers, release and footer, for migrate, migrate                *)
(* --mark-as-executed, undo, clean, baseline and validate, with every call *)
(* that can raise raising.  One executor runs one command after another,   *)
(* so its journal outlives a command.                                      *)
(*                                                                         *)
(* What the scripts do to the database is MigrateRun's and                 *)
(* ProviderSession's subject; here a script succeeds, fails (the engine    *)
(* put the error on the result) or raises.                                 *)
(***************************************************************************)
EXTENDS Naturals, Sequences, Functions

CONSTANTS
  Commands,    \* the commands of this instance
  Scripts,     \* number of scripts a run may plan
  Stmts,       \* statements of a script
  MaxRuns,     \* bound: commands one executor runs
  Interrupts   \* a signal may end the process at any point

Known == {"migrate", "mark", "undo", "clean", "baseline", "validate"}

ASSUME CommandAssumption ==
  /\ Commands \subseteq Known /\ Scripts \in Nat /\ Stmts \in Nat \ {0}
  /\ MaxRuns \in Nat /\ Interrupts \in BOOLEAN

VARIABLES
  c,  \* the command that runs: see TypeOK
  n   \* commands begun

vars == <<c, n>>

Keys == {"V", "U"} \X (1..Scripts)
None == <<"none", 0>>
Phases == {"idle", "preflight", "target", "plan", "lock", "replan", "before", "loop", "eachBefore",
           "exec", "eachAfter", "after", "drop", "record", "final", "release",
           "footer", "dead"}
RegularEvents ==
  {"beforeMigrate", "beforeVersioned", "beforeUndo", "beforeClean", "beforeValidate",
   "afterVersioned", "afterMigrate", "afterUndo", "afterClean", "afterValidate",
   "beforeEach", "beforeEachMigrate", "afterEachMigrate", "afterEach"}
ErrorEvents == {"afterMigrateError", "afterUndoError", "afterCleanError"}

Entry == [t: {"start", "stmt", "done", "stmtFailed", "end"}, i: 0..Stmts, ok: BOOLEAN,
          run: 0..MaxRuns, own: BOOLEAN]
Journal == [current: Keys \cup {None}, of: [Keys -> SUBSET Entry]]
Mark ==
  [k: {"cb", "footer"}, e: RegularEvents \cup ErrorEvents \cup Commands, s: {None},
   lock: BOOLEAN, ok: BOOLEAN]
    \cup [k: {"started", "completed", "failed"}, e: {""}, s: Keys, lock: BOOLEAN, ok: BOOLEAN]

\* The record of the command that runs.
Command ==
  [cmd: Commands \cup {"none"}, dry: BOOLEAN, pc: Phases, next: {"final", "footer"},
   todo: Seq(RegularEvents), cur: 1..Scripts + 1, catalog: BOOLEAN, lock: BOOLEAN, err: BOOLEAN,
   jopen: BOOLEAN, started: BOOLEAN, terminal: BOOLEAN, trace: Seq(Mark), journal: Journal]

TypeOK == n \in 0..MaxRuns /\ c \in Command

\* A command object and its result; the journal is the executor's.
Fresh(cmd, dry, journal) ==
  [cmd |-> cmd, dry |-> dry, pc |-> "preflight", next |-> "final", todo |-> << >>, cur |-> 1,
   catalog |-> FALSE, lock |-> FALSE, err |-> FALSE, jopen |-> FALSE, started |-> FALSE,
   terminal |-> FALSE, trace |-> << >>, journal |-> journal]

Init ==
  /\ n = 0
  /\ c = [Fresh("none", FALSE, [current |-> None, of |-> [k \in Keys |-> {}]]) EXCEPT !.pc = "idle"]

-----------------------------------------------------------------------------
(* The journal. *)

\* Mutant: nothing is replaced.
NeverSame(a, b) == FALSE

\* Entries of one slot replace each other: a migration keeps one end entry, a
\* statement index one start and one complete entry.
SameSlot(a, b) == a.t = b.t /\ a.i = b.i /\ a.t \in {"end", "stmt", "done"}

\* The journal of a script is the set of its entries; new ones of different slots.
Written(j, key, entries) ==
  [j EXCEPT !.of[key] = {old \in @ : \A e \in entries : ~SameSlot(old, e)} \cup entries]

NewEntry(t, i, ok, own) == [t |-> t, i |-> i, ok |-> ok, run |-> n, own |-> own]

StartMigration(j, key) ==
  Written([j EXCEPT !.current = key], key, {NewEntry("start", 0, TRUE, TRUE)})

EndMigration(j, key, ok) ==
  IF j.current # key THEN j
  ELSE [Written(j, key, {NewEntry("end", 0, ok, TRUE)}) EXCEPT !.current = None]

Statement(i, ok, own) ==
  {NewEntry("stmt", i, TRUE, own), NewEntry(IF ok THEN "done" ELSE "stmtFailed", i, ok, own)}

\* execute_statement journals under the current migration, if there is one.
RecordStatements(j, entries) == IF j.current = None THEN j ELSE Written(j, j.current, entries)

\* The statements of a script: k succeed, then the next one fails if fails holds.
RecordScript(j, k, fails) ==
  RecordStatements(j, (UNION {Statement(i, TRUE, TRUE) : i \in 1..k})
                        \cup (IF fails THEN Statement(k + 1, FALSE, TRUE) ELSE {}))

-----------------------------------------------------------------------------
(* Callback events. *)

BeforeEvents(cmd) ==
  CASE cmd = "migrate" -> <<"beforeMigrate", "beforeVersioned">>
    [] cmd = "undo" -> <<"beforeUndo">>
    [] cmd = "clean" -> <<"beforeClean">>
    [] cmd = "validate" -> <<"beforeValidate">>

AfterEvents(cmd) ==
  CASE cmd = "migrate" -> <<"afterVersioned", "afterMigrate">>
    [] cmd = "undo" -> <<"afterUndo">>
    [] cmd = "clean" -> <<"afterClean">>
    [] cmd = "validate" -> <<"afterValidate">>

EachBefore(cmd) == IF cmd = "migrate" THEN <<"beforeEach", "beforeEachMigrate">> ELSE <<"beforeEach">>
EachAfter(cmd) == IF cmd = "migrate" THEN <<"afterEachMigrate", "afterEach">> ELSE <<"afterEach">>

ErrorEvent(cmd) ==
  CASE cmd = "undo" -> "afterUndoError" [] cmd = "clean" -> "afterCleanError"
    [] OTHER -> "afterMigrateError"

Key(x) == <<IF x.cmd = "undo" THEN "U" ELSE "V", x.cur>>

\* A callback event or the footer, and a script event.
Noted(x, k, e, ok) ==
  [x EXCEPT !.trace = Append(@, [k |-> k, e |-> e, s |-> None, lock |-> x.lock, ok |-> ok])]
Told(x, k, ok) ==
  [x EXCEPT !.trace = Append(@, [k |-> k, e |-> "", s |-> Key(x), lock |-> x.lock, ok |-> ok])]

\* One event's callbacks ran, the last of them with this outcome; the catalog of
\* callbacks is read once per command, and only that read can still fail.
Ran(x, e, ok) ==
  [Noted(x, "cb", e, ok) EXCEPT !.catalog = TRUE,
                                !.journal = RecordStatements(@, Statement(0, ok, FALSE))]

\* Firing an error event: a failing error callback is only logged, a catalog that
\* cannot be read raises.
FireError(x) ==
  {[to |-> Ran(x, ErrorEvent(x.cmd), ok), raised |-> FALSE] : ok \in BOOLEAN}
    \cup (IF x.catalog THEN {} ELSE {[to |-> x, raised |-> TRUE]})

-----------------------------------------------------------------------------
(* Where an exception goes. *)

Goto(x, pc) == [x EXCEPT !.pc = pc]
Failed(x) == [x EXCEPT !.err = TRUE]
ToAfter(x) == [Goto(x, "after") EXCEPT !.todo = AfterEvents(x.cmd)]
Release(x, next) == [Goto(x, "release") EXCEPT !.next = next]

\* migrate: the handler around the locked block.  mark-as-executed fires no error
\* event; a refusal before anything ran fires none either.
MigrateHandler(x, refusal) ==
  IF refusal \/ x.cmd = "mark" THEN {Release(Failed(x), "final")}
  ELSE {Release(f.to, IF f.raised THEN "footer" ELSE "final") : f \in FireError(Failed(x))}

\* Mutant: the error callbacks of undo run after its lock is released.
UndoHandlerUnlocked(x, refusal) ==
  {Release(f.to, "footer") : f \in FireError([Failed(x) EXCEPT !.lock = FALSE])}

\* undo: pushed on the lock's exit stack, so it runs before the release.
UndoHandler(x, refusal) ==
  IF refusal THEN {Release(Failed(x), "footer")}
  ELSE {Release(f.to, "footer") : f \in FireError(Failed(x))}

\* clean: the lifecycle's on_error; validate and baseline have none.
Raises(x, refusal) ==
  CASE x.cmd \in {"migrate", "mark"} -> MigrateHandler(x, refusal)
    [] x.cmd = "undo" -> UndoHandler(x, refusal)
    [] x.cmd = "clean" -> {Goto(f.to, "footer") : f \in FireError(Failed(x))}
    [] OTHER -> {Release(Failed(x), "footer")}

\* ScriptRunner.run: an exception ends what the script started, once, fires the
\* error event unless it is a preflight refusal, and stops the loop.
RunnerFails(x, refusal) ==
  LET closed == [x EXCEPT !.jopen = FALSE,
                          !.journal = IF x.jopen THEN EndMigration(@, Key(x), FALSE) ELSE @]
      ended == IF x.started /\ ~x.terminal THEN Told(closed, "failed", FALSE)
               ELSE closed
      failed == [Failed(ended) EXCEPT !.terminal = TRUE]
  IN  IF refusal THEN {ToAfter(failed)}
      ELSE UNION {IF f.raised THEN Raises(f.to, FALSE) ELSE {ToAfter(f.to)} :
                    f \in FireError(failed)}

\* beforeUndo and beforeClean failing: the error is set, the error event fired, the
\* command ends there; beforeMigrate and the others raise.
BeforeFails(x, refusal) ==
  IF x.cmd \in {"undo", "clean"} /\ ~refusal
  THEN UNION {IF f.raised THEN Raises(f.to, FALSE)
              ELSE {IF x.cmd = "undo" THEN Release(f.to, "footer") ELSE Goto(f.to, "footer")} :
                f \in FireError(Failed(x))}
  ELSE Raises(x, refusal)

Thrown(x, refusal) ==
  CASE x.pc \in {"eachBefore", "exec", "eachAfter"} -> RunnerFails(x, refusal)
    [] x.pc = "before" -> BeforeFails(x, refusal)
    [] OTHER -> Raises(x, refusal)

-----------------------------------------------------------------------------
(* The steps of a command. *)

At(pc) == c.pc = pc
Step(x) == c' = x /\ UNCHANGED n
Throws(refusal) == \E x \in Thrown(c, refusal) : Step(x)

CanBeDry == {"migrate", "undo", "clean", "baseline"}

Begin ==
  /\ At("idle") /\ n < MaxRuns /\ n' = n + 1
  /\ \E cmd \in Commands : \E dry \in (IF cmd \in CanBeDry THEN BOOLEAN ELSE {FALSE}) :
       c' = Fresh(cmd, dry, c.journal)

\* clean may be disabled by configuration: the command returns before its preflight.
CleanDisabled == At("preflight") /\ c.cmd = "clean" /\ ~c.dry /\ Step(Goto(Failed(c), "idle"))

\* A connection or history table that cannot be had propagates without a footer.
PreflightFails == At("preflight") /\ Step(Goto(Failed(c), "idle"))

Preflight ==
  /\ At("preflight")
  /\ Step(CASE c.cmd \in {"migrate", "mark"} -> Goto(c, "plan")
            [] c.cmd \in {"undo", "baseline"} -> Goto(c, "lock")
            [] c.cmd = "clean" -> Goto(c, "target")
            [] OTHER -> [Goto(c, "before") EXCEPT !.todo = BeforeEvents(c.cmd)])

\* clean's target schema is refused, or set; a dry run lists the objects and ends.
CleanTarget ==
  /\ At("target")
  /\ \/ Step(Goto(Failed(c), "footer"))
     \/ Throws(FALSE)
     \/ Step(IF c.dry THEN Goto(c, "footer")
             ELSE [Goto(c, "before") EXCEPT !.todo = BeforeEvents("clean")])

\* migrate before the lock: a plan, its preflight and its validation; a second
\* connection check may raise the preflight error, which passes every handler.
Plan ==
  /\ At("plan")
  /\ \/ ~c.dry /\ Step(Goto(c, "lock"))
     \/ Step(Goto(c, "footer"))            \* nothing pending, or a dry run
     \/ Step(Goto(Failed(c), "footer"))    \* strict order, validation, any exception
     \/ Step(Goto(Failed(c), "idle"))

\* A dry run goes on without the lock: undo plans, baseline looks at the history.
AcquireLock ==
  /\ At("lock")
  /\ \/ Step([Goto(c, IF c.cmd = "baseline" THEN "record" ELSE "replan") EXCEPT !.lock = ~c.dry])
     \/ ~c.dry /\ Step(Goto(Failed(c), "footer"))   \* another migration may be running
     \/ c.cmd = "undo" /\ ~c.dry /\ Step(Goto(c, "footer"))  \* no history table
     \/ ~c.dry /\ (IF c.cmd \in {"migrate", "mark"} THEN Throws(FALSE)
                   ELSE Step(Goto(Failed(c), "footer")))

\* Plan under the lock.  undo reports a refusal without its error event, and a dry
\* run of it ends with the plan.
Replan ==
  /\ At("replan")
  /\ \/ ~c.dry /\ \E first \in 1..Scripts :
          Step(IF c.cmd = "mark" THEN Goto(c, "record")
               ELSE [Goto(c, "before") EXCEPT !.cur = first, !.todo = BeforeEvents(c.cmd)])
     \/ Step(Release(c, IF c.cmd = "undo" THEN "footer" ELSE "final"))
     \/ Step(Release(Failed(c), "footer"))
     \/ Throws(FALSE)
     \/ c.cmd # "mark" /\ ~c.dry /\ Throws(TRUE)

\* migrate and undo fire their closing events only when nothing failed.
SkipsAfter(x) == x.pc = "after" /\ x.err /\ x.cmd \in {"migrate", "undo"}

\* The next event of the phase: its callbacks run, one of them fails, or the
\* catalog of callbacks cannot be read.
Fire ==
  /\ c.pc \in {"before", "eachBefore", "eachAfter", "after"} /\ c.todo # << >>
  /\ ~SkipsAfter(c)
  /\ LET ran(ok) == [Ran(c, Head(c.todo), ok) EXCEPT !.todo = Tail(@)]
     IN  \/ Step(ran(TRUE))
         \/ \E x \in Thrown(ran(FALSE), FALSE) : Step(x)
         \/ c.cmd \in {"migrate", "undo"} /\ \E x \in Thrown(ran(FALSE), TRUE) : Step(x)
         \/ ~c.catalog /\ Throws(FALSE)

Fired(pc) == At(pc) /\ c.todo = << >>

BeforeDone ==
  /\ Fired("before")
  /\ Step(Goto(c, CASE c.cmd = "clean" -> "drop" [] c.cmd = "validate" -> "record"
                    [] OTHER -> "loop"))

MoreScripts(x) == x.cur <= Scripts

\* The loop over the scripts: it stops before a script when the lock is lost or the
\* script's SQL cannot be shown.
NextScript ==
  /\ At("loop")
  /\ \/ /\ MoreScripts(c)
        /\ Step([Goto(c, "eachBefore") EXCEPT !.todo = EachBefore(c.cmd), !.started = FALSE,
                                              !.terminal = FALSE])
     \/ /\ MoreScripts(c)
        /\ Step(ToAfter(Failed(c)))
     \/ /\ ~MoreScripts(c)
        /\ Step(ToAfter(c))

StartScript ==
  /\ Fired("eachBefore")
  /\ \/ Step(Told([Goto(c, "exec") EXCEPT !.journal = StartMigration(@, Key(c)),
                                            !.jopen = TRUE, !.started = TRUE],
                  "started", TRUE))
     \/ Throws(TRUE)     \* a registered preflight check refuses the script

\* The engine has rolled back, recorded the failure and set the error.
EngineFailed(x) ==
  Told([x EXCEPT !.jopen = FALSE, !.terminal = TRUE], "failed", FALSE)

\* execute_migration returns, or raises with the script's statements done or not.
ExecuteMigration ==
  /\ At("exec")
  /\ \/ LET done == [c EXCEPT !.jopen = FALSE, !.terminal = TRUE,
                        !.journal = EndMigration(RecordScript(@, Stmts, FALSE), Key(c), TRUE)]
        IN  Step([Told(Goto(done, "eachAfter"), "completed", TRUE)
                    EXCEPT !.todo = EachAfter(c.cmd)])
     \/ \E k \in 0..Stmts - 1 :
          LET x == EngineFailed([Failed(c) EXCEPT
                     !.journal = EndMigration(RecordScript(@, k, TRUE), Key(c), FALSE)])
          IN  \E f \in FireError(x) :
                \E y \in (IF f.raised THEN Raises(f.to, FALSE) ELSE {ToAfter(f.to)}) :
                   Step(y)
     \/ \E x \in Thrown([c EXCEPT !.journal = RecordScript(@, Stmts, FALSE)], FALSE) : Step(x)
     \/ Throws(TRUE)

\* Mutant: the loop leaves after its first script.
DoneEarly == Fired("eachAfter") /\ Step([Goto(c, "loop") EXCEPT !.cur = Scripts + 1])

ScriptDone == Fired("eachAfter") /\ Step([Goto(c, "loop") EXCEPT !.cur = @ + 1])

AfterDone ==
  /\ At("after") /\ (c.todo = << >> \/ SkipsAfter(c))
  /\ Step(CASE c.cmd = "migrate" -> Release(c, "final") [] c.cmd = "undo" -> Goto(c, "final")
            [] OTHER -> Goto(c, "footer"))

\* clean drops what it can, commits, and fires afterClean whatever failed.
Drop ==
  /\ At("drop")
  /\ \/ \E err \in BOOLEAN :
          Step([ToAfter(c) EXCEPT !.err = err])
     \/ Throws(FALSE)

\* validate's verdict, put on the result after afterValidate.
Verdict == c.cmd = "validate" /\ \E valid \in BOOLEAN : Step([ToAfter(c) EXCEPT !.err = ~valid])

\* The rows of --mark-as-executed, and baseline's row.
MarkedRows == c.cmd = "mark" /\ Step(Release(c, "final"))
BaselineRow == c.cmd = "baseline" /\ Step(Release(c, "footer"))

Record ==
  At("record") /\ (Verdict \/ MarkedRows \/ BaselineRow \/ Step(Release(Failed(c), "footer")))

\* The state is read again for the report: undo still under its lock, migrate after.
FinalState ==
  /\ At("final")
  /\ \/ Step(IF c.cmd = "undo" THEN Release(c, "footer") ELSE Goto(c, "footer"))
     \/ IF c.cmd = "undo" THEN Throws(FALSE) ELSE Step(Goto(Failed(c), "footer"))

ReleaseLock == At("release") /\ Step([Goto(c, c.next) EXCEPT !.lock = FALSE])

Footer == At("footer") /\ Step(Noted(Goto(c, "idle"), "footer", c.cmd, ~c.err))

\* Mutant: the lock is released by an except Exception, which SystemExit passes by.
InterruptLeaks == Interrupts /\ c.pc \notin {"idle", "dead"} /\ Step(Goto(c, "dead"))

\* A signal becomes SystemExit: only the lock's finally runs.
Interrupt ==
  /\ Interrupts /\ c.pc \notin {"idle", "dead"}
  /\ Step([Goto(c, "dead") EXCEPT !.lock = FALSE])

Work ==
  \/ CleanDisabled \/ PreflightFails \/ Preflight \/ CleanTarget \/ Plan \/ AcquireLock \/ Replan \/ Fire \/ BeforeDone
  \/ NextScript \/ StartScript \/ ExecuteMigration \/ ScriptDone \/ AfterDone \/ Drop
  \/ Record \/ FinalState \/ ReleaseLock \/ Footer

Next == Begin \/ Work \/ Interrupt

\* A command that runs goes on to its end unless a signal ends it.
Spec == Init /\ [][Next]_vars /\ WF_vars(Work)

-----------------------------------------------------------------------------
(* Properties. *)

Marks == Range(c.trace)
Ended == At("idle") /\ n > 0
IsError(x) == x.k = "cb" /\ x.e \in ErrorEvents
Started(x) == x.k = "started"
Terminal(x) == x.k \in {"completed", "failed"}

\* A script that was announced as started is announced as completed or as failed,
\* never both and never twice, whichever call of the runner raised; and nothing is
\* announced as ended that was not started (ScriptRunner.run).
OneTerminalPerStart ==
  /\ \A i, j \in DOMAIN c.trace : i < j /\ c.trace[i].s = c.trace[j].s =>
       ~(Started(c.trace[i]) /\ Started(c.trace[j])) /\ ~(Terminal(c.trace[i]) /\ Terminal(c.trace[j]))
  /\ \A x \in Marks : Terminal(x) => \E y \in Marks : Started(y) /\ y.s = x.s
  /\ Ended => \A x \in Marks : Started(x) => \E y \in Marks : Terminal(y) /\ y.s = x.s

\* After the error event only the report follows: no script starts and no regular
\* callback runs on a database that failed, and the event fires once.  undo may fire
\* it again when the state cannot be read after a failed script.
ErrorIsTheLastWord ==
  \A i, j \in DOMAIN c.trace :
     i < j /\ IsError(c.trace[i]) =>
        c.trace[j].k = "footer" \/ (c.cmd = "undo" /\ IsError(c.trace[j]))

\* Scripts and callbacks of migrate and undo run under the migration lock, undo's
\* error callbacks included, and the report is written after it is released.
LockedWork ==
  \A x \in Marks :
     IF x.k = "footer" THEN ~x.lock
     ELSE ~c.dry /\ (c.cmd = "undo" \/ (c.cmd = "migrate" /\ ~IsError(x))) => x.lock

\* The last event of a command.
Closing(cmd) == AfterEvents(cmd)[Len(AfterEvents(cmd))]

\* A report of success means that every script from the first planned one on was
\* completed, that no callback failed, and that the closing event fired.
SuccessIsEarned ==
  \A x \in Marks : x.k = "footer" /\ x.ok =>
     /\ \A y \in Marks : y.ok
     /\ c.cmd \in {"migrate", "undo"} /\ (\E y \in Marks : Started(y)) =>
          /\ \E y \in Marks : y.k = "completed" /\ y.s[2] = Scripts
          /\ \E y \in Marks : y.k = "cb" /\ y.e = Closing(c.cmd)

\* The journal and the events tell the same story: no migration stays open in it, it
\* keeps one end per script, and the end of a script this run started says
\* success exactly when the completed event was emitted.
JournalAgrees ==
  Ended =>
    /\ c.journal.current = None
    /\ \A key \in Keys :
         LET ends == {e \in c.journal.of[key] : e.t = "end"}
         IN  /\ \A e, f \in ends : e = f
             /\ (\E x \in Marks : Started(x) /\ x.s = key) =>
                  \E e \in ends : /\ e.run = n
                                  /\ e.ok <=> \E x \in Marks : x.k = "completed" /\ x.s = key

\* Statements of callbacks, error callbacks included, are never journalled as the
\* statements of a script: the journal is open only while the engine runs it.
JournalIsOwn == \A key \in Keys : \A e \in c.journal.of[key] : e.own

\* What the events and the report say of a command is what happened.
EventsTellTheTruth == TypeOK /\ OneTerminalPerStart /\ SuccessIsEarned

\* Callbacks run under the lock, and none after an error event.
CallbacksInPlace == ErrorIsTheLastWord /\ LockedWork

\* The journal holds the statements of the scripts, and ends as the events do.
JournalTellsTheTruth == JournalAgrees /\ JournalIsOwn

\* A command that is over holds no lock, whichever call raised, and also when a
\* signal ended it (_migration_lock's finally and the exit stacks).
LockGivenBack == c.pc \in {"idle", "dead"} => ~c.lock

\* Whatever raises, a command that begins ends, and with the lock released, which it
\* would otherwise keep from every other until the lease expires.
CommandEnds == c.pc \notin {"idle", "dead"} ~> c.pc \in {"idle", "dead"} /\ LockGivenBack
=============================================================================
