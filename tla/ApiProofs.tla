------------------------------ MODULE ApiProofs ------------------------------
(***************************************************************************)
(* Proofs about the ways in, for every setup of each of them: any number   *)
(* of threads, clients, tasks and worker threads, any number of calls,     *)
(* cancellations, events and signals.                                      *)
(***************************************************************************)
EXTENDS Api, FiniteSetTheorems, SequenceTheorems, NaturalsInduction, WellFoundedInduction, TLAPS

-----------------------------------------------------------------------------
(* The asynchronous client                                                 *)

\* The tasks that wait are tasks; the variables have their types.
AsyncTypes(s) ==
    /\ Async(s)!TypeOK /\ queue \in Seq(s.tasks)
    /\ job \in [s.tasks -> s.jobs]
    /\ worker \in [task: s.tasks \cup {"none"}, state: {"idle", "run", "ok", "error"}]
    /\ asked \in [s.tasks -> BOOLEAN] /\ seen \in [s.tasks -> BOOLEAN]
    /\ DOMAIN outcome = s.tasks /\ DOMAIN told = s.tasks /\ shut \in BOOLEAN

\* The worker is busy for the one task that has the lock, a task has an outcome when it is
\* over, it was interrupted only while it waited for the worker, and the wrapped client is
\* closed only when the facade is, or is about to be.
AsyncOrder(s) ==
    /\ (worker.state = "idle") = (holder = "none")
    /\ holder # "none" => worker.task = holder /\ pc[holder] = "thread"
    /\ \A t \in s.tasks : pc[t] = "thread" => holder = t
    /\ \A t \in s.tasks : pc[t] # "done" => outcome[t] = "none"
    /\ \A t \in s.tasks : seen[t] => pc[t] \in {"thread", "done"}
    /\ shut => closed \/ (worker.state \in {"ok", "error"} /\ job[worker.task] = "close")
    /\ Async(s)!GuardBlocks
AsyncInv(s) == AsyncTypes(s) /\ AsyncOrder(s)

\* It holds at the start.
LEMMA AsyncStarts ==
    ASSUME NEW s \in TaskSetups, Async(s)!AsyncClientAssumption, Async(s)!Init
    PROVE  AsyncInv(s)
<1>1. AsyncTypes(s)
  <2>1. queue \in Seq(s.tasks)
    BY DEF Async!Init
  <2>2. Async(s)!TypeOK
    <3>1. \A i \in DOMAIN queue : queue[i] \in s.tasks
      BY <2>1
    <3> QED
      BY <3>1 DEF Async!Init, Async!TypeOK, Async!None, Async!Idle
  <2>3. job \in [s.tasks -> s.jobs] /\ worker \in [task: s.tasks \cup {"none"}, state: {"idle", "run", "ok", "error"}]
    BY DEF Async!Init, Async!None, Async!Idle
  <2>4. asked \in [s.tasks -> BOOLEAN] /\ seen \in [s.tasks -> BOOLEAN]
    BY DEF Async!Init
  <2>5. DOMAIN outcome = s.tasks /\ DOMAIN told = s.tasks /\ shut \in BOOLEAN
    BY DEF Async!Init
  <2> QED
    BY <2>1, <2>2, <2>3, <2>4, <2>5 DEF AsyncTypes
<1>2. AsyncOrder(s)
  BY DEF AsyncOrder, Async!Init, Async!GuardBlocks, Async!None, Async!Idle
<1> QED
  BY <1>1, <1>2 DEF AsyncInv

\* What the end of a task changes.
TaskOver(s, t, how) ==
    /\ pc' \in [s.tasks -> {"new", "lock", "thread", "done"}] /\ asked' \in [s.tasks -> BOOLEAN]
    /\ DOMAIN outcome' = s.tasks /\ pc'[t] = "done" /\ outcome'[t] = how
    /\ \A u \in s.tasks \ {t} : pc'[u] = pc[u] /\ outcome'[u] = outcome[u]
    /\ \A u \in s.tasks : outcome'[u] \in {"none", "ok", "error", "refused", "cancelled", "started", "blocked"}

\* A task that ends in one of the ways there are changes just that.
LEMMA TaskEnds ==
    ASSUME NEW s \in TaskSetups, AsyncTypes(s), NEW t \in s.tasks,
           NEW how \in {"ok", "error", "refused", "cancelled", "started", "blocked"}, Async(s)!End(t, how)
    PROVE  TaskOver(s, t, how)
BY DEF AsyncTypes, Async!End, Async!TypeOK, Async!None, TaskOver

\* What a step may not do: the worker starts nothing on a closed client, and a task that
\* was cancelled is not told of a result.
AsyncTold(s) ==
    /\ worker.state # "run" /\ worker'.state = "run" => ~shut
    /\ \A t \in s.tasks :
         pc[t] # "done" /\ pc'[t] = "done" /\ (asked[t] \/ seen[t]) => outcome'[t] = "cancelled"

\* Somebody cancels a task.
LEMMA TaskIsCancelled ==
    ASSUME NEW s \in TaskSetups, AsyncInv(s), NEW t \in s.tasks, Async(s)!Cancel(t)
    PROVE  AsyncInv(s)' /\ AsyncTold(s)
<1>1. AsyncTypes(s)'
  BY DEF AsyncInv, AsyncTypes, Async!Cancel, Async!TypeOK
<1>2. AsyncOrder(s)'
  BY DEF AsyncInv, AsyncTypes, AsyncOrder, Async!Cancel, Async!GuardBlocks
<1>3. AsyncTold(s)
  BY DEF AsyncInv, AsyncTypes, AsyncTold, Async!Cancel, Async!TypeOK
<1> QED
  BY <1>1, <1>2, <1>3 DEF AsyncInv

\* A task calls an operation, or is cancelled before it does.
LEMMA TaskCalls ==
    ASSUME NEW s \in TaskSetups, AsyncInv(s), NEW t \in s.tasks, Async(s)!Call(t)
    PROVE  AsyncInv(s)' /\ AsyncTold(s)
<1> UNCHANGED <<job, holder, worker, seen, told, closed, shut, pending, cancels>> /\ pc[t] = "new"
  BY DEF Async!Call
<1>1. CASE asked[t]
  <2>1. Async(s)!End(t, "cancelled") /\ UNCHANGED queue
    BY <1>1 DEF Async!Call
  <2>2. TaskOver(s, t, "cancelled")
    BY <2>1, TaskEnds DEF AsyncInv
  <2>3. AsyncTypes(s)'
    BY <2>1, <2>2 DEF AsyncInv, AsyncTypes, Async!TypeOK, Async!None, TaskOver
  <2>4. AsyncOrder(s)'
    <3>1. ~seen[t] /\ (holder # "none" => holder # t)
      BY DEF AsyncInv, AsyncOrder
    <3>2. \A u \in s.tasks : pc'[u] = pc[u] \/ (u = t /\ pc'[u] = "done" /\ outcome'[u] = "cancelled")
      BY <2>2 DEF TaskOver
    <3> QED
      BY <2>1, <2>2, <3>1, <3>2
      DEF AsyncInv, AsyncTypes, AsyncOrder, Async!TypeOK, Async!GuardBlocks, Async!None, TaskOver
  <2>5. AsyncTold(s)
    BY <2>1, <2>2 DEF AsyncInv, AsyncTold, TaskOver
  <2> QED
    BY <2>3, <2>4, <2>5 DEF AsyncInv
<1>2. CASE ~asked[t]
  <2>1. pc' = [pc EXCEPT ![t] = "lock"] /\ queue' = Append(queue, t) /\ UNCHANGED <<outcome, asked>>
    BY <1>2 DEF Async!Call
  <2>2. queue' \in Seq(s.tasks)
    BY <2>1 DEF AsyncInv, AsyncTypes
  <2>3. \A i \in DOMAIN queue' : queue'[i] \in s.tasks
    BY <2>2
  <2>4. AsyncTypes(s)'
    BY <2>1, <2>2, <2>3 DEF AsyncInv, AsyncTypes, Async!TypeOK
  <2>5. AsyncOrder(s)'
    BY <2>1 DEF AsyncInv, AsyncTypes, AsyncOrder, Async!TypeOK, Async!GuardBlocks
  <2>6. AsyncTold(s)
    BY <2>1 DEF AsyncInv, AsyncTypes, AsyncTold, Async!TypeOK
  <2> QED
    BY <2>4, <2>5, <2>6 DEF AsyncInv
<1> QED
  BY <1>1, <1>2

\* A task is cancelled while it waits for the lock.
LEMMA TaskGivesUp ==
    ASSUME NEW s \in TaskSetups, AsyncInv(s), NEW t \in s.tasks, Async(s)!GiveUp(t)
    PROVE  AsyncInv(s)' /\ AsyncTold(s)
<1> UNCHANGED <<job, holder, worker, seen, told, closed, shut, pending, cancels>> /\ pc[t] = "lock"
  BY DEF Async!GiveUp
<1>1. TaskOver(s, t, "cancelled")
  BY TaskEnds DEF Async!GiveUp, AsyncInv
<1>2. queue' \in Seq(s.tasks)
  <2>1. PICK i \in DOMAIN queue : queue' = SubSeq(queue, 1, i - 1) \o SubSeq(queue, i + 1, Len(queue))
    BY DEF Async!GiveUp
  <2>2. queue \in Seq(s.tasks) /\ i \in 1..Len(queue)
    BY DEF AsyncInv, AsyncTypes
  <2>3. /\ i - 1 \in Int /\ i + 1 \in Int /\ 1 \in Int /\ Len(queue) \in Int
        /\ \A j \in 1..i - 1 : queue[j] \in s.tasks
        /\ \A j \in i + 1..Len(queue) : queue[j] \in s.tasks
    BY <2>2
  <2>4. SubSeq(queue, 1, i - 1) \in Seq(s.tasks) /\ SubSeq(queue, i + 1, Len(queue)) \in Seq(s.tasks)
    BY <2>3, SubSeqProperties
  <2> QED
    BY <2>1, <2>4, ConcatProperties
<1>3. \A i \in DOMAIN queue' : queue'[i] \in s.tasks
  BY <1>2
<1>4. AsyncTypes(s)'
  BY <1>1, <1>2, <1>3 DEF AsyncInv, AsyncTypes, Async!TypeOK, Async!None, TaskOver
<1>5. AsyncOrder(s)'
  BY <1>1 DEF AsyncInv, AsyncTypes, AsyncOrder, Async!TypeOK, Async!GuardBlocks, Async!None, TaskOver
<1>6. AsyncTold(s)
  BY <1>1 DEF AsyncInv, AsyncTold, TaskOver
<1> QED
  BY <1>4, <1>5, <1>6 DEF AsyncInv

\* A task gets the lock: it refuses on a closed client, or gives the worker its job.
LEMMA TaskAcquires ==
    ASSUME NEW s \in TaskSetups, Async(s)!AsyncClientAssumption, AsyncInv(s), NEW t \in s.tasks, Async(s)!Acquire(t)
    PROVE  AsyncInv(s)' /\ AsyncTold(s)
<1>1. /\ UNCHANGED <<job, seen, told, closed, shut, pending, cancels>>
      /\ pc[t] = "lock" /\ ~asked[t] /\ holder = "none" /\ queue # << >> /\ queue' = Tail(queue)
  BY DEF Async!Acquire, Async!None
<1>2. queue' \in Seq(s.tasks)
  BY <1>1, HeadTailProperties DEF AsyncInv, AsyncTypes
<1>3. \A i \in DOMAIN queue' : queue'[i] \in s.tasks
  BY <1>2
<1>4. ~seen[t] /\ worker.state = "idle" /\ (shut => closed)
  BY <1>1 DEF AsyncInv, AsyncOrder
<1>5. CASE closed
  <2>1. PICK how \in {"ok", "refused"} : Async(s)!End(t, how) /\ UNCHANGED <<holder, worker>>
    BY <1>5 DEF Async!Acquire
  <2>2. TaskOver(s, t, how)
    BY <2>1, TaskEnds DEF AsyncInv
  <2>3. AsyncTypes(s)'
    BY <1>1, <1>2, <1>3, <2>1, <2>2 DEF AsyncInv, AsyncTypes, Async!TypeOK, Async!None, TaskOver
  <2>4. AsyncOrder(s)'
    <3>1. \A u \in s.tasks : pc'[u] = pc[u] \/ (u = t /\ pc'[u] = "done" /\ outcome'[u] \in {"ok", "refused"})
      BY <2>2 DEF TaskOver
    <3> QED
      BY <1>1, <1>4, <2>1, <2>2, <3>1
      DEF AsyncInv, AsyncTypes, AsyncOrder, Async!TypeOK, Async!GuardBlocks, Async!None, TaskOver
  <2>5. AsyncTold(s)
    BY <1>1, <1>4, <2>1, <2>2 DEF AsyncTold, TaskOver
  <2> QED
    BY <2>3, <2>4, <2>5 DEF AsyncInv
<1>6. CASE ~closed
  <2>1. /\ pc' = [pc EXCEPT ![t] = "thread"] /\ holder' = t /\ worker' = [task |-> t, state |-> "run"]
        /\ UNCHANGED <<outcome, asked>>
    BY <1>6 DEF Async!Acquire
  <2>2. AsyncTypes(s)'
    BY <1>1, <1>2, <1>3, <2>1 DEF AsyncInv, AsyncTypes, Async!TypeOK, Async!None
  <2>3. AsyncOrder(s)'
    BY <1>1, <1>4, <1>6, <2>1
    DEF AsyncInv, AsyncTypes, AsyncOrder, Async!TypeOK, Async!GuardBlocks, Async!None, Async!AsyncClientAssumption
  <2>4. AsyncTold(s)
    BY <1>4, <1>6, <2>1 DEF AsyncInv, AsyncTypes, AsyncTold, Async!TypeOK
  <2> QED
    BY <2>2, <2>3, <2>4 DEF AsyncInv
<1> QED
  BY <1>5, <1>6

\* The worker thread ends its job.
LEMMA WorkerEnds ==
    ASSUME NEW s \in TaskSetups, AsyncInv(s), NEW state \in {"ok", "error"}, Async(s)!Work(state)
    PROVE  AsyncInv(s)' /\ AsyncTold(s)
<1>1. /\ UNCHANGED <<job, pc, queue, holder, asked, seen, outcome, closed, cancels>>
      /\ worker.state = "run" /\ worker' = [worker EXCEPT !.state = state]
      /\ shut' = (shut \/ job[worker.task] = "close")
  BY DEF Async!Work
<1>2. pending' \in BOOLEAN /\ DOMAIN told' = s.tasks
  BY DEF Async!Work, AsyncInv, AsyncTypes, Async!TypeOK
<1>3. \A u \in s.tasks : told'[u] # told[u] => u = worker.task
  BY DEF Async!Work, AsyncInv, AsyncTypes
<1>4. worker.task = holder /\ pc[holder] = "thread" /\ outcome[holder] = "none" /\ holder \in s.tasks
  BY <1>1 DEF AsyncInv, AsyncTypes, AsyncOrder, Async!TypeOK, Async!None
<1>5. AsyncTypes(s)'
  BY <1>1, <1>2, <1>4 DEF AsyncInv, AsyncTypes, Async!TypeOK
<1>6. AsyncOrder(s)'
  BY <1>1, <1>3, <1>4 DEF AsyncInv, AsyncTypes, AsyncOrder, Async!TypeOK, Async!GuardBlocks
<1>7. AsyncTold(s)
  BY <1>1 DEF AsyncInv, AsyncTypes, AsyncTold
<1> QED
  BY <1>5, <1>6, <1>7 DEF AsyncInv

\* A task that waited for the worker leaves the lock.
LEMMA TaskLeaves ==
    ASSUME NEW s \in TaskSetups, AsyncInv(s), NEW t \in s.tasks, pc[t] = "thread",
           NEW how \in {"ok", "error", "cancelled", "started", "blocked"}, Async(s)!Leave(t, how),
           how = "started" => told[t] = "current", asked[t] \/ seen[t] => how = "cancelled",
           worker.state # "run", UNCHANGED <<job, queue, seen, told, shut, pending, cancels>>
    PROVE  AsyncInv(s)' /\ AsyncTold(s)
<1>1. holder' = "none" /\ worker' = [task |-> "none", state |-> "idle"] /\ closed' = (closed \/ job[t] = "close")
  BY DEF Async!Leave, Async!None, Async!Idle
<1>2. TaskOver(s, t, how)
  BY TaskEnds DEF AsyncInv, Async!Leave
<1>3. holder = t /\ (t # "none" => worker.task = t) /\ (t = "none" => worker.state = "idle")
  BY DEF AsyncInv, AsyncOrder
<1>4. AsyncTypes(s)'
  BY <1>1, <1>2 DEF AsyncInv, AsyncTypes, Async!TypeOK, Async!None, TaskOver
<1>5. AsyncOrder(s)'
  <2>1. \A u \in s.tasks : pc'[u] = pc[u] \/ (u = t /\ pc'[u] = "done" /\ outcome'[u] = how)
    BY <1>2 DEF TaskOver
  <2>2. shut => closed'
    BY <1>1, <1>3 DEF AsyncInv, AsyncOrder
  <2>3. \A u \in s.tasks : pc'[u] # "thread"
    BY <1>2, <1>3 DEF AsyncInv, AsyncOrder, TaskOver
  <2> QED
    BY <1>1, <1>2, <2>1, <2>2, <2>3 DEF AsyncInv, AsyncTypes, AsyncOrder, Async!TypeOK, Async!GuardBlocks, Async!None, TaskOver
<1>6. AsyncTold(s)
  BY <1>1, <1>2 DEF AsyncInv, AsyncTold, TaskOver
<1> QED
  BY <1>4, <1>5, <1>6 DEF AsyncInv

\* A cancellation while the task waits for the worker: it is remembered until the worker
\* has ended.
LEMMA TaskIsInterrupted ==
    ASSUME NEW s \in TaskSetups, AsyncInv(s), NEW t \in s.tasks, Async(s)!Interrupt(t)
    PROVE  AsyncInv(s)' /\ AsyncTold(s)
<1>1. pc[t] = "thread" /\ UNCHANGED <<job, queue, told, shut, pending, cancels>>
  BY DEF Async!Interrupt
<1>2. CASE worker.state = "run"
  <2>1. /\ seen' = [seen EXCEPT ![t] = TRUE] /\ asked' = [asked EXCEPT ![t] = FALSE]
        /\ UNCHANGED <<pc, outcome, holder, worker, closed>>
    BY <1>2 DEF Async!Interrupt
  <2>2. AsyncTypes(s)'
    BY <1>1, <2>1 DEF AsyncInv, AsyncTypes, Async!TypeOK
  <2>3. AsyncOrder(s)'
    BY <1>1, <2>1 DEF AsyncInv, AsyncTypes, AsyncOrder, Async!GuardBlocks
  <2>4. AsyncTold(s)
    BY <1>1, <2>1 DEF AsyncTold
  <2> QED
    BY <2>2, <2>3, <2>4 DEF AsyncInv
<1>3. CASE worker.state # "run"
  BY <1>1, <1>3, TaskLeaves DEF Async!Interrupt
<1> QED
  BY <1>2, <1>3

\* The task goes on when the worker has ended.
LEMMA TaskResumes ==
    ASSUME NEW s \in TaskSetups, AsyncInv(s), NEW t \in s.tasks, Async(s)!Resume(t)
    PROVE  AsyncInv(s)' /\ AsyncTold(s)
<1>1. /\ pc[t] = "thread" /\ ~asked[t] /\ worker.state \in {"ok", "error"}
      /\ Async(s)!Leave(t, Async(s)!How(t)) /\ UNCHANGED <<job, queue, seen, told, shut, pending, cancels>>
  BY DEF Async!Resume
<1>2. /\ Async(s)!How(t) \in {"ok", "error", "cancelled", "started", "blocked"}
      /\ Async(s)!How(t) = "started" => told[t] = "current"
      /\ seen[t] => Async(s)!How(t) = "cancelled"
  BY <1>1 DEF Async!How, Async!Guarded
<1> QED
  BY <1>1, <1>2, TaskLeaves

\* Every step of the asynchronous client.
LEMMA AsyncSteps ==
    ASSUME NEW s \in TaskSetups, Async(s)!AsyncClientAssumption, AsyncInv(s), Async(s)!Next
    PROVE  AsyncInv(s)' /\ AsyncTold(s)
BY TaskIsCancelled, TaskCalls, TaskGivesUp, TaskAcquires, WorkerEnds, TaskIsInterrupted, TaskResumes
DEF Async!Next

\* While the asynchronous client runs, its invariant holds for its setup.
AsyncHolds == part = "async" => setup \in TaskSetups /\ \A s \in TaskSetups : setup = s => AsyncInv(s)
AsyncTells == part = "async" => \A s \in TaskSetups : setup = s => AsyncTold(s)

\* A step of any part keeps it.
LEMMA AsyncStays ==
    ASSUME ApiAssumption, AsyncHolds, [Next]_vars
    PROVE  AsyncHolds' /\ AsyncTells
<1>1. CASE part # "async"
  <2>1. part' = part
    BY DEF Next, CallsRun, AsyncRuns, BusRuns, LineRuns, ServerRuns, vars
  <2> QED
    BY <1>1, <2>1 DEF AsyncHolds, AsyncTells
<1>2. CASE part = "async" /\ Next
  <2>1. PICK s \in TaskSetups : setup = s /\ Async(s)!Next
    BY <1>2 DEF Next, CallsRun, BusRuns, LineRuns, ServerRuns
  <2>2. AsyncInv(s) /\ Async(s)!AsyncClientAssumption
    BY <1>2, <2>1 DEF AsyncHolds, ApiAssumption
  <2>3. AsyncInv(s)' /\ AsyncTold(s)
    BY <2>1, <2>2, AsyncSteps
  <2>4. setup' = s
    BY <1>2, <2>1 DEF Next, CallsRun, AsyncRuns, BusRuns, LineRuns, ServerRuns
  <2> QED
    BY <1>2, <2>1, <2>3, <2>4 DEF AsyncHolds, AsyncTells
<1>3. CASE part = "async" /\ UNCHANGED vars
  <2>1. UNCHANGED <<part, setup>> /\ UNCHANGED taskVars
    BY <1>3 DEF vars
  <2> SUFFICES ASSUME NEW s \in TaskSetups, setup = s
               PROVE  AsyncInv(s)' /\ AsyncTold(s)
    BY <1>3, <2>1 DEF AsyncHolds, AsyncTells
  <2>2. AsyncInv(s)
    BY <1>3 DEF AsyncHolds
  <2>3. AsyncTypes(s)'
    BY <2>1, <2>2 DEF AsyncInv, AsyncTypes, Async!TypeOK, taskVars
  <2>4. AsyncOrder(s)'
    BY <2>1, <2>2 DEF AsyncInv, AsyncOrder, Async!GuardBlocks, taskVars
  <2>5. AsyncTold(s)
    BY <2>1 DEF AsyncTold, taskVars
  <2> QED
    BY <2>3, <2>4, <2>5 DEF AsyncInv
<1> QED
  BY <1>1, <1>2, <1>3

\* Tasks of the asynchronous client: none starts an operation on a closed client, a
\* cancelled one is told so and not of a result, and the guard lets an application start
\* only after info saw nothing pending (api/async_client.py, integrations/fastapi.py).
THEOREM CancelledTasksAreTold == ApiAssumption /\ Spec => TasksAreTold
<1> SUFFICES ASSUME ApiAssumption PROVE Spec => TasksAreTold
  OBVIOUS
<1>1. Init => AsyncHolds
  <2> SUFFICES ASSUME Init, part = "async" PROVE AsyncHolds
    BY DEF AsyncHolds
  <2>1. PICK s \in TaskSetups : setup = s /\ Async(s)!Init
    BY DEF Init
  <2> QED
    BY <2>1, AsyncStarts DEF AsyncHolds, ApiAssumption
<1>2. AsyncHolds /\ [Next]_vars => AsyncHolds' /\ AsyncTells
  BY AsyncStays
<1>3. AsyncHolds => (part = "async" => \A s \in TaskSetups : setup = s => Async(s)!GuardBlocks)
  BY DEF AsyncHolds, AsyncInv, AsyncOrder
<1>4. AsyncHolds /\ AsyncTells =>
        /\ part = "async" /\ worker.state # "run" /\ worker'.state = "run" => ~shut
        /\ part = "async" => \A t \in setup.tasks :
             pc[t] # "done" /\ pc'[t] = "done" /\ (asked[t] \/ seen[t]) => outcome'[t] = "cancelled"
  BY DEF AsyncHolds, AsyncTells, AsyncTold
<1> QED
  BY <1>1, <1>2, <1>3, <1>4, PTL DEF Spec, TasksAreTold

-----------------------------------------------------------------------------
(* The command line                                                        *)

\* Where main() is before the first command, and once logs are being closed.
Preparing == {"parse", "logging", "prepare", "built"}
Unwinding == {"closing", "release", "releasing", "ended"}

\* The variables have their types.
LineTypes(s) ==
    /\ chain \in Seq(STRING) /\ Len(chain) > 0 /\ sinks \in Seq(STRING) /\ Len(sinks) > 0
    /\ point \in Preparing \cup {"next", "running"} \cup Unwinding
    /\ at \in Nat /\ answers \in Seq(Line(s)!Outcomes) /\ records \in Seq(BOOLEAN)
    /\ sink \in 1..Len(sinks) /\ path \in {"body", "exit", "except"}
    /\ reports \in [1..Len(sinks) -> [state: {"none", "open", "written", "lost"}, rows: Seq(BOOLEAN)]]
    /\ mishap \in BOOLEAN /\ signals \in Nat

\* The client exists from the moment it is built, nothing struck the process before logs are
\* closed, and then no command follows one that did not succeed.
LineOrder(s) ==
    /\ point \in {"parse", "logging", "prepare"} => dbclient = "none"
    /\ point \in {"built", "next", "running"} => dbclient = "open"
    /\ point \in {"closing", "release", "releasing"} => dbclient # "none"
    /\ point \notin Unwinding => signals = 0
    /\ point \in Preparing => answers = << >> /\ records = << >> /\ at = 1
    /\ point \in {"next", "running"} =>
         /\ at = Len(answers) + 1 /\ Len(records) = Len(answers)
         /\ \A i \in 1..Len(answers) : answers[i] = "ok" /\ records[i] = TRUE
         /\ at <= Len(chain) + 1 /\ (point = "running" => at <= Len(chain))
    /\ \A i \in 1..Len(answers) : answers[i] # "ok" => i = Len(answers)

\* Every command asked for ran and succeeded, and that is what was recorded.
AllWell ==
    /\ Len(answers) = Len(chain) /\ Len(records) = Len(chain)
    /\ \A i \in 1..Len(chain) : answers[i] = "ok" /\ records[i] = TRUE

\* Reports are written from the final records; the code tells how the commands ended.
LineTruth(s) ==
    /\ \A i \in 1..Len(sinks) : reports[i].state = "written" => point \in Unwinding /\ reports[i].rows = records
    /\ point \in Unwinding /\ dbclient # "none" =>
         /\ code = 0 => AllWell
         /\ Len(answers) = Len(chain) /\ (\A i \in 1..Len(chain) : answers[i] = "ok")
              /\ signals = 0 /\ ~mishap => code = 0

\* SIGTERM while commands run leads to logs that are closed from the first one on.
Terminated == signals = 1 /\ struck.kind = "term" /\ struck.point \in {"next", "running"} /\ ~mishap
LineSignals(s) ==
    /\ point \in Unwinding /\ Terminated =>
         /\ code = 143
         /\ \A i \in 1..Len(sinks) : point = "closing" => i >= sink \/ reports[i] = [state |-> "written", rows |-> records]
         /\ \A i \in 1..Len(sinks) : point # "closing" => reports[i] = [state |-> "written", rows |-> records]
    /\ point = "closing" /\ Terminated => path = "exit"
    /\ point = "ended" /\ dbclient # "none" =>
         dbclient = "closed" \/ signals > 1 \/ struck.point \in {"built", "release", "releasing"}
LineInv(s) == LineTypes(s) /\ LineOrder(s) /\ LineTruth(s) /\ LineSignals(s)

\* It holds at the start.
LEMMA LineStarts ==
    ASSUME NEW s \in LineSetups, Line(s)!CommandLineAssumption, Line(s)!Init
    PROVE  LineInv(s)
<1>1. chain \in Seq(STRING) /\ chain # << >> /\ sinks \in Seq(STRING) /\ sinks # << >>
  BY DEF Line!CommandLineAssumption, Line!Init
<1>2. Len(chain) > 0 /\ Len(sinks) \in Nat /\ Len(sinks) > 0
  BY <1>1, EmptySeq
<1>3. LineTypes(s)
  <2>1. answers \in Seq(Line(s)!Outcomes) /\ records \in Seq(BOOLEAN)
    BY DEF Line!Init
  <2>2. reports \in [1..Len(sinks) -> [state: {"none", "open", "written", "lost"}, rows: Seq(BOOLEAN)]]
    BY DEF Line!Init, Line!Blank
  <2>3. sink \in 1..Len(sinks)
    BY <1>2 DEF Line!Init
  <2> QED
    BY <1>1, <1>2, <2>1, <2>2, <2>3 DEF LineTypes, Line!Init, Preparing
<1>4. LineOrder(s)
  BY DEF LineOrder, Line!Init, Preparing, Unwinding
<1>5. LineTruth(s)
  BY DEF LineTruth, Line!Init, Line!Blank, Unwinding
<1>6. LineSignals(s)
  BY DEF LineSignals, Line!Init, Unwinding
<1> QED
  BY <1>3, <1>4, <1>5, <1>6 DEF LineInv

\* Arguments and configuration are read.
LEMMA LineParses ==
    ASSUME NEW s \in LineSetups, LineInv(s), Line(s)!Parse
    PROVE  LineInv(s)'
<1>1. /\ UNCHANGED <<chain, machine, sinks, at, answers, records, sink, path, reports, dbclient, mishap, signals, struck>>
      /\ point = "parse" /\ point' \in {"logging", "ended"} /\ dbclient = "none" /\ signals = 0
  BY DEF Line!Parse, Line!Exit, Line!asked, LineInv, LineOrder, Unwinding
<1>2. LineTypes(s)'
  BY <1>1 DEF LineInv, LineTypes, Preparing, Unwinding
<1>3. LineOrder(s)'
  BY <1>1 DEF LineInv, LineOrder, Preparing, Unwinding
<1>4. LineTruth(s)'
  BY <1>1 DEF LineInv, LineTruth, Unwinding
<1>5. LineSignals(s)'
  BY <1>1 DEF LineInv, LineSignals, Unwinding, Terminated
<1> QED
  BY <1>2, <1>3, <1>4, <1>5 DEF LineInv

\* The log files are opened.
LEMMA LineConfigures ==
    ASSUME NEW s \in LineSetups, LineInv(s), Line(s)!Configure
    PROVE  LineInv(s)'
<1>1. /\ UNCHANGED <<chain, machine, sinks, at, answers, records, sink, path, dbclient, mishap, signals, struck>>
      /\ point = "logging" /\ point' \in {"prepare", "ended"} /\ dbclient = "none" /\ signals = 0
  BY DEF Line!Configure, Line!Exit, Line!asked, LineInv, LineOrder, Unwinding
<1>2. /\ reports' \in [1..Len(sinks) -> [state: {"none", "open", "written", "lost"}, rows: Seq(BOOLEAN)]]
      /\ \A i \in 1..Len(sinks) : reports'[i].state \in {"open", "none"}
  <2>1. PICK n \in 0..Len(sinks) :
          reports' = [i \in 1..Len(sinks) |-> IF i <= n THEN [Line(s)!Blank EXCEPT !.state = "open"] ELSE Line(s)!Blank]
    BY DEF Line!Configure
  <2>2. \A b \in {"none", "open"} : [Line(s)!Blank EXCEPT !.state = b] = [state |-> b, rows |-> << >>]
    BY DEF Line!Blank
  <2>3. Line(s)!Blank = [state |-> "none", rows |-> << >>] /\ << >> \in Seq(BOOLEAN)
    BY DEF Line!Blank
  <2> QED
    BY <2>1, <2>2, <2>3
<1>3. LineTypes(s)'
  BY <1>1, <1>2 DEF LineInv, LineTypes, Preparing, Unwinding
<1>4. LineOrder(s)'
  BY <1>1 DEF LineInv, LineOrder, Preparing, Unwinding
<1>5. LineTruth(s)'
  BY <1>1, <1>2 DEF LineInv, LineTruth, Unwinding
<1>6. LineSignals(s)'
  BY <1>1 DEF LineInv, LineSignals, Unwinding, Terminated
<1> QED
  BY <1>3, <1>4, <1>5, <1>6 DEF LineInv

\* The client is built, or the process ends.
LEMMA LinePrepares ==
    ASSUME NEW s \in LineSetups, LineInv(s), Line(s)!Prepare
    PROVE  LineInv(s)'
<1>1. /\ UNCHANGED <<chain, machine, sinks, at, answers, records, sink, path, reports, mishap, signals, struck>>
      /\ point = "prepare" /\ signals = 0
      /\ (point' = "ended" /\ dbclient' = "none") \/ (point' = "built" /\ dbclient' = "open")
  BY DEF Line!Prepare, Line!Exit, Line!asked, LineInv, LineOrder, Unwinding
<1>2. LineTypes(s)'
  BY <1>1 DEF LineInv, LineTypes, Preparing, Unwinding
<1>3. LineOrder(s)'
  BY <1>1 DEF LineInv, LineOrder, Preparing, Unwinding
<1>4. LineTruth(s)'
  BY <1>1 DEF LineInv, LineTruth, Unwinding
<1>5. LineSignals(s)'
  BY <1>1 DEF LineInv, LineSignals, Unwinding, Terminated
<1> QED
  BY <1>2, <1>3, <1>4, <1>5 DEF LineInv

\* The try around the commands is entered.
LEMMA LineEnters ==
    ASSUME NEW s \in LineSetups, LineInv(s), Line(s)!EnterTry
    PROVE  LineInv(s)'
<1>1. /\ UNCHANGED <<chain, machine, sinks, at, answers, records, sink, path, reports, dbclient, code, mishap, signals, struck>>
      /\ point = "built" /\ point' = "next"
      /\ answers = << >> /\ records = << >> /\ at = 1 /\ dbclient = "open" /\ signals = 0
  BY DEF Line!EnterTry, Line!asked, LineInv, LineOrder, Preparing, Unwinding
<1>2. Len(answers) = 0 /\ Len(records) = 0 /\ Len(chain) \in Nat
  BY <1>1 DEF LineInv, LineTypes
<1>3. LineTypes(s)'
  BY <1>1 DEF LineInv, LineTypes, Preparing, Unwinding
<1>4. LineOrder(s)'
  BY <1>1, <1>2 DEF LineInv, LineTypes, LineOrder, Preparing, Unwinding
<1>5. LineTruth(s)'
  BY <1>1 DEF LineInv, LineTruth, Unwinding
<1>6. LineSignals(s)'
  BY <1>1 DEF LineInv, LineSignals, Unwinding, Terminated
<1> QED
  BY <1>3, <1>4, <1>5, <1>6 DEF LineInv

\* Logs begin to be closed while the client is open and nothing struck the process: it is
\* enough to know what the code says of the commands.
LEMMA LineCloses ==
    ASSUME NEW s \in LineSetups, LineInv(s), point \in {"next", "running"}, NEW c, NEW p \in {"body", "exit", "except"},
           Line(s)!CloseLogs(p, c), UNCHANGED <<chain, machine, sinks, reports, dbclient, struck, signals>>,
           at' \in Nat, answers' \in Seq(Line(s)!Outcomes), records' \in Seq(BOOLEAN), mishap' \in BOOLEAN,
           \A i \in 1..Len(answers') : answers'[i] # "ok" => i = Len(answers'),
           c = 0 => AllWell',
           Len(answers') = Len(chain) /\ (\A i \in 1..Len(chain) : answers'[i] = "ok") /\ ~mishap' => c = 0
    PROVE  LineInv(s)'
<1>1. point' = "closing" /\ path' = p /\ sink' = 1 /\ code' = c
  BY DEF Line!CloseLogs
<1>2. dbclient = "open" /\ signals = 0
  BY DEF LineInv, LineOrder, Unwinding
<1>3. \A i \in 1..Len(sinks) : reports[i].state # "written"
  BY DEF LineInv, LineTruth, Unwinding
<1>4. LineTypes(s)'
  BY <1>1 DEF LineInv, LineTypes, Unwinding
<1>5. LineOrder(s)'
  BY <1>1, <1>2 DEF LineOrder, Preparing, Unwinding
<1>6. LineTruth(s)'
  BY <1>1, <1>2, <1>3 DEF LineTruth, Unwinding
<1>7. LineSignals(s)'
  BY <1>1, <1>2 DEF LineSignals, Unwinding, Terminated
<1> QED
  BY <1>4, <1>5, <1>6, <1>7 DEF LineInv

\* The next command, or the end of the chain.
LEMMA LineGoesOn ==
    ASSUME NEW s \in LineSetups, LineInv(s), Line(s)!NextCommand
    PROVE  LineInv(s)'
<1>1. /\ UNCHANGED <<chain, machine, sinks, at, answers, records, reports, dbclient, mishap, signals, struck>>
      /\ point = "next"
  BY DEF Line!NextCommand, Line!asked
<1>2. /\ at = Len(answers) + 1 /\ Len(records) = Len(answers) /\ at <= Len(chain) + 1
      /\ \A i \in 1..Len(answers) : answers[i] = "ok" /\ records[i] = TRUE
      /\ dbclient = "open" /\ signals = 0
  BY <1>1 DEF LineInv, LineOrder, Unwinding
<1>3. Len(answers) \in Nat /\ Len(chain) \in Nat /\ at \in Nat /\ mishap \in BOOLEAN
  BY DEF LineInv, LineTypes
<1>4. /\ answers \in Seq(Line(s)!Outcomes) /\ records \in Seq(BOOLEAN)
      /\ \A i \in 1..Len(answers) : answers[i] # "ok" => i = Len(answers)
  BY DEF LineInv, LineTypes, LineOrder
<1>5. CASE at > Len(chain)
  <2>1. Line(s)!CloseLogs("body", 0)
    BY <1>1, <1>5 DEF Line!NextCommand
  <2>2. AllWell'
    BY <1>1, <1>2, <1>3, <1>5 DEF AllWell
  <2> QED
    BY <1>1, <1>3, <1>4, <2>1, <2>2, LineCloses
<1>6. CASE ~(at > Len(chain))
  <2>1. Len(answers) # Len(chain)
    BY <1>2, <1>3, <1>6
  <2>2. ASSUME NEW c \in {2, Line(s)!License}, Line(s)!CloseLogs("exit", c)
        PROVE  LineInv(s)'
    BY <1>1, <1>3, <1>4, <2>1, <2>2, LineCloses DEF Line!License
  <2>3. CASE point' = "running" /\ UNCHANGED <<path, sink, code>>
    <3>1. LineTypes(s)'
      BY <1>1, <2>3 DEF LineInv, LineTypes
    <3>2. LineOrder(s)'
      BY <1>1, <1>2, <1>3, <1>6, <2>3 DEF LineInv, LineOrder, Preparing, Unwinding
    <3>3. LineTruth(s)'
      BY <1>1, <2>3 DEF LineInv, LineTruth, Unwinding
    <3>4. LineSignals(s)'
      BY <2>3 DEF LineSignals, Unwinding
    <3> QED
      BY <3>1, <3>2, <3>3, <3>4 DEF LineInv
  <2> QED
    BY <1>1, <1>6, <2>2, <2>3 DEF Line!NextCommand
<1> QED
  BY <1>5, <1>6

\* A handler's answer is one more, and was recorded or not.
LEMMA LineAnswers ==
    ASSUME NEW s \in LineSetups, LineInv(s), point = "running", NEW o \in Line(s)!Outcomes,
           answers' = Append(answers, o), NEW r \in BOOLEAN,
           records' = records \/ records' = Append(records, r)
    PROVE  /\ answers' \in Seq(Line(s)!Outcomes) /\ records' \in Seq(BOOLEAN)
           /\ Len(answers') = Len(answers) + 1 /\ answers'[Len(answers')] = o
           /\ \A i \in 1..Len(answers) : answers'[i] = "ok"
           /\ \A i \in 1..Len(answers') : answers'[i] # "ok" => i = Len(answers')
<1>1. answers \in Seq(Line(s)!Outcomes) /\ records \in Seq(BOOLEAN) /\ Len(answers) \in Nat
  BY DEF LineInv, LineTypes
<1>2. \A i \in 1..Len(answers) : answers[i] = "ok"
  BY DEF LineInv, LineOrder
<1>3. answers' \in Seq(Line(s)!Outcomes) /\ records' \in Seq(BOOLEAN)
  BY <1>1, AppendProperties
<1>4. /\ Len(answers') = Len(answers) + 1 /\ answers'[Len(answers) + 1] = o
      /\ \A i \in 1..Len(answers) : answers'[i] = answers[i]
  BY <1>1, AppendProperties
<1> QED
  BY <1>1, <1>2, <1>3, <1>4

\* A command runs.
LEMMA LineExecutes ==
    ASSUME NEW s \in LineSetups, LineInv(s), Line(s)!Execute
    PROVE  LineInv(s)'
<1>1. UNCHANGED <<chain, machine, sinks, reports, dbclient, signals, struck>> /\ point = "running"
  BY DEF Line!Execute, Line!asked
<1>2. PICK o \in Line(s)!Outcomes : answers' = Append(answers, o) /\ (Line(s)!Returned(o) \/ Line(s)!Threw(o))
  BY DEF Line!Execute
<1>3. /\ at = Len(answers) + 1 /\ Len(records) = Len(answers) /\ at <= Len(chain)
      /\ \A i \in 1..Len(answers) : answers[i] = "ok" /\ records[i] = TRUE
      /\ dbclient = "open" /\ signals = 0
  BY <1>1 DEF LineInv, LineOrder, Unwinding
<1>4. Len(answers) \in Nat /\ Len(chain) \in Nat /\ at \in Nat /\ records \in Seq(BOOLEAN) /\ mishap \in BOOLEAN
  BY DEF LineInv, LineTypes
<1>5. CASE Line(s)!Returned(o) /\ o = "ok"
  <2>1. records' = Append(records, TRUE)
    BY <1>5 DEF Line!Returned
  <2>2. /\ answers' \in Seq(Line(s)!Outcomes) /\ records' \in Seq(BOOLEAN)
        /\ Len(answers') = Len(answers) + 1 /\ answers'[Len(answers')] = o
        /\ \A i \in 1..Len(answers) : answers'[i] = "ok"
        /\ \A i \in 1..Len(answers') : answers'[i] # "ok" => i = Len(answers')
    BY <1>1, <1>2, <2>1, LineAnswers
  <2>3. CASE point' = "next" /\ at' = at + 1 /\ UNCHANGED <<path, sink, code, mishap>>
    <3>1. LineTypes(s)'
      BY <1>1, <2>2, <2>3 DEF LineInv, LineTypes
    <3>2. LineOrder(s)'
      <4>1. Len(records') = Len(answers) + 1 /\ \A i \in 1..Len(answers) + 1 : records'[i] = TRUE
        BY <1>3, <1>4, <2>1, AppendProperties
      <4>2. \A i \in 1..Len(answers') : answers'[i] = "ok" /\ records'[i] = TRUE
        BY <1>4, <1>5, <2>2, <4>1
      <4> QED
        BY <1>1, <1>3, <1>4, <2>2, <2>3, <4>1, <4>2 DEF LineOrder, Preparing, Unwinding
    <3>3. LineTruth(s)'
      BY <1>1, <2>3 DEF LineInv, LineTruth, Unwinding
    <3>4. LineSignals(s)'
      BY <2>3 DEF LineSignals, Unwinding
    <3> QED
      BY <3>1, <3>2, <3>3, <3>4 DEF LineInv
  <2>4. CASE Line(s)!CloseLogs("except", 1) /\ mishap' = TRUE /\ UNCHANGED at
    BY <1>1, <1>4, <2>2, <2>4, LineCloses
  <2> QED
    BY <1>5, <2>3, <2>4 DEF Line!Returned
<1>6. CASE o # "ok"
  <2>1. PICK r \in BOOLEAN : records' = records \/ records' = Append(records, r)
    BY <1>2, <1>6 DEF Line!Returned, Line!Threw
  <2>2. /\ answers' \in Seq(Line(s)!Outcomes) /\ records' \in Seq(BOOLEAN)
        /\ Len(answers') = Len(answers) + 1 /\ answers'[Len(answers')] = o
        /\ \A i \in 1..Len(answers) : answers'[i] = "ok"
        /\ \A i \in 1..Len(answers') : answers'[i] # "ok" => i = Len(answers')
    BY <1>1, <1>2, <2>1, LineAnswers
  <2>3. PICK p \in {"body", "exit", "except"}, c \in {1, 2, Line(s)!License} : Line(s)!CloseLogs(p, c)
    BY <1>2, <1>6 DEF Line!Returned, Line!Threw
  <2>4. at' = at /\ mishap' \in BOOLEAN
    BY <1>2, <1>4, <1>6 DEF Line!Returned, Line!Threw
  <2>5. ~(Len(answers') = Len(chain) /\ \A i \in 1..Len(chain) : answers'[i] = "ok")
    BY <1>4, <1>6, <2>2
  <2> QED
    BY <1>1, <1>4, <2>2, <2>3, <2>4, <2>5, LineCloses DEF Line!License
<1>7. Line(s)!Threw(o) => o # "ok"
  BY DEF Line!Threw
<1> QED
  BY <1>2, <1>5, <1>6, <1>7

\* One log file is closed, or closing it fails.
LEMMA LineClosesSink ==
    ASSUME NEW s \in LineSetups, LineInv(s), Line(s)!CloseSink
    PROVE  LineInv(s)'
<1>1. /\ UNCHANGED <<chain, machine, sinks, at, answers, records, dbclient, signals, struck>>
      /\ point = "closing" /\ point' \in {"closing", "release"}
  BY DEF Line!CloseSink, Line!CloseLogs, Line!asked
<1>2. LineTypes(s) /\ sink \in 1..Len(sinks) /\ Len(sinks) \in Nat /\ Len(sinks) > 0
  BY DEF LineInv, LineTypes
<1>3. /\ reports' \in [1..Len(sinks) -> [state: {"none", "open", "written", "lost"}, rows: Seq(BOOLEAN)]]
      /\ \A i \in 1..Len(sinks) : i # sink => reports'[i] = reports[i]
      /\ reports'[sink] = [state |-> "written", rows |-> records] \/ (reports'[sink].state = "lost" /\ mishap')
  <2>1. \/ reports' = [reports EXCEPT ![sink] = [state |-> "written", rows |-> records]]
        \/ reports' = [reports EXCEPT ![sink].state = "lost"] /\ mishap' = TRUE
    BY DEF Line!CloseSink
  <2>2. CASE reports' = [reports EXCEPT ![sink] = [state |-> "written", rows |-> records]]
    BY <1>2, <2>2 DEF LineTypes
  <2>3. CASE reports' = [reports EXCEPT ![sink].state = "lost"] /\ mishap' = TRUE
    BY <1>2, <2>3 DEF LineTypes
  <2> QED
    BY <2>1, <2>2, <2>3
<1>4. /\ mishap' \in BOOLEAN /\ (mishap => mishap') /\ (code' = 0 => code = 0)
      /\ code' # code \/ path' # path => mishap'
      /\ path' \in {"body", "exit", "except"} /\ sink' \in 1..Len(sinks)
      /\ ~mishap' => IF sink < Len(sinks) THEN sink' = sink + 1 /\ point' = "closing" ELSE point' = "release"
  <2>1. CASE UNCHANGED <<path, code>>
    <3>1. \/ UNCHANGED mishap
          \/ mishap' = TRUE
      BY <2>1 DEF Line!CloseSink
    <3>2. \/ IF sink < Len(sinks) THEN sink' = sink + 1 /\ UNCHANGED point ELSE point' = "release" /\ UNCHANGED sink
          \/ mishap' = TRUE /\ (sink' = 1 \/ sink' = sink)
      BY DEF Line!CloseSink, Line!CloseLogs
    <3>3. CASE mishap' = TRUE
      BY <1>1, <1>2, <2>1, <3>2, <3>3 DEF LineTypes
    <3>4. CASE UNCHANGED mishap /\ IF sink < Len(sinks) THEN sink' = sink + 1 /\ UNCHANGED point
                                                       ELSE point' = "release" /\ UNCHANGED sink
      BY <1>1, <1>2, <2>1, <3>4 DEF LineTypes
    <3> QED
      BY <3>1, <3>2, <3>3, <3>4
  <2>2. CASE mishap' = TRUE /\ code' = 1 /\ (path' = path \/ path' = "except") /\ (sink' = sink \/ sink' = 1)
    BY <1>2, <2>2 DEF LineTypes
  <2> QED
    BY <2>1, <2>2 DEF Line!CloseSink, Line!CloseLogs
<1>5. LineTypes(s)'
  BY <1>1, <1>2, <1>3, <1>4 DEF LineTypes, Unwinding
<1>6. LineOrder(s)'
  BY <1>1 DEF LineInv, LineOrder, Preparing, Unwinding
<1>7. LineTruth(s)'
  <2>1. \A i \in 1..Len(sinks) : reports'[i].state = "written" => reports'[i].rows = records
    BY <1>1, <1>2, <1>3 DEF LineInv, LineTruth
  <2>2. code = 0 => AllWell
    BY <1>1 DEF LineInv, LineOrder, LineTruth, Unwinding
  <2>3. ASSUME Len(answers) = Len(chain), \A i \in 1..Len(chain) : answers[i] = "ok", signals = 0, ~mishap'
        PROVE  code' = 0
    <3>1. ~mishap /\ code' = code
      BY <1>4, <2>3
    <3>2. dbclient # "none" /\ point \in Unwinding
      BY <1>1 DEF LineInv, LineOrder, Unwinding
    <3> QED
      BY <2>3, <3>1, <3>2 DEF LineInv, LineTruth
  <2> QED
    BY <1>1, <1>4, <2>1, <2>2, <2>3 DEF LineTruth, AllWell, Unwinding
<1>8. LineSignals(s)'
  <2>1. Terminated' => Terminated /\ code' = code /\ path' = path
                       /\ reports'[sink] = [state |-> "written", rows |-> records]
    BY <1>1, <1>3, <1>4 DEF Terminated
  <2>2. point' # "ended"
    BY <1>1
  <2> SUFFICES ASSUME Terminated' PROVE LineSignals(s)'
    BY <2>2 DEF LineSignals
  <2>3. code' = 143 /\ path' = "exit" /\ ~mishap'
    BY <1>1, <2>1 DEF LineInv, LineSignals, Unwinding, Terminated
  <2>4. \A i \in 1..Len(sinks) : i > sink \/ reports'[i] = [state |-> "written", rows |-> records]
    BY <1>1, <1>2, <1>3, <2>1 DEF LineInv, LineSignals, Unwinding
  <2> QED
    BY <1>1, <1>2, <1>4, <2>2, <2>3, <2>4 DEF LineSignals
<1> QED
  BY <1>5, <1>6, <1>7, <1>8 DEF LineInv

\* The finally clause.
LEMMA LineReleases ==
    ASSUME NEW s \in LineSetups, LineInv(s), Line(s)!Release
    PROVE  LineInv(s)'
<1>1. /\ UNCHANGED <<chain, machine, sinks, at, answers, records, sink, path, reports, code, mishap, signals, struck>>
      /\ \/ point = "release" /\ point' = "releasing" /\ dbclient' = "closing"
         \/ point = "releasing" /\ point' = "ended" /\ dbclient' = "closed"
  BY DEF Line!Release, Line!Exit, Line!asked
<1>2. LineTypes(s)'
  BY <1>1 DEF LineInv, LineTypes, Unwinding
<1>3. LineOrder(s)'
  BY <1>1 DEF LineInv, LineOrder, Preparing, Unwinding
<1>4. LineTruth(s)'
  BY <1>1 DEF LineInv, LineOrder, LineTruth, AllWell, Unwinding
<1>5. LineSignals(s)'
  BY <1>1 DEF LineInv, LineSignals, Unwinding, Terminated
<1> QED
  BY <1>2, <1>3, <1>4, <1>5 DEF LineInv

\* A signal ends the process, or leads to the finally clause.
LEMMA LineIsStruck ==
    ASSUME NEW s \in LineSetups, LineInv(s), NEW kind \in {"term", "interrupt"}, Line(s)!Struck(kind),
           path' = path, sink' = sink, NEW c \in {130, 143},
           code' = c,
           \/ point \in Preparing \cup {"release", "releasing"} /\ point' = "ended"
           \/ point \in {"next", "running"} /\ kind = "interrupt" /\ point' = "release"
           \/ point = "closing" /\ (kind = "term" => path # "body") /\ point' = "release"
    PROVE  LineInv(s)'
<1>1. /\ UNCHANGED <<chain, machine, sinks, at, answers, records, reports, dbclient, mishap>>
      /\ signals' = signals + 1 /\ signals \in Nat
      /\ struck' = IF signals = 0 THEN [kind |-> kind, point |-> point] ELSE struck
  BY DEF Line!Struck, Line!asked, LineInv, LineTypes
<1>2. point' \in {"ended", "release"} /\ c # 0
  OBVIOUS
<1>3. LineTypes(s)'
  BY <1>1, <1>2 DEF LineInv, LineTypes, Unwinding
<1>4. LineOrder(s)'
  BY <1>1, <1>2 DEF LineInv, LineOrder, Preparing, Unwinding
<1>5. LineTruth(s)'
  BY <1>1, <1>2 DEF LineInv, LineTruth, Unwinding
<1>6. LineSignals(s)'
  <2>1. ~Terminated'
    BY <1>1 DEF Terminated, Preparing
  <2>2. point' = "ended" /\ dbclient' # "none" => signals' > 1 \/ struck'.point \in {"built", "release", "releasing"}
    BY <1>1 DEF LineInv, LineOrder, Preparing
  <2> QED
    BY <2>1, <2>2 DEF LineSignals
<1> QED
  BY <1>3, <1>4, <1>5, <1>6 DEF LineInv

\* SIGTERM.
LEMMA LineIsTerminated ==
    ASSUME NEW s \in LineSetups, LineInv(s), Line(s)!Terminate
    PROVE  LineInv(s)'
<1>1. /\ UNCHANGED <<chain, machine, sinks, at, answers, records, reports, dbclient, mishap>>
      /\ signals' = signals + 1 /\ signals \in Nat
      /\ struck' = IF signals = 0 THEN [kind |-> "term", point |-> point] ELSE struck
  BY DEF Line!Terminate, Line!Struck, Line!asked, LineInv, LineTypes
<1>2. CASE /\ point \in {"next", "running"} \/ (point = "closing" /\ path = "body")
           /\ Line(s)!CloseLogs("exit", 143)
  <2>1. point' = "closing" /\ path' = "exit" /\ sink' = 1 /\ code' = 143
    BY <1>2 DEF Line!CloseLogs
  <2>2. dbclient = "open" \/ point = "closing"
    BY <1>2 DEF LineInv, LineOrder
  <2>3. LineTypes(s)'
    BY <1>1, <2>1 DEF LineInv, LineTypes, Unwinding
  <2>4. LineOrder(s)'
    BY <1>1, <1>2, <2>1 DEF LineInv, LineOrder, Preparing, Unwinding
  <2>5. LineTruth(s)'
    BY <1>1, <2>1 DEF LineInv, LineTruth, Unwinding
  <2>6. LineSignals(s)'
    BY <1>1, <2>1 DEF LineInv, LineTypes, LineSignals, Unwinding
  <2> QED
    BY <2>3, <2>4, <2>5, <2>6 DEF LineInv
<1>3. CASE /\ point \in {"parse", "logging", "prepare", "built", "release", "releasing"}
           /\ Line(s)!Exit(143) /\ UNCHANGED <<sink, path>>
  BY <1>3, LineIsStruck DEF Line!Terminate, Line!Exit, Preparing
<1>4. CASE /\ point = "closing" /\ path # "body"
           /\ point' = "release" /\ code' = 143 /\ UNCHANGED <<sink, path>>
  BY <1>4, LineIsStruck DEF Line!Terminate
<1> QED
  BY <1>2, <1>3, <1>4 DEF Line!Terminate

\* Ctrl-C.
LEMMA LineIsInterrupted ==
    ASSUME NEW s \in LineSetups, LineInv(s), Line(s)!Interrupt
    PROVE  LineInv(s)'
BY LineIsStruck DEF Line!Interrupt, Line!Exit, Preparing

\* Every step of the command line.
LEMMA LineSteps ==
    ASSUME NEW s \in LineSetups, LineInv(s), Line(s)!Next
    PROVE  LineInv(s)'
BY LineParses, LineConfigures, LinePrepares, LineEnters, LineGoesOn, LineExecutes, LineClosesSink,
   LineReleases, LineIsTerminated, LineIsInterrupted
DEF Line!Next, Line!Step

\* The invariant says what the properties of the command line do.
LEMMA LineGives ==
    ASSUME NEW s \in LineSetups, LineInv(s)
    PROVE  Line(s)!StopsAtFailure /\ Line(s)!UnwindsInOrder /\ Line(s)!ExitTellsTheTruth
<1>1. Line(s)!StopsAtFailure
  BY DEF LineInv, LineTypes, LineOrder, Line!StopsAtFailure
<1>2. Line(s)!UnwindsInOrder
  BY DEF LineInv, LineTypes, LineSignals, Line!UnwindsInOrder, Terminated, Unwinding
<1>3. Line(s)!ExitTellsTheTruth
  <2> SUFFICES ASSUME point = "ended", dbclient # "none" PROVE Line(s)!ExitTellsTheTruth
    BY DEF Line!ExitTellsTheTruth
  <2>1. /\ Len(chain) \in Nat /\ answers \in Seq(Line(s)!Outcomes) /\ records \in Seq(BOOLEAN) /\ chain # << >>
        /\ DOMAIN reports = 1..Len(sinks)
    BY DEF LineInv, LineTypes
  <2>2. \A i \in DOMAIN reports : reports[i].state = "written" => reports[i].rows = records
    BY <2>1 DEF LineInv, LineTruth
  <2>3. code = 0 => AllWell
    BY DEF LineInv, LineTruth, Unwinding
  <2>4. code = 0 => Line(s)!Succeeded
    <3> SUFFICES ASSUME code = 0 PROVE answers = [i \in 1..Len(chain) |-> "ok"]
      BY DEF Line!Succeeded
    <3> QED
      BY <2>1, <2>3 DEF AllWell
  <2>5. code = 0 => \A i \in DOMAIN reports : reports[i].state = "written" =>
          Line(s)!SaysSuccess(reports[i]) /\ Len(reports[i].rows) = Len(chain)
    BY <2>1, <2>2, <2>3 DEF AllWell, Line!SaysSuccess
  <2>6. Line(s)!Succeeded /\ signals = 0 /\ ~mishap => code = 0
    <3> SUFFICES ASSUME Line(s)!Succeeded, signals = 0, ~mishap PROVE code = 0
      OBVIOUS
    <3>1. Len(answers) = Len(chain) /\ \A i \in 1..Len(chain) : answers[i] = "ok"
      BY <2>1 DEF Line!Succeeded
    <3> QED
      BY <3>1 DEF LineInv, LineTruth, Unwinding
  <2> QED
    BY <2>4, <2>5, <2>6 DEF Line!ExitTellsTheTruth
<1> QED
  BY <1>1, <1>2, <1>3

\* While the command line runs, its invariant holds.
LineHolds == part = "line" => setup \in LineSetups /\ \A s \in LineSetups : setup = s => LineInv(s)

\* A step of any part keeps it.
LEMMA LineStays ==
    ASSUME LineHolds, [Next]_vars
    PROVE  LineHolds'
<1>1. CASE part # "line"
  <2>1. part' = part
    BY DEF Next, CallsRun, AsyncRuns, BusRuns, LineRuns, ServerRuns, vars
  <2> QED
    BY <1>1, <2>1 DEF LineHolds
<1>2. CASE part = "line" /\ Next
  <2>1. PICK s \in LineSetups : setup = s /\ Line(s)!Next
    BY <1>2 DEF Next, CallsRun, AsyncRuns, BusRuns, ServerRuns
  <2>2. LineInv(s)'
    BY <1>2, <2>1, LineSteps DEF LineHolds
  <2>3. setup' = s
    BY <1>2, <2>1 DEF Next, CallsRun, AsyncRuns, BusRuns, LineRuns, ServerRuns
  <2> QED
    BY <2>1, <2>2, <2>3 DEF LineHolds
<1>3. CASE part = "line" /\ UNCHANGED vars
  <2>1. UNCHANGED <<part, setup>> /\ UNCHANGED lineVars
    BY <1>3 DEF vars
  <2> SUFFICES ASSUME NEW s \in LineSetups, setup = s
               PROVE  LineInv(s)'
    BY <1>3, <2>1 DEF LineHolds
  <2>2. LineInv(s)
    BY <1>3 DEF LineHolds
  <2>3. LineTypes(s)'
    BY <2>1, <2>2 DEF LineInv, LineTypes, lineVars
  <2>4. LineOrder(s)'
    BY <2>1, <2>2 DEF LineInv, LineOrder, lineVars
  <2>5. LineTruth(s)'
    BY <2>1, <2>2 DEF LineInv, LineTruth, AllWell, lineVars
  <2>6. LineSignals(s)'
    BY <2>1, <2>2 DEF LineInv, LineSignals, Terminated, lineVars
  <2> QED
    BY <2>3, <2>4, <2>5, <2>6 DEF LineInv
<1> QED
  BY <1>1, <1>2, <1>3

-----------------------------------------------------------------------------
(* The MCP server                                                          *)

\* The stages of a call with the lock, and those of them with the redirect.
Redirected == {"entered", "configured", "open", "ran"}
Locked == Redirected \cup {"left", "closed", "over"}

\* What a worker thread of the server runs.
ThreadType(s) ==
    [stage: {"idle", "waiting"} \cup Locked, id: Nat, tool: s.tools \cup {0}, saved: Nat, pinned: Nat, fine: BOOLEAN]

\* The variables have their types, and the calls made are the first ones.
ServerTypes(s) ==
    /\ s.requests \in Nat /\ 0 \notin s.callers
    /\ setting \in s.settings /\ turn \in s.callers \cup {0} /\ stdout \in Nat /\ pin \in Nat
    /\ thread \in [s.callers -> ThreadType(s)]
    /\ buffers \in [1..s.requests -> SUBSET (1..s.requests)] /\ files \in [1..s.requests -> SUBSET (1..s.requests)]
    /\ logOf \in [1..s.requests -> [file: 0..s.requests, format: {"none", "text", "json", "both"}]]
    /\ DOMAIN replies = 1..s.requests
    /\ Server(s)!made \in 0..s.requests
    /\ \A i \in 1..s.requests : replies[i] # "none" <=> i <= Server(s)!made

\* Threads run different calls, of tools the server offers; the one with the lock is past it.
ServerCalls(s) ==
    /\ \A c \in s.callers : (turn = c) = (thread[c].stage \in Locked)
    /\ \A c \in s.callers : thread[c].stage # "idle" =>
         /\ thread[c].id \in 1..Server(s)!made /\ thread[c].tool \in Server(s)!Offered
         /\ ~(setting.offline /\ thread[c].tool.connects)
    /\ \A c, d \in s.callers : c # d /\ thread[c].stage # "idle" /\ thread[d].stage # "idle" => thread[c].id # thread[d].id

\* The process prints into the buffer of the call that has the lock, and has at most its client.
ServerOutput(s) ==
    /\ ~leaked /\ \A i \in 1..s.requests : buffers[i] \subseteq {i}
    /\ turn = 0 => stdout = 0
    /\ \A c \in s.callers : thread[c].stage \in Redirected => stdout = thread[c].id /\ thread[c].saved = 0
    /\ \A c \in s.callers : thread[c].stage \in Locked \ Redirected => stdout = 0
    /\ \A i \in clients : \E c \in s.callers : turn = c /\ thread[c].id = i /\ thread[c].tool.connects
                                                /\ thread[c].stage \in {"open", "ran", "left"}

\* The document of another call was written into the file of this one.
Erased(i, n, logs) ==
    n # "default" /\ \E j \in DOMAIN logs \ {i} : logs[j].file = logs[i].file /\ logs[j].format \in {"json", "both"}

\* A call with naming n, how calls were answered, the files, the logs, the pinned file and
\* the deleted ones: text calls write into the pinned file, or into one that was deleted;
\* what is written stays unless it is deleted or erased, and by default a document has a
\* file of its own.
CallLogged(i, n, answered, fs, logs, p, deleted) ==
    LET file == logs[i].file  format == logs[i].format
    IN  /\ answered[i] = "none" => format = "none"
        /\ format = "none" => file = 0 /\ (n = "default" => fs[i] = {})
        /\ format # "none" => file \in DOMAIN logs
        /\ n = "default" /\ format = "json" => file = i /\ fs[i] \subseteq {i}
        /\ n = "default" /\ format \in {"text", "both"} => logs[file].format \in {"text", "both"}
        /\ format = "text" => file = p \/ file \in deleted
        /\ format \in {"text", "both"} => fs[file] # {} \/ file \in deleted
        /\ format \in {"text", "both"} => i \in fs[file] \/ file \in deleted \/ Erased(i, n, logs)

\* The pinned file is not a document's by default, and the calls are logged.
ServerLog(s) ==
    /\ pin # 0 => pin \in 1..s.requests /\ (setting.naming = "default" => logOf[pin].format \in {"text", "both"})
    /\ \A c \in s.callers :
         /\ thread[c].stage = "entered" => thread[c].pinned = pin
         /\ thread[c].stage \in {"waiting", "entered"} => logOf[thread[c].id].format = "none"
    /\ \A i \in 1..s.requests : CallLogged(i, setting.naming, replies, files, logOf, pin, gone)
ServerInv(s) == ServerTypes(s) /\ ServerCalls(s) /\ ServerOutput(s) /\ ServerLog(s)

\* The calls made are counted by the last of them.
LEMMA CallsCounted ==
    ASSUME NEW n \in Nat, NEW r, NEW k \in 0..n, \A i \in 1..n : r[i] # "none" <=> i <= k
    PROVE  Cardinality({i \in 1..n : r[i] # "none"}) = k
<1>1. {i \in 1..n : r[i] # "none"} = 1..k
  OBVIOUS
<1>2. Cardinality(1..k) = IF 1 <= k THEN k - 1 + 1 ELSE 0
  BY FS_Interval, 1 \in Int, k \in Int
<1>3. Cardinality(1..k) = k
  BY <1>2
<1> QED
  BY <1>1, <1>3

\* What the server makes of the calls.
LEMMA CallsMade ==
    ASSUME NEW s \in ServerSetups
    PROVE  /\ Server(s)!made = Cardinality({i \in 1..s.requests : replies[i] # "none"})
           /\ Server(s)!made' = Cardinality({i \in 1..s.requests : replies'[i] # "none"})
BY DEF Server!made, Server!Requests, Server!Cardinality, Cardinality

\* It holds at the start.
LEMMA ServerStarts ==
    ASSUME NEW s \in ServerSetups, Server(s)!McpServerAssumption, Server(s)!Init
    PROVE  ServerInv(s)
<1>1. s.requests \in Nat /\ 0 \notin s.callers
  BY DEF Server!McpServerAssumption
<1>2. Server(s)!made = 0
  <2>1. \A i \in 1..s.requests : replies[i] # "none" <=> i <= 0
    BY DEF Server!Init, Server!Requests
  <2>2. Cardinality({i \in 1..s.requests : replies[i] # "none"}) = 0
    BY <1>1, <2>1, CallsCounted, 0 \in 0..s.requests
  <2> QED
    BY <2>2, CallsMade
<1>3. ServerTypes(s)
  BY <1>1, <1>2 DEF ServerTypes, ThreadType, Server!Init, Server!Requests, Server!Idle, Server!Call
<1>4. ServerCalls(s)
  BY <1>1 DEF ServerCalls, Server!Init, Server!Idle, Server!Call, Locked, Redirected
<1>5. ServerOutput(s)
  BY <1>1 DEF ServerOutput, Server!Init, Server!Requests, Server!Idle, Server!Call, Locked, Redirected
<1>6. ServerLog(s)
  BY <1>1 DEF ServerLog, CallLogged, Server!Init, Server!Requests, Server!Idle, Server!Call
<1> QED
  BY <1>3, <1>4, <1>5, <1>6 DEF ServerInv

\* The calls made stay the same as long as none is added.
LEMMA MadeStays ==
    ASSUME NEW s \in ServerSetups, ServerTypes(s),
           \A i \in 1..s.requests : replies'[i] # "none" <=> replies[i] # "none"
    PROVE  /\ Server(s)!made' = Server(s)!made
           /\ Server(s)!made' \in 0..s.requests /\ \A i \in 1..s.requests : replies'[i] # "none" <=> i <= Server(s)!made'
<1>1. {i \in 1..s.requests : replies'[i] # "none"} = {i \in 1..s.requests : replies[i] # "none"}
  OBVIOUS
<1>2. Server(s)!made' = Server(s)!made
  BY <1>1, CallsMade
<1> QED
  BY <1>2 DEF ServerTypes

\* A call that has the lock goes on.
LEMMA CallGoesOn ==
    ASSUME NEW s \in ServerSetups, ServerInv(s), NEW c \in s.callers, thread[c].stage \in Locked,
           thread' \in [s.callers -> ThreadType(s)], \A d \in s.callers \ {c} : thread'[d] = thread[d],
           thread'[c].stage \in Locked, thread'[c].id = thread[c].id, thread'[c].tool = thread[c].tool,
           UNCHANGED <<setting, turn, replies>>
    PROVE  /\ ServerCalls(s)'
           /\ Server(s)!made' \in 0..s.requests /\ \A i \in 1..s.requests : replies'[i] # "none" <=> i <= Server(s)!made'
<1>1. ServerTypes(s) /\ ServerCalls(s)
  BY DEF ServerInv
<1>2. /\ Server(s)!made' = Server(s)!made
      /\ Server(s)!made' \in 0..s.requests /\ \A i \in 1..s.requests : replies'[i] # "none" <=> i <= Server(s)!made'
  BY <1>1, MadeStays
<1>3. Server(s)!Offered' = Server(s)!Offered
  BY DEF Server!Offered
<1>4. \A d \in s.callers : /\ thread'[d].id = thread[d].id /\ thread'[d].tool = thread[d].tool
                           /\ (thread'[d].stage \in Locked) = (thread[d].stage \in Locked)
                           /\ (thread'[d].stage # "idle") = (thread[d].stage # "idle")
  BY DEF Locked, Redirected
<1>5. ServerCalls(s)'
  BY <1>1, <1>2, <1>3, <1>4 DEF ServerCalls
<1> QED
  BY <1>2, <1>5

\* A tool is called.
LEMMA CallIsAsked ==
    ASSUME NEW s \in ServerSetups, Server(s)!McpServerAssumption, ServerInv(s), NEW c \in s.callers, NEW t \in s.tools,
           Server(s)!Ask(c, t)
    PROVE  ServerInv(s)'
<1> DEFINE m == Server(s)!made
<1>1. ServerTypes(s) /\ ServerCalls(s) /\ ServerOutput(s) /\ ServerLog(s) /\ s.requests \in Nat
  BY DEF ServerInv, Server!McpServerAssumption
<1>2. /\ UNCHANGED <<setting, turn, stdout, buffers, leaked, clients, pin, files, logOf, gone>>
      /\ thread[c].stage = "idle" /\ t \in Server(s)!Offered /\ m < s.requests
      /\ \/ replies' = [replies EXCEPT ![m + 1] = "refused"] /\ UNCHANGED thread
         \/ /\ replies' = [replies EXCEPT ![m + 1] = "awaited"] /\ ~(setting.offline /\ t.connects)
            /\ thread' = [thread EXCEPT ![c] = Server(s)!Call("waiting", m + 1, t)]
  BY DEF Server!Ask, Server!At, Server!logs
<1>3. m \in 0..s.requests /\ m + 1 \in 1..s.requests
  BY <1>1, <1>2 DEF ServerTypes
<1>4. \A i \in 1..s.requests : replies'[i] # "none" <=> i <= m + 1
  <2>1. DOMAIN replies = 1..s.requests /\ \A i \in 1..s.requests : replies[i] # "none" <=> i <= m
    BY <1>1 DEF ServerTypes
  <2>2. replies'[m + 1] # "none" /\ \A i \in 1..s.requests : i # m + 1 => replies'[i] = replies[i]
    BY <1>2, <1>3, <2>1
  <2> HIDE DEF m
  <2> QED
    BY <1>3, <2>1, <2>2
<1>5. Server(s)!made' = m + 1
  <2> HIDE DEF m
  <2>1. m + 1 \in 0..s.requests
    BY <1>1, <1>3
  <2>2. Cardinality({i \in 1..s.requests : replies'[i] # "none"}) = m + 1
    BY <1>1, <1>4, <2>1, CallsCounted
  <2> QED
    BY <2>2, CallsMade
<1> HIDE DEF m
<1>6. Server(s)!Call("waiting", m + 1, t) =
        [stage |-> "waiting", id |-> m + 1, tool |-> t, saved |-> 0, pinned |-> 0, fine |-> TRUE]
  BY DEF Server!Call
<1>7. \A d \in s.callers :
        \/ thread'[d] = thread[d]
        \/ d = c /\ thread'[c] = [stage |-> "waiting", id |-> m + 1, tool |-> t, saved |-> 0, pinned |-> 0, fine |-> TRUE]
                 /\ ~(setting.offline /\ t.connects)
  BY <1>1, <1>2, <1>6 DEF ServerTypes
<1>8. ServerTypes(s)'
  <2>1. thread' \in [s.callers -> ThreadType(s)] /\ DOMAIN replies' = 1..s.requests
    <3>1. [stage |-> "waiting", id |-> m + 1, tool |-> t, saved |-> 0, pinned |-> 0, fine |-> TRUE] \in ThreadType(s)
      BY <1>3 DEF ThreadType
    <3>2. thread \in [s.callers -> ThreadType(s)] /\ DOMAIN replies = 1..s.requests
      BY <1>1 DEF ServerTypes
    <3> QED
      BY <1>2, <1>6, <3>1, <3>2
  <2> QED
    BY <1>1, <1>2, <1>3, <1>4, <1>5, <2>1 DEF ServerTypes
<1>9. ServerCalls(s)'
  <2>1. Server(s)!Offered' = Server(s)!Offered
    BY <1>2 DEF Server!Offered
  <2>2. "waiting" \notin Locked /\ "idle" \notin Locked
    BY DEF Locked, Redirected
  <2>3. \A d \in s.callers : thread[d].stage # "idle" => thread[d].id \in 1..m
    BY <1>1 DEF ServerCalls, m
  <2> QED
    BY <1>1, <1>2, <1>3, <1>5, <1>7, <2>1, <2>2, <2>3 DEF ServerCalls
<1>10. ServerOutput(s)'
  BY <1>1, <1>2, <1>7 DEF ServerOutput, Locked, Redirected
<1>11. ServerLog(s)'
  <2>1. replies[m + 1] = "none"
    BY <1>1, <1>3 DEF ServerTypes, m
  <2>2. logOf[m + 1].format = "none"
    BY <1>1, <1>3, <2>1 DEF ServerLog, CallLogged
  <2>3. \A i \in 1..s.requests : replies'[i] = "none" => replies[i] = "none"
    BY <1>1, <1>2, <1>3 DEF ServerTypes
  <2>4. \A i \in 1..s.requests : CallLogged(i, setting.naming, replies, files, logOf, pin, gone)
    BY <1>1 DEF ServerLog
  <2>5. \A i \in 1..s.requests : CallLogged(i, setting.naming, replies', files, logOf, pin, gone)
    BY <2>3, <2>4 DEF CallLogged
  <2> QED
    BY <1>1, <1>2, <1>7, <2>2, <2>5 DEF ServerLog
<1> QED
  BY <1>8, <1>9, <1>10, <1>11 DEF ServerInv

\* Only one call has the lock.
LEMMA OneLocked ==
    ASSUME NEW s \in ServerSetups, ServerInv(s), NEW c \in s.callers, thread[c].stage \in Locked
    PROVE  /\ turn = c /\ thread[c].id \in 1..s.requests /\ thread[c] \in ThreadType(s)
           /\ \A d \in s.callers : thread[d].stage \in Locked => d = c
           /\ \A d \in s.callers : thread[d].stage # "idle" => thread[d].id \in 1..s.requests
           /\ \A d \in s.callers : thread[d].stage # "idle" /\ d # c => thread[d].id # thread[c].id
<1>1. ServerTypes(s) /\ ServerCalls(s)
  BY DEF ServerInv
<1>2. turn = c
  BY <1>1 DEF ServerCalls
<1>3. \A d \in s.callers : thread[d].stage \in Locked => d = c
  BY <1>1, <1>2 DEF ServerCalls
<1>4. \A d \in s.callers : thread[d].stage # "idle" => thread[d].id \in 1..s.requests
  BY <1>1 DEF ServerCalls, ServerTypes
<1>5. thread[c].stage # "idle"
  BY DEF Locked, Redirected
<1> QED
  BY <1>1, <1>2, <1>3, <1>4, <1>5 DEF ServerCalls, ServerTypes

\* A call moves to its next stage, or fails.
LEMMA ThreadMoves ==
    ASSUME NEW s \in ServerSetups, ServerTypes(s), NEW c \in s.callers, NEW x \in Locked,
           \/ thread' = [thread EXCEPT ![c].stage = x]
           \/ thread' = [thread EXCEPT ![c].stage = x, ![c].fine = FALSE]
    PROVE  /\ thread' \in [s.callers -> ThreadType(s)] /\ \A d \in s.callers \ {c} : thread'[d] = thread[d]
           /\ thread'[c].stage = x /\ thread'[c].saved = thread[c].saved /\ thread'[c].pinned = thread[c].pinned
           /\ thread'[c].id = thread[c].id /\ thread'[c].tool = thread[c].tool
<1>1. thread \in [s.callers -> ThreadType(s)] /\ thread[c] \in ThreadType(s)
  BY DEF ServerTypes
<1>2. PICK f \in {[thread[c] EXCEPT !.stage = x], [thread[c] EXCEPT !.stage = x, !.fine = FALSE]} :
        thread' = [thread EXCEPT ![c] = f]
  OBVIOUS
<1>3. /\ f \in ThreadType(s) /\ f.stage = x /\ f.saved = thread[c].saved /\ f.pinned = thread[c].pinned
      /\ f.id = thread[c].id /\ f.tool = thread[c].tool
  <2>1. CASE f = [thread[c] EXCEPT !.stage = x]
    BY <1>1, <2>1 DEF ThreadType
  <2>2. CASE f = [thread[c] EXCEPT !.stage = x, !.fine = FALSE]
    BY <1>1, <2>2 DEF ThreadType
  <2> QED
    BY <1>2, <2>1, <2>2
<1> QED
  BY <1>1, <1>2, <1>3

\* A call gets the lock.
LEMMA CallAcquires ==
    ASSUME NEW s \in ServerSetups, Server(s)!McpServerAssumption, ServerInv(s), NEW c \in s.callers, Server(s)!Acquire(c)
    PROVE  ServerInv(s)'
<1>1. ServerTypes(s) /\ ServerCalls(s) /\ ServerOutput(s) /\ ServerLog(s) /\ 0 \notin s.callers /\ s.requests \in Nat
  BY DEF ServerInv, Server!McpServerAssumption
<1>2. /\ UNCHANGED <<setting, buffers, leaked, clients, files, logOf, gone, replies>>
      /\ thread[c].stage = "waiting" /\ turn = 0 /\ turn' = c /\ stdout' = thread[c].id
      /\ pin' = Server(s)!Pinned
      /\ thread' = [thread EXCEPT ![c].stage = "entered", ![c].saved = stdout, ![c].pinned = Server(s)!Pinned]
  BY DEF Server!Acquire, Server!At
<1>3. Server(s)!Pinned \in Nat /\ (Server(s)!Pinned = pin \/ (Server(s)!Pinned = 0 /\ pin # 0 /\ files[pin] = {}))
  BY <1>1 DEF Server!Pinned, ServerTypes
<1>4. /\ stdout = 0 /\ clients = {} /\ thread[c].id \in Nat /\ thread[c].id \in 1..s.requests
      /\ \A d \in s.callers : thread[d].stage \notin Locked
  <2>1. stdout = 0 /\ clients = {}
    BY <1>1, <1>2 DEF ServerOutput
  <2>2. thread[c].id \in 1..Server(s)!made
    BY <1>1, <1>2 DEF ServerCalls
  <2>3. \A d \in s.callers : turn # d
    BY <1>1, <1>2
  <2>4. \A d \in s.callers : thread[d].stage \notin Locked
    BY <1>1, <2>3 DEF ServerCalls
  <2> QED
    BY <1>1, <2>1, <2>2, <2>4 DEF ServerTypes
<1>5. /\ thread' \in [s.callers -> ThreadType(s)] /\ \A d \in s.callers \ {c} : thread'[d] = thread[d]
      /\ thread'[c].stage = "entered" /\ thread'[c].saved = 0 /\ thread'[c].pinned = pin'
      /\ thread'[c].id = thread[c].id /\ thread'[c].tool = thread[c].tool
  <2>1. thread[c] \in ThreadType(s) /\ thread \in [s.callers -> ThreadType(s)]
    BY <1>1 DEF ServerTypes
  <2>2. "entered" \in Locked
    BY DEF Locked, Redirected
  <2> QED
    BY <1>2, <1>3, <1>4, <2>1, <2>2 DEF ThreadType
<1>6. /\ Server(s)!made' = Server(s)!made
      /\ Server(s)!made' \in 0..s.requests /\ \A i \in 1..s.requests : replies'[i] # "none" <=> i <= Server(s)!made'
  BY <1>1, <1>2, MadeStays
<1>7. ServerTypes(s)'
  BY <1>1, <1>2, <1>3, <1>4, <1>5, <1>6 DEF ServerTypes
<1>8. ServerCalls(s)'
  <2>1. Server(s)!Offered' = Server(s)!Offered
    BY <1>2 DEF Server!Offered
  <2>2. \A d \in s.callers : /\ thread'[d].id = thread[d].id /\ thread'[d].tool = thread[d].tool
                             /\ (thread'[d].stage \in Locked) = (d = c)
                             /\ (thread'[d].stage # "idle") = (thread[d].stage # "idle")
    BY <1>2, <1>4, <1>5 DEF Locked, Redirected
  <2>3. \A d \in s.callers : (turn' = d) = (thread'[d].stage \in Locked)
    BY <1>2, <2>2
  <2>4. \A d \in s.callers : thread'[d].stage # "idle" =>
          /\ thread'[d].id \in 1..Server(s)!made' /\ thread'[d].tool \in Server(s)!Offered'
          /\ ~(setting'.offline /\ thread'[d].tool.connects)
    BY <1>1, <1>2, <1>6, <2>1, <2>2 DEF ServerCalls
  <2>5. \A d, e \in s.callers : d # e /\ thread'[d].stage # "idle" /\ thread'[e].stage # "idle" => thread'[d].id # thread'[e].id
    BY <1>1, <2>2 DEF ServerCalls
  <2> QED
    BY <2>3, <2>4, <2>5 DEF ServerCalls
<1>9. ServerOutput(s)'
  BY <1>1, <1>2, <1>4, <1>5 DEF ServerOutput, Locked, Redirected
<1>10. ServerLog(s)'
  <2>1. \A i \in 1..s.requests : CallLogged(i, setting.naming, replies, files, logOf, pin, gone)
    BY <1>1 DEF ServerLog
  <2>2. \A d \in s.callers : /\ thread'[d].stage = "entered" => thread'[d].pinned = pin'
                             /\ thread'[d].stage \in {"waiting", "entered"} => logOf[thread'[d].id].format = "none"
    BY <1>1, <1>2, <1>4, <1>5 DEF ServerLog, Locked, Redirected
  <2>3. pin' # 0 => pin' \in 1..s.requests /\ (setting.naming = "default" => logOf[pin'].format \in {"text", "both"})
    BY <1>1, <1>2, <1>3 DEF ServerLog
  <2>4. pin' = pin \/ files[pin] = {}
    BY <1>2, <1>3
  <2>5. \A i \in 1..s.requests : CallLogged(i, setting.naming, replies, files, logOf, pin', gone)
    BY <2>1, <2>4 DEF CallLogged
  <2>6. logOf' = logOf /\ files' = files /\ gone' = gone /\ replies' = replies /\ setting' = setting
    BY <1>2
  <2> QED
    BY <2>2, <2>3, <2>5, <2>6 DEF ServerLog
<1> QED
  BY <1>7, <1>8, <1>9, <1>10 DEF ServerInv

\* Configuration and logging of a call.
LEMMA CallConfigures ==
    ASSUME NEW s \in ServerSetups, Server(s)!McpServerAssumption, ServerInv(s), NEW c \in s.callers, Server(s)!Configure(c)
    PROVE  ServerInv(s)'
<1> DEFINE i == thread[c].id
<1>1. ServerTypes(s) /\ ServerCalls(s) /\ ServerOutput(s) /\ ServerLog(s) /\ s.formats \subseteq {"text", "json", "both"}
  BY DEF ServerInv, Server!McpServerAssumption
<1>2. /\ UNCHANGED <<setting, turn, stdout, buffers, leaked, clients, replies, gone>> /\ thread[c].stage = "entered"
      /\ \/ thread' = [thread EXCEPT ![c].stage = "ran", ![c].fine = FALSE]
         \/ thread' = [thread EXCEPT ![c].stage = "configured"]
  BY DEF Server!Configure, Server!At, Server!Fail, Server!Move, Server!logs
<1>3. thread[c].stage \in Locked /\ thread[c].stage \in Redirected
  BY <1>2 DEF Locked, Redirected
<1>4. /\ turn = c /\ i \in 1..s.requests /\ thread[c] \in ThreadType(s)
      /\ \A d \in s.callers : thread[d].stage \in Locked => d = c
      /\ \A d \in s.callers : thread[d].stage # "idle" => thread[d].id \in 1..s.requests
      /\ \A d \in s.callers : thread[d].stage # "idle" /\ d # c => thread[d].id # i
  BY <1>3, OneLocked
<1>5. /\ thread' \in [s.callers -> ThreadType(s)] /\ \A d \in s.callers \ {c} : thread'[d] = thread[d]
      /\ thread'[c].stage \in {"ran", "configured"} /\ thread'[c].saved = thread[c].saved
      /\ thread'[c].id = thread[c].id /\ thread'[c].tool = thread[c].tool
  <2>1. PICK x \in {"ran", "configured"} : \/ thread' = [thread EXCEPT ![c].stage = x]
                                           \/ thread' = [thread EXCEPT ![c].stage = x, ![c].fine = FALSE]
    BY <1>2
  <2>2. x \in Locked
    BY DEF Locked, Redirected
  <2> QED
    BY <1>1, <2>1, <2>2, ThreadMoves
<1>6. /\ ServerCalls(s)'
      /\ Server(s)!made' \in 0..s.requests /\ \A j \in 1..s.requests : replies'[j] # "none" <=> j <= Server(s)!made'
  <2>1. thread'[c].stage \in Locked
    BY <1>5 DEF Locked, Redirected
  <2> QED
    BY <1>2, <1>3, <1>5, <2>1, CallGoesOn
<1>7. ServerOutput(s)'
  BY <1>1, <1>2, <1>3, <1>5 DEF ServerOutput, Locked, Redirected
<1>8. CASE UNCHANGED <<pin, files, logOf>>
  <2>1. ServerTypes(s)'
    BY <1>1, <1>2, <1>5, <1>6, <1>8 DEF ServerTypes
  <2>2. ServerLog(s)'
    BY <1>1, <1>2, <1>5, <1>8 DEF ServerLog
  <2> QED
    BY <1>6, <1>7, <2>1, <2>2 DEF ServerInv
<1>9. ASSUME NEW f \in s.formats,
             NEW file \in IF f = "text" /\ thread[c].pinned # 0 THEN {thread[c].pinned} ELSE Server(s)!Names(i, f),
             logOf' = [logOf EXCEPT ![i] = [file |-> file, format |-> f]],
             pin' = IF f = "text" /\ thread[c].pinned = 0 THEN file ELSE pin,
             files' = IF f = "json" THEN files ELSE [files EXCEPT ![file] = @ \cup {i}]
      PROVE  ServerInv(s)'
  <2> HIDE DEF i
  <2> DEFINE n == setting.naming
  <2>0. \A j \in 1..s.requests : CallLogged(j, n, replies, files, logOf, pin, gone)
    BY <1>1 DEF ServerLog
  <2>1. /\ thread[c].pinned = pin /\ logOf[i].format = "none" /\ DOMAIN logOf = 1..s.requests
        /\ pin # 0 => pin \in 1..s.requests /\ (n = "default" => logOf[pin].format \in {"text", "both"})
    BY <1>1, <1>2, <1>4 DEF ServerLog, ServerTypes, i
  <2>2. /\ f \in {"text", "json", "both"} /\ file \in 1..s.requests /\ file \in Nat
        /\ n = "default" /\ f = "json" => file = i
        /\ n = "default" /\ f # "json" => file = i \/ logOf[file].format \in {"text", "both"}
    <3>1. f \in {"text", "json", "both"}
      BY <1>1, <1>9
    <3>2. CASE f = "text" /\ pin # 0
      BY <1>9, <2>1, <3>2
    <3>3. CASE ~(f = "text" /\ pin # 0)
      <4>1. file \in Server(s)!Names(i, f)
        BY <1>9, <2>1, <3>3
      <4>2. CASE n = "fixed"
        BY <1>1, <1>4, <4>1, <4>2 DEF ServerTypes, Server!Names
      <4>3. CASE n # "fixed" /\ file = i
        BY <1>1, <1>4, <3>1, <4>3
      <4>4. CASE n # "fixed" /\ file # i
        <5>1. PICK j \in 1..s.requests : /\ file = logOf[j].file /\ logOf[j].file # 0
                                         /\ n = "default" => f # "json" /\ logOf[j].format # "json"
          BY <4>1, <4>4 DEF Server!Names, Server!Requests
        <5>2. CallLogged(j, n, replies, files, logOf, pin, gone) /\ logOf[j].format \in {"none", "text", "json", "both"}
          BY <1>1, <2>0 DEF ServerTypes
        <5>3. /\ file \in 1..s.requests
              /\ n = "default" => logOf[file].format \in {"text", "both"}
          BY <2>1, <5>1, <5>2 DEF CallLogged
        <5> QED
          BY <3>1, <4>4, <5>1, <5>3
      <4> QED
        BY <4>2, <4>3, <4>4
    <3> QED
      BY <3>2, <3>3
  <2>3. /\ logOf'[i] = [file |-> file, format |-> f]
        /\ \A j \in 1..s.requests : j # i => logOf'[j] = logOf[j]
        /\ \A j \in 1..s.requests : files'[j] = IF f # "json" /\ j = file THEN files[j] \cup {i} ELSE files[j]
    BY <1>1, <1>4, <1>9, <2>2 DEF ServerTypes
  <2> HIDE DEF n
  <2>4. ServerTypes(s)'
    <3>1. files' \in [1..s.requests -> SUBSET (1..s.requests)]
      BY <1>1, <1>4, <1>9, <2>2 DEF ServerTypes
    <3>2. logOf' \in [1..s.requests -> [file: 0..s.requests, format: {"none", "text", "json", "both"}]]
      BY <1>1, <1>4, <1>9, <2>2 DEF ServerTypes
    <3>3. pin' \in Nat
      BY <1>1, <1>9, <2>2 DEF ServerTypes
    <3> QED
      BY <1>1, <1>2, <1>5, <1>6, <3>1, <3>2, <3>3 DEF ServerTypes
  <2>5. ServerLog(s)'
    <3>1. pin' # 0 => pin' \in 1..s.requests /\ (n = "default" => logOf'[pin'].format \in {"text", "both"})
      BY <1>4, <1>9, <2>1, <2>2, <2>3
    <3>2. \A d \in s.callers : /\ thread'[d].stage = "entered" => thread'[d].pinned = pin'
                               /\ thread'[d].stage \in {"waiting", "entered"} => logOf'[thread'[d].id].format = "none"
      BY <1>1, <1>4, <1>5, <2>3 DEF ServerLog, Locked, Redirected, i
    <3>3. replies[i] # "none"
      BY <1>1, <1>3, <1>4 DEF ServerCalls, ServerTypes, Locked, Redirected, i
    <3>4. DOMAIN logOf' = 1..s.requests
      BY <1>9, <2>1
    <3>5. CallLogged(i, n, replies, files', logOf', pin', gone)
      <4>1. logOf'[i].file = file /\ logOf'[i].format = f
        BY <2>3
      <4>2. n = "default" /\ f = "json" => files'[i] \subseteq {i}
        BY <1>4, <2>0, <2>1, <2>3 DEF CallLogged
      <4>3. f \in {"text", "both"} => i \in files'[file]
        BY <2>2, <2>3
      <4>4. f = "text" => file = pin'
        BY <1>9, <2>1
      <4>5. n = "default" /\ f # "json" => logOf'[file].format \in {"text", "both"}
        BY <2>2, <2>3
      <4> QED
        BY <2>2, <3>3, <3>4, <4>1, <4>2, <4>3, <4>4, <4>5 DEF CallLogged
    <3>6. ASSUME NEW j \in 1..s.requests, j # i
          PROVE  CallLogged(j, n, replies, files', logOf', pin', gone)
      <4>1. logOf'[j] = logOf[j] /\ CallLogged(j, n, replies, files, logOf, pin, gone)
        BY <2>0, <2>3, <3>6
      <4>2. n = "default" /\ logOf[j].format \in {"none", "json"} => files'[j] = files[j]
        BY <2>2, <2>3, <3>6
      <4>3. logOf[j].format # "none" =>
              /\ logOf[j].file \in 1..s.requests /\ files[logOf[j].file] \subseteq files'[logOf[j].file]
              /\ n = "default" /\ logOf[j].format # "json" => logOf[j].file # i
        BY <1>1, <2>1, <2>3, <4>1 DEF CallLogged, ServerTypes
      <4>4. logOf[j].format = "text" => logOf[j].file = pin' \/ logOf[j].file \in gone
        BY <1>9, <2>1, <4>1, <4>3 DEF CallLogged
      <4>5. Erased(j, n, logOf) => Erased(j, n, logOf')
        BY <1>4, <2>1, <2>3, <3>4, <4>1 DEF Erased
      <4>6. n = "default" /\ logOf[j].format \in {"text", "both"} => logOf'[logOf[j].file].format \in {"text", "both"}
        BY <2>3, <4>1, <4>3 DEF CallLogged
      <4>7. logOf[j].format \in {"text", "both"} =>
              /\ files'[logOf[j].file] # {} \/ logOf[j].file \in gone
              /\ j \in files'[logOf[j].file] \/ logOf[j].file \in gone \/ Erased(j, n, logOf')
        BY <4>1, <4>3, <4>5 DEF CallLogged
      <4>8. /\ replies[j] = "none" => logOf[j].format = "none"
            /\ logOf[j].format = "none" => logOf[j].file = 0 /\ (n = "default" => files'[j] = {})
            /\ n = "default" /\ logOf[j].format = "json" => logOf[j].file = j /\ files'[j] \subseteq {j}
        BY <4>1, <4>2 DEF CallLogged
      <4> QED
        BY <3>4, <4>1, <4>3, <4>4, <4>6, <4>7, <4>8 DEF CallLogged
    <3>7. \A j \in 1..s.requests : CallLogged(j, n, replies, files', logOf', pin', gone)
      BY <3>5, <3>6
    <3>8. n' = n /\ n' = setting'.naming /\ replies' = replies /\ gone' = gone
      BY <1>2 DEF n
    <3> QED
      BY <1>2, <3>1, <3>2, <3>7, <3>8 DEF ServerLog, n
  <2> QED
    BY <1>6, <1>7, <2>4, <2>5 DEF ServerInv
<1> QED
  BY <1>8, <1>9 DEF Server!Configure, Server!logs

\* A call with the lock that goes on to its next stage, and leaves the logs alone.
LEMMA CallMoves ==
    ASSUME NEW s \in ServerSetups, ServerInv(s), NEW c \in s.callers, thread[c].stage \in Locked,
           NEW x \in Locked \ {"entered"},
           \/ thread' = [thread EXCEPT ![c].stage = x]
           \/ thread' = [thread EXCEPT ![c].stage = x, ![c].fine = FALSE],
           UNCHANGED <<setting, turn, stdout, pin, files, logOf, gone, replies>>,
           buffers' \in [1..s.requests -> SUBSET (1..s.requests)]
    PROVE  /\ ServerTypes(s)' /\ ServerCalls(s)' /\ ServerLog(s)'
           /\ \A d \in s.callers \ {c} : thread'[d] = thread[d]
           /\ thread'[c].stage = x /\ thread'[c].saved = thread[c].saved
           /\ thread'[c].id = thread[c].id /\ thread'[c].tool = thread[c].tool
<1>1. ServerTypes(s) /\ ServerCalls(s) /\ ServerLog(s)
  BY DEF ServerInv
<1>2. /\ thread' \in [s.callers -> ThreadType(s)] /\ \A d \in s.callers \ {c} : thread'[d] = thread[d]
      /\ thread'[c].stage = x /\ thread'[c].saved = thread[c].saved
      /\ thread'[c].id = thread[c].id /\ thread'[c].tool = thread[c].tool
  BY <1>1, ThreadMoves
<1>3. /\ ServerCalls(s)'
      /\ Server(s)!made' \in 0..s.requests /\ \A j \in 1..s.requests : replies'[j] # "none" <=> j <= Server(s)!made'
  BY <1>2, CallGoesOn
<1>4. ServerTypes(s)'
  BY <1>1, <1>2, <1>3 DEF ServerTypes
<1>5. ServerLog(s)'
  <2>1. x \notin {"waiting", "entered"}
    BY DEF Locked, Redirected
  <2> QED
    BY <1>1, <1>2, <2>1 DEF ServerLog
<1> QED
  BY <1>2, <1>3, <1>4, <1>5

\* The client of a call is built.
LEMMA CallOpens ==
    ASSUME NEW s \in ServerSetups, ServerInv(s), NEW c \in s.callers, Server(s)!Open(c)
    PROVE  ServerInv(s)'
<1>1. /\ UNCHANGED <<setting, turn, stdout, buffers, leaked, pin, files, logOf, gone, replies>>
      /\ thread[c].stage = "configured" /\ thread[c].stage \in Locked /\ ServerOutput(s)
  BY DEF Server!Open, Server!At, Server!logs, Locked, Redirected, ServerInv
<1>2. PICK x \in {"ran", "open"} : /\ \/ thread' = [thread EXCEPT ![c].stage = x]
                                      \/ thread' = [thread EXCEPT ![c].stage = x, ![c].fine = FALSE]
                                   /\ \/ clients' = clients
                                      \/ x = "open" /\ thread[c].tool.connects /\ clients' = clients \cup {thread[c].id}
  BY DEF Server!Open, Server!Fail, Server!Move
<1>3. x \in Locked \ {"entered"} /\ x \in Redirected
  BY DEF Locked, Redirected
<1>4. buffers' \in [1..s.requests -> SUBSET (1..s.requests)]
  BY <1>1 DEF ServerInv, ServerTypes
<1>5. /\ ServerTypes(s)' /\ ServerCalls(s)' /\ ServerLog(s)'
      /\ \A d \in s.callers \ {c} : thread'[d] = thread[d]
      /\ thread'[c].stage = x /\ thread'[c].saved = thread[c].saved
      /\ thread'[c].id = thread[c].id /\ thread'[c].tool = thread[c].tool
  BY <1>1, <1>2, <1>3, <1>4, CallMoves
<1>6. ServerOutput(s)'
  <2>1. turn = c
    BY <1>1, OneLocked
  <2>2. \A i \in clients' : turn = c /\ thread'[c].id = i /\ thread'[c].tool.connects /\ thread'[c].stage \in {"open", "ran", "left"}
    BY <1>1, <1>2, <1>5, <2>1 DEF ServerOutput
  <2>3. thread[c].stage \in Redirected
    BY <1>1 DEF Redirected
  <2> QED
    BY <1>1, <1>3, <1>5, <2>1, <2>2, <2>3 DEF ServerOutput
<1> QED
  BY <1>5, <1>6 DEF ServerInv

\* The handler prints, and returns or raises.
LEMMA CallIsHandled ==
    ASSUME NEW s \in ServerSetups, ServerInv(s), NEW c \in s.callers, Server(s)!Handle(c)
    PROVE  ServerInv(s)'
<1>1. /\ UNCHANGED <<setting, turn, stdout, clients, pin, files, logOf, gone, replies>>
      /\ thread[c].stage = "open" /\ thread[c].stage \in Locked /\ thread[c].stage \in Redirected
      /\ ServerOutput(s) /\ ServerTypes(s)
  BY DEF Server!Handle, Server!At, Server!logs, Locked, Redirected, ServerInv
<1>2. /\ \/ thread' = [thread EXCEPT ![c].stage = "ran"]
         \/ thread' = [thread EXCEPT ![c].stage = "ran", ![c].fine = FALSE]
      /\ IF stdout = 0 THEN leaked' = TRUE /\ UNCHANGED buffers
         ELSE buffers' = [buffers EXCEPT ![stdout] = @ \cup {thread[c].id}] /\ UNCHANGED leaked
  BY DEF Server!Handle, Server!Fail, Server!Move
<1>3. turn = c /\ stdout = thread[c].id /\ thread[c].id \in 1..s.requests
  BY <1>1, OneLocked DEF ServerOutput
<1>4. /\ UNCHANGED leaked /\ buffers' \in [1..s.requests -> SUBSET (1..s.requests)]
      /\ \A i \in 1..s.requests : buffers'[i] \subseteq {i}
  <2>1. stdout # 0
    BY <1>1, <1>3 DEF ServerTypes
  <2>2. buffers' = [buffers EXCEPT ![stdout] = @ \cup {stdout}] /\ UNCHANGED leaked
    BY <1>2, <1>3, <2>1
  <2> QED
    BY <1>1, <1>3, <2>2 DEF ServerTypes, ServerOutput
<1>5. "ran" \in Locked \ {"entered"} /\ "ran" \in Redirected
  BY DEF Locked, Redirected
<1>6. /\ ServerTypes(s)' /\ ServerCalls(s)' /\ ServerLog(s)'
      /\ \A d \in s.callers \ {c} : thread'[d] = thread[d]
      /\ thread'[c].stage = "ran" /\ thread'[c].saved = thread[c].saved
      /\ thread'[c].id = thread[c].id /\ thread'[c].tool = thread[c].tool
  BY <1>1, <1>2, <1>4, <1>5, CallMoves
<1>7. ServerOutput(s)'
  BY <1>1, <1>3, <1>4, <1>5, <1>6 DEF ServerOutput
<1> QED
  BY <1>6, <1>7 DEF ServerInv

\* The redirect is left.
LEMMA CallLeaves ==
    ASSUME NEW s \in ServerSetups, ServerInv(s), NEW c \in s.callers, Server(s)!Leave(c)
    PROVE  ServerInv(s)'
<1>1. /\ UNCHANGED <<setting, turn, buffers, leaked, clients, pin, files, logOf, gone, replies>>
      /\ thread[c].stage = "ran" /\ thread[c].stage \in Locked /\ thread[c].stage \in Redirected
      /\ stdout' = thread[c].saved
      /\ thread' = [thread EXCEPT ![c].stage = "left", ![c].saved = 0, ![c].pinned = 0]
      /\ ServerOutput(s) /\ ServerTypes(s) /\ ServerLog(s)
  BY DEF Server!Leave, Server!At, Server!logs, Locked, Redirected, ServerInv
<1>2. turn = c /\ stdout' = 0 /\ thread[c] \in ThreadType(s) /\ \A d \in s.callers : thread[d].stage \in Locked => d = c
  BY <1>1, OneLocked DEF ServerOutput
<1>3. "left" \in Locked \ Redirected /\ "left" \in Locked
  BY DEF Locked, Redirected
<1>4. /\ thread' \in [s.callers -> ThreadType(s)] /\ \A d \in s.callers \ {c} : thread'[d] = thread[d]
      /\ thread'[c].stage = "left" /\ thread'[c].id = thread[c].id /\ thread'[c].tool = thread[c].tool
  BY <1>1, <1>2, <1>3 DEF ServerTypes, ThreadType
<1>5. /\ ServerCalls(s)'
      /\ Server(s)!made' \in 0..s.requests /\ \A j \in 1..s.requests : replies'[j] # "none" <=> j <= Server(s)!made'
  BY <1>1, <1>3, <1>4, CallGoesOn
<1>6. ServerTypes(s)'
  BY <1>1, <1>2, <1>4, <1>5 DEF ServerTypes
<1>7. ServerOutput(s)'
  <2>1. \A d \in s.callers : thread'[d].stage \notin Redirected
    BY <1>2, <1>3, <1>4 DEF Locked
  <2> QED
    BY <1>1, <1>2, <1>4, <2>1 DEF ServerOutput
<1>8. ServerLog(s)'
  BY <1>1, <1>4 DEF ServerLog
<1> QED
  BY <1>5, <1>6, <1>7, <1>8 DEF ServerInv

\* The client is closed.
LEMMA CallClosesClient ==
    ASSUME NEW s \in ServerSetups, ServerInv(s), NEW c \in s.callers, Server(s)!CloseClient(c)
    PROVE  ServerInv(s)'
<1>1. /\ UNCHANGED <<setting, turn, stdout, buffers, leaked, pin, files, logOf, gone, replies>>
      /\ thread[c].stage = "left" /\ thread[c].stage \in Locked /\ thread[c].stage \notin Redirected
      /\ clients' = clients \ {thread[c].id} /\ thread' = [thread EXCEPT ![c].stage = "closed"]
      /\ ServerOutput(s) /\ buffers' \in [1..s.requests -> SUBSET (1..s.requests)]
  BY DEF Server!CloseClient, Server!At, Server!Move, Server!logs, Locked, Redirected, ServerInv, ServerTypes
<1>2. "closed" \in Locked \ {"entered"} /\ "closed" \notin Redirected
  BY DEF Locked, Redirected
<1>3. /\ ServerTypes(s)' /\ ServerCalls(s)' /\ ServerLog(s)'
      /\ \A d \in s.callers \ {c} : thread'[d] = thread[d]
      /\ thread'[c].stage = "closed" /\ thread'[c].saved = thread[c].saved
      /\ thread'[c].id = thread[c].id /\ thread'[c].tool = thread[c].tool
  BY <1>1, <1>2, CallMoves
<1>4. turn = c /\ clients' = {}
  BY <1>1, OneLocked DEF ServerOutput
<1>5. ServerOutput(s)'
  BY <1>1, <1>2, <1>3, <1>4 DEF ServerOutput
<1> QED
  BY <1>3, <1>5 DEF ServerInv

\* The log of a call is closed.
LEMMA CallClosesLog ==
    ASSUME NEW s \in ServerSetups, ServerInv(s), NEW c \in s.callers, Server(s)!CloseLog(c)
    PROVE  ServerInv(s)'
<1> DEFINE i == thread[c].id
<1>1. /\ UNCHANGED <<setting, turn, stdout, buffers, leaked, clients, pin, logOf, gone, replies>>
      /\ thread[c].stage = "closed" /\ thread[c].stage \in Locked /\ thread[c].stage \notin Redirected
      /\ \/ thread' = [thread EXCEPT ![c].stage = "over"]
         \/ thread' = [thread EXCEPT ![c].stage = "over", ![c].fine = FALSE]
      /\ \/ UNCHANGED files
         \/ /\ logOf[i].file # 0
            /\ files' = [files EXCEPT ![logOf[i].file] = IF Server(s)!Replaces(logOf[i].format) THEN {i} ELSE @ \cup {i}]
      /\ ServerOutput(s) /\ ServerTypes(s) /\ ServerLog(s)
  BY DEF Server!CloseLog, Server!At, Server!Move, Locked, Redirected, ServerInv
<1>2. /\ turn = c /\ i \in 1..s.requests
      /\ \A d \in s.callers : thread[d].stage # "idle" /\ d # c => thread[d].id # i
  BY <1>1, OneLocked
<1>3. "over" \in Locked /\ "over" \notin Redirected
  BY DEF Locked, Redirected
<1>4. /\ thread' \in [s.callers -> ThreadType(s)] /\ \A d \in s.callers \ {c} : thread'[d] = thread[d]
      /\ thread'[c].stage = "over" /\ thread'[c].id = thread[c].id /\ thread'[c].tool = thread[c].tool
  BY <1>1, <1>3, ThreadMoves
<1>5. /\ ServerCalls(s)'
      /\ Server(s)!made' \in 0..s.requests /\ \A j \in 1..s.requests : replies'[j] # "none" <=> j <= Server(s)!made'
  BY <1>1, <1>3, <1>4, CallGoesOn
<1>6. ServerOutput(s)'
  <2>1. clients = {}
    BY <1>1, <1>2 DEF ServerOutput
  <2> QED
    BY <1>1, <1>2, <1>3, <1>4, <2>1 DEF ServerOutput
<1> HIDE DEF i
<1> DEFINE n == setting.naming
           F == logOf[i].file
<1>0. DOMAIN logOf = 1..s.requests /\ \A j \in 1..s.requests : CallLogged(j, n, replies, files, logOf, pin, gone)
  BY <1>1 DEF ServerLog, ServerTypes
<1>7. \A j \in 1..s.requests :
        \/ files'[j] = files[j]
        \/ j = F /\ files'[j] = files[j] \cup {i} /\ logOf[i].format \in {"text", "both"}
        \/ j = F /\ files'[j] = {i} /\ (logOf[i].format = "json" \/ (n # "default" /\ logOf[i].format = "both"))
  <2>1. logOf[i].format = "none" => F = 0
    BY <1>0, <1>2 DEF CallLogged
  <2>2. logOf[i].format \in {"none", "text", "json", "both"} /\ files \in [1..s.requests -> SUBSET (1..s.requests)]
    BY <1>1, <1>2 DEF ServerTypes
  <2>3. \A format : Server(s)!Replaces(format) = (format = "json" \/ (format = "both" /\ n # "default"))
    BY DEF Server!Replaces
  <2> HIDE DEF F, n
  <2>4. \/ UNCHANGED files
        \/ F # 0 /\ files' = [files EXCEPT ![F] = IF Server(s)!Replaces(logOf[i].format) THEN {i} ELSE @ \cup {i}]
    BY <1>1 DEF F
  <2> QED
    BY <2>1, <2>2, <2>3, <2>4
<1>8. ServerTypes(s)'
  <2>1. files' \in [1..s.requests -> SUBSET (1..s.requests)]
    BY <1>1, <1>2 DEF ServerTypes
  <2> QED
    BY <1>1, <1>4, <1>5, <2>1 DEF ServerTypes
<1>9. ServerLog(s)'
  <2>1. \A d \in s.callers : /\ thread'[d].stage = "entered" => thread'[d].pinned = pin'
                             /\ thread'[d].stage \in {"waiting", "entered"} => logOf'[thread'[d].id].format = "none"
    BY <1>1, <1>4 DEF ServerLog
  <2>2. n = setting'.naming /\ (pin' # 0 => pin' \in 1..s.requests /\ (n = "default" => logOf'[pin'].format \in {"text", "both"}))
    BY <1>1 DEF ServerLog
  <2> HIDE DEF n
  <2>3. ASSUME NEW j \in 1..s.requests
        PROVE  CallLogged(j, n, replies, files', logOf, pin, gone)
    <3>1. CallLogged(j, n, replies, files, logOf, pin, gone) /\ CallLogged(i, n, replies, files, logOf, pin, gone)
      BY <1>0, <1>2
    <3>2. n = "default" /\ logOf[i].format \in {"text", "both"} => logOf[F].format \in {"text", "both"}
      BY <3>1 DEF CallLogged
    <3>3. n = "default" /\ logOf[i].format = "json" => F = i
      BY <3>1 DEF CallLogged
    <3> HIDE DEF F
    <3>4. n = "default" /\ logOf[j].format \in {"none", "json"} /\ j # i => files'[j] = files[j]
      BY <1>7, <3>2, <3>3
    <3>5. n = "default" /\ logOf[j].format = "none" => files'[j] = files[j]
      BY <1>7, <3>2, <3>3
    <3>6. n = "default" /\ logOf[j].format = "json" => files'[j] \subseteq {j}
      BY <1>7, <3>1, <3>3, <3>4 DEF CallLogged
    <3>7. logOf[j].format \in {"text", "both"} =>
            files'[logOf[j].file] # {} \/ logOf[j].file \in gone
      BY <1>0, <1>7, <3>1 DEF CallLogged
    <3>8. logOf[j].format \in {"text", "both"} =>
            j \in files'[logOf[j].file] \/ logOf[j].file \in gone \/ Erased(j, n, logOf)
      <4>1. CASE logOf[j].format \in {"text", "both"} /\ j # i /\ logOf[j].file = F /\ n # "default"
                 /\ logOf[i].format \in {"json", "both"}
        BY <1>0, <1>2, <4>1 DEF Erased, F
      <4>2. CASE logOf[j].format \in {"text", "both"} /\ j # i /\ logOf[j].file = F /\ n = "default"
        <5>1. logOf[i].format # "json"
          BY <3>1, <3>3, <4>2 DEF CallLogged
        <5>2. F \in 1..s.requests
          BY <1>0, <3>1, <4>2 DEF CallLogged
        <5> QED
          BY <1>7, <3>1, <4>2, <5>1, <5>2 DEF CallLogged
      <4>3. CASE logOf[j].format \in {"text", "both"} /\ (j = i \/ logOf[j].file # F \/ logOf[i].format \notin {"json", "both"})
        <5>1. logOf[j].file \in 1..s.requests
          BY <1>0, <3>1, <4>3 DEF CallLogged
        <5> QED
          BY <1>7, <3>1, <4>3, <5>1 DEF CallLogged
      <4> QED
        BY <4>1, <4>2, <4>3
    <3> QED
      BY <3>1, <3>5, <3>6, <3>7, <3>8 DEF CallLogged
  <2>4. replies' = replies /\ logOf' = logOf /\ pin' = pin /\ gone' = gone
    BY <1>1
  <2> QED
    BY <2>1, <2>2, <2>3, <2>4 DEF ServerLog
<1> QED
  BY <1>5, <1>6, <1>8, <1>9 DEF ServerInv

\* The lock is released and the call answered.
LEMMA CallIsAnswered ==
    ASSUME NEW s \in ServerSetups, ServerInv(s), NEW c \in s.callers, Server(s)!Answer(c)
    PROVE  ServerInv(s)'
<1>1. /\ UNCHANGED <<setting, stdout, buffers, leaked, clients, pin, files, logOf, gone>>
      /\ thread[c].stage = "over" /\ thread[c].stage \in Locked /\ thread[c].stage \notin Redirected
      /\ turn' = 0 /\ thread' = [thread EXCEPT ![c] = Server(s)!Call("idle", 0, 0)]
      /\ replies' = [replies EXCEPT ![thread[c].id] = IF thread[c].fine THEN "payload" ELSE "error"]
      /\ ServerOutput(s) /\ ServerTypes(s) /\ ServerLog(s) /\ ServerCalls(s)
  BY DEF Server!Answer, Server!At, Server!logs, Server!Idle, Locked, Redirected, ServerInv
<1>2. /\ turn = c /\ thread[c].id \in 1..s.requests
      /\ \A d \in s.callers : thread[d].stage \in Locked => d = c
  BY <1>1, OneLocked
<1>3. Server(s)!Call("idle", 0, 0) = [stage |-> "idle", id |-> 0, tool |-> 0, saved |-> 0, pinned |-> 0, fine |-> TRUE]
  BY DEF Server!Call
<1>4. /\ thread' \in [s.callers -> ThreadType(s)] /\ \A d \in s.callers \ {c} : thread'[d] = thread[d]
      /\ thread'[c].stage = "idle"
  <2>1. [stage |-> "idle", id |-> 0, tool |-> 0, saved |-> 0, pinned |-> 0, fine |-> TRUE] \in ThreadType(s)
    BY DEF ThreadType
  <2>2. thread \in [s.callers -> ThreadType(s)]
    BY <1>1 DEF ServerTypes
  <2>3. thread' = [thread EXCEPT ![c] = [stage |-> "idle", id |-> 0, tool |-> 0, saved |-> 0, pinned |-> 0, fine |-> TRUE]]
    BY <1>1, <1>3
  <2> QED
    BY <2>1, <2>2, <2>3
<1>5. "idle" \notin Locked /\ "idle" \notin Redirected
  BY DEF Locked, Redirected
<1>6. replies[thread[c].id] # "none"
  <2>1. thread[c].id \in 1..Server(s)!made
    BY <1>1, <1>5 DEF ServerCalls
  <2> QED
    BY <1>1, <1>2, <2>1 DEF ServerTypes
<1>7. DOMAIN replies' = 1..s.requests /\ \A i \in 1..s.requests : replies'[i] # "none" <=> replies[i] # "none"
  BY <1>1, <1>2, <1>6 DEF ServerTypes
<1>8. /\ Server(s)!made' = Server(s)!made
      /\ Server(s)!made' \in 0..s.requests /\ \A i \in 1..s.requests : replies'[i] # "none" <=> i <= Server(s)!made'
  BY <1>1, <1>7, MadeStays
<1>9. ServerTypes(s)'
  BY <1>1, <1>4, <1>7, <1>8 DEF ServerTypes
<1>10. ServerCalls(s)'
  <2>1. Server(s)!Offered' = Server(s)!Offered
    BY <1>1 DEF Server!Offered
  <2>2. \A d \in s.callers : (turn' = d) = (thread'[d].stage \in Locked)
    BY <1>1, <1>2, <1>4, <1>5 DEF ServerTypes
  <2>3. \A d \in s.callers : thread'[d].stage # "idle" => thread'[d] = thread[d]
    BY <1>4
  <2> QED
    BY <1>1, <1>8, <2>1, <2>2, <2>3 DEF ServerCalls
<1>11. ServerOutput(s)'
  <2>1. clients = {}
    BY <1>1, <1>2 DEF ServerOutput
  <2>2. stdout = 0
    BY <1>1 DEF ServerOutput
  <2>3. \A d \in s.callers : thread'[d].stage \notin Locked
    BY <1>2, <1>4, <1>5
  <2>4. \A d \in s.callers : thread'[d].stage \notin Redirected
    BY <2>3 DEF Locked
  <2> QED
    BY <1>1, <2>1, <2>2, <2>3, <2>4 DEF ServerOutput
<1>12. ServerLog(s)'
  <2>1. \A d \in s.callers : /\ thread'[d].stage = "entered" => thread'[d].pinned = pin'
                             /\ thread'[d].stage \in {"waiting", "entered"} => logOf'[thread'[d].id].format = "none"
    BY <1>1, <1>4 DEF ServerLog
  <2>2. \A i \in 1..s.requests : CallLogged(i, setting.naming, replies', files, logOf, pin, gone)
    BY <1>1, <1>7 DEF ServerLog, CallLogged
  <2> QED
    BY <1>1, <2>1, <2>2 DEF ServerLog
<1> QED
  BY <1>9, <1>10, <1>11, <1>12 DEF ServerInv

\* Somebody deletes a log file.
LEMMA LogIsDeleted ==
    ASSUME NEW s \in ServerSetups, ServerInv(s), NEW i \in 1..s.requests, Server(s)!Delete(i)
    PROVE  ServerInv(s)'
<1>1. /\ UNCHANGED <<setting, thread, turn, stdout, buffers, leaked, clients, pin, logOf, replies>>
      /\ files' = [files EXCEPT ![i] = {}] /\ gone' = gone \cup {i}
      /\ ServerOutput(s) /\ ServerTypes(s) /\ ServerLog(s) /\ ServerCalls(s)
  BY DEF Server!Delete, ServerInv
<1>2. /\ Server(s)!made' = Server(s)!made
      /\ Server(s)!made' \in 0..s.requests /\ \A j \in 1..s.requests : replies'[j] # "none" <=> j <= Server(s)!made'
  BY <1>1, MadeStays
<1>3. ServerTypes(s)'
  BY <1>1, <1>2 DEF ServerTypes
<1>4. ServerCalls(s)'
  <2>1. Server(s)!Offered' = Server(s)!Offered
    BY <1>1 DEF Server!Offered
  <2> QED
    BY <1>1, <1>2, <2>1 DEF ServerCalls
<1>5. ServerOutput(s)'
  BY <1>1 DEF ServerOutput
<1>6. ServerLog(s)'
  <2>1. \A j \in 1..s.requests : files'[j] = IF j = i THEN {} ELSE files[j]
    BY <1>1 DEF ServerTypes
  <2>2. \A j \in 1..s.requests : CallLogged(j, setting.naming, replies, files, logOf, pin, gone)
    BY <1>1 DEF ServerLog
  <2>3. DOMAIN logOf = 1..s.requests
    BY <1>1 DEF ServerTypes
  <2>4. \A j \in 1..s.requests : CallLogged(j, setting.naming, replies, files', logOf, pin, gone \cup {i})
    BY <2>1, <2>2, <2>3 DEF CallLogged
  <2> QED
    BY <1>1, <2>4 DEF ServerLog
<1> QED
  BY <1>3, <1>4, <1>5, <1>6 DEF ServerInv

\* Every step of the server.
LEMMA ServerSteps ==
    ASSUME NEW s \in ServerSetups, Server(s)!McpServerAssumption, ServerInv(s), Server(s)!Next
    PROVE  ServerInv(s)'
BY CallIsAsked, CallAcquires, CallConfigures, CallOpens, CallIsHandled, CallLeaves, CallClosesClient, CallClosesLog,
   CallIsAnswered, LogIsDeleted
DEF Server!Next, Server!Step, Server!Requests

\* The invariant says what the properties of the server do.
LEMMA ServerGives ==
    ASSUME NEW s \in ServerSetups, ServerInv(s)
    PROVE  Server(s)!OwnOutput /\ Server(s)!OneClient /\ Server(s)!SessionLog
<1>1. ServerTypes(s) /\ ServerCalls(s) /\ ServerOutput(s) /\ ServerLog(s)
  BY DEF ServerInv
<1>2. Server(s)!OwnOutput
  BY <1>1 DEF ServerOutput, Server!OwnOutput, Server!Requests
<1>3. Server(s)!OneClient
  <2>1. Server(s)!Cardinality(clients) <= 1
    <3>1. CASE clients = {}
      BY <3>1, FS_EmptySet DEF Server!Cardinality, Cardinality
    <3>2. CASE clients # {}
      <4>1. PICK i \in clients : TRUE
        BY <3>2
      <4>2. clients = {i}
        BY <1>1, <4>1 DEF ServerOutput
      <4>3. Cardinality(clients) = 1
        BY <4>2, FS_Singleton
      <4>4. Server(s)!Cardinality(clients) = Cardinality(clients)
        BY DEF Server!Cardinality, Cardinality
      <4> QED
        BY <4>3, <4>4
    <3> QED
      BY <3>1, <3>2
  <2>2. setting.offline => clients = {}
    BY <1>1 DEF ServerOutput, ServerCalls
  <2>3. clients \subseteq {thread[c].id : c \in s.callers}
    BY <1>1 DEF ServerOutput
  <2>4. \A c \in s.callers : thread[c].stage # "idle" /\ (setting.readOnly \/ setting.mode = "review") => ~thread[c].tool.writes
    BY <1>1 DEF ServerCalls, Server!Offered
  <2> QED
    BY <2>1, <2>2, <2>3, <2>4 DEF Server!OneClient, Server!At
<1>4. Server(s)!SessionLog
  <2>1. DOMAIN logOf = 1..s.requests /\ \A i \in 1..s.requests : CallLogged(i, setting.naming, replies, files, logOf, pin, gone)
    BY <1>1 DEF ServerLog, ServerTypes
  <2>2. \A i \in 1..s.requests :
          /\ setting.naming = "default" /\ logOf[i].format = "json" => files[logOf[i].file] \subseteq {i}
          /\ logOf[i].format = "text" => logOf[i].file = pin \/ logOf[i].file \in gone
    BY <2>1 DEF CallLogged
  <2>3. ASSUME NEW i \in 1..s.requests, logOf[i].format \in {"text", "both"}
        PROVE  \/ i \in files[logOf[i].file] \/ logOf[i].file \in gone
               \/ setting.naming # "default" /\ \E j \in 1..s.requests \ {i} :
                    logOf[j].file = logOf[i].file /\ Server(s)!Replaces(logOf[j].format)
    BY <2>1, <2>3 DEF CallLogged, Erased, Server!Replaces
  <2> QED
    BY <2>2, <2>3 DEF Server!SessionLog, Server!Requests
<1> QED
  BY <1>2, <1>3, <1>4

\* While the server runs, its invariant holds.
ServerHolds == part = "server" => setup \in ServerSetups /\ \A s \in ServerSetups : setup = s => ServerInv(s)

\* A step of any part keeps it.
LEMMA ServerStays ==
    ASSUME ApiAssumption, ServerHolds, [Next]_vars
    PROVE  ServerHolds'
<1>1. CASE part # "server"
  <2>1. part' = part
    BY DEF Next, CallsRun, AsyncRuns, BusRuns, LineRuns, ServerRuns, vars
  <2> QED
    BY <1>1, <2>1 DEF ServerHolds
<1>2. CASE part = "server" /\ Next
  <2>1. PICK s \in ServerSetups : setup = s /\ Server(s)!Next
    BY <1>2 DEF Next, CallsRun, AsyncRuns, BusRuns, LineRuns
  <2>2. ServerInv(s)'
    BY <1>2, <2>1, ServerSteps DEF ServerHolds, ApiAssumption
  <2>3. setup' = s
    BY <1>2, <2>1 DEF Next, CallsRun, AsyncRuns, BusRuns, LineRuns, ServerRuns
  <2> QED
    BY <2>1, <2>2, <2>3 DEF ServerHolds
<1>3. CASE part = "server" /\ UNCHANGED vars
  <2>1. UNCHANGED <<part, setup>> /\ UNCHANGED serverVars
    BY <1>3 DEF vars
  <2> SUFFICES ASSUME NEW s \in ServerSetups, setup = s
               PROVE  ServerInv(s)'
    BY <1>3, <2>1 DEF ServerHolds
  <2>2. ServerInv(s)
    BY <1>3 DEF ServerHolds
  <2>3. UNCHANGED <<setting, thread, turn, stdout, buffers, leaked, clients, pin, files, logOf, gone, replies>>
    BY <2>1 DEF serverVars
  <2>4. /\ Server(s)!made' = Server(s)!made
        /\ Server(s)!made' \in 0..s.requests /\ \A j \in 1..s.requests : replies'[j] # "none" <=> j <= Server(s)!made'
    BY <2>2, <2>3, MadeStays DEF ServerInv
  <2>5. ServerTypes(s)'
    BY <2>2, <2>3, <2>4 DEF ServerInv, ServerTypes
  <2>6. ServerCalls(s)'
    BY <2>2, <2>3, <2>4 DEF ServerInv, ServerCalls, Server!Offered
  <2>7. ServerOutput(s)'
    BY <2>2, <2>3 DEF ServerInv, ServerOutput
  <2>8. ServerLog(s)'
    BY <2>2, <2>3 DEF ServerInv, ServerLog
  <2> QED
    BY <2>5, <2>6, <2>7, <2>8 DEF ServerInv
<1> QED
  BY <1>1, <1>2, <1>3

-----------------------------------------------------------------------------
(* The event emitter                                                       *)

\* The registrations in a list, those from a place of it on, the ids of waiting events, and
\* the registrations that heard of an event.
RegsOf(l) == {l[j].reg : j \in DOMAIN l}
AheadOf(l, n) == {l[j].reg : j \in {j \in DOMAIN l : n <= j}}
IdsOf(r) == {r[j].id : j \in DOMAIN r}
HeardOf(d, e) == {d[j].reg : j \in {j \in DOMAIN d : d[j].event = e}}

\* What is in the lists and on the stack.
Registration == [cb: {"f", "g"}, reg: Nat]
Waiting == [id: Nat, type: {"a", "b"}]
Walk == [at: {"exact", "wild"}, event: Nat, type: {"a", "b"}, list: Nat, index: Nat]
Calling == [at: {"callback"}, event: Nat, back: Walk]
Flushing == [at: {"flush"}, rest: Seq(Waiting)]

\* The dispatches of a stack, whose listener runs or not, and what its flushes have left.
WalkOf(f) == IF f.at = "callback" THEN f.back ELSE f
InWalks(d) == {i \in DOMAIN d : d[i].at # "flush"}
InFlushes(d) == {i \in DOMAIN d : d[i].at = "flush"}
WalksOf(d) == {WalkOf(d[i]) : i \in InWalks(d)}
RestsOf(d) == {d[i].rest : i \in InFlushes(d)}

\* No event is dispatched twice, or left to two flushes.
StackOk(d) ==
    /\ d \in Seq(Walk \cup Calling \cup Flushing)
    /\ \A i \in DOMAIN d : d[i].at = "callback" => d[i].event = d[i].back.event
    /\ \A i, j \in InWalks(d) : WalkOf(d[i]).event = WalkOf(d[j]).event => i = j
    /\ \A i, j \in InFlushes(d) : i # j => IdsOf(d[i].rest) \cap IdsOf(d[j].rest) = {}

Walks == WalksOf(dispatches)
Rests == RestsOf(dispatches)

BusTypes ==
    /\ lists \in Seq(Seq(Registration)) /\ exact \in [{"a", "b"} -> Nat] /\ wild \in DOMAIN lists
    /\ \A t \in {"a", "b"} : exact[t] \in 0..Len(lists)
    /\ mode \in BOOLEAN /\ stopped \in BOOLEAN /\ intent \in BOOLEAN /\ batched \in Seq(Waiting)
    /\ next \in Nat /\ calls \in Nat /\ emits \in Nat
    /\ history \in Seq(Nat) /\ Len(history) = emits
    /\ fate \in Seq({"batched", "dispatched", "returned", "dropped"}) /\ Len(fate) = emits
    /\ present \in Seq(SUBSET Nat) /\ Len(present) = emits
    /\ deliveries \in [deliveries: Seq([event: Nat, reg: Nat]), order: Seq(Nat)]
    /\ StackOk(dispatches)

\* Registrations are in one list once, and not both in an exact and in the wildcard list.
BusRegistry ==
    /\ \A l \in DOMAIN lists : \A i, j \in DOMAIN lists[l] : lists[l][i].reg = lists[l][j].reg => i = j
    /\ \A l \in DOMAIN lists : \A r \in RegsOf(lists[l]) : r < next
    /\ \A t \in {"a", "b"} : exact[t] # 0 =>
         exact[t] # wild /\ RegsOf(lists[exact[t]]) \cap RegsOf(lists[wild]) = {}

\* An event that waits waits once.
BusWaiting ==
    /\ \A i, j \in DOMAIN batched : batched[i].id = batched[j].id => i = j
    /\ \A q \in Rests : \A i, j \in DOMAIN q : q[i].id = q[j].id => i = j
    /\ \A q \in Rests : IdsOf(q) \cap IdsOf(batched) = {}
    /\ \A e \in IdsOf(batched) : e \in 1..emits /\ fate[e] = "batched"
    /\ \A q \in Rests : \A e \in IdsOf(q) : e \in 1..emits /\ fate[e] = "batched"
    /\ \A e \in 1..emits : fate[e] = "batched" => e \in IdsOf(batched) \/ \E q \in Rests : e \in IdsOf(q)

\* Batch mode is what was last asked for, or will be when the flush is over.
BusIntent ==
    /\ Rests = {} => mode = intent
    /\ Rests # {} => intent = (mode \/ ~stopped)

\* What a dispatch still has to call has not heard of its event.
BusReached ==
    \A w \in Walks :
      /\ w.event \in 1..emits /\ fate[w.event] = "dispatched" /\ 1 <= w.index /\ w.list \in 0..Len(lists)
      /\ w.list # 0 => HeardOf(deliveries.deliveries, w.event) \cap AheadOf(lists[w.list], w.index) = {}

\* As long as it calls the exact listeners, no wildcard listener has.
BusApart ==
    \A w \in Walks : w.at = "exact" =>
      /\ HeardOf(deliveries.deliveries, w.event) \cap RegsOf(lists[wild]) = {}
      /\ w.list # 0 => w.list # wild /\ RegsOf(lists[w.list]) \cap RegsOf(lists[wild]) = {}

\* Then those of them that have not are still to come.
BusAhead ==
    \A w \in Walks : w.at = "wild" =>
      /\ w.list # 0 /\ \A t \in {"a", "b"} : exact[t] # w.list
      /\ present[w.event] \cap RegsOf(lists[wild]) \subseteq
           HeardOf(deliveries.deliveries, w.event) \cup AheadOf(lists[w.list], w.index)

BusWalks == BusReached /\ BusApart /\ BusAhead

\* Nobody has heard of an event twice, and the wildcard listeners have heard of those whose
\* dispatch is over.
BusHeard ==
    /\ \A e \in 1..emits : \A r \in present[e] : r < next
    /\ \A i, j \in DOMAIN deliveries.deliveries : deliveries.deliveries[i] = deliveries.deliveries[j] => i = j
    /\ \A i \in DOMAIN deliveries.deliveries :
         LET d == deliveries.deliveries[i] IN d.event \in 1..emits /\ fate[d.event] = "dispatched" /\ d.reg < next
    /\ \A e \in 1..emits : fate[e] = "dispatched" /\ (\A w \in Walks : w.event # e) =>
         present[e] \cap RegsOf(lists[wild]) \subseteq HeardOf(deliveries.deliveries, e)

BusInv == BusTypes /\ BusRegistry /\ BusWaiting /\ BusIntent /\ BusWalks /\ BusHeard

\* Some naturals have a least one.
LEMMA SomeLeast ==
    ASSUME NEW S \in SUBSET Nat, S # {}
    PROVE  \E v \in S : \A n \in S : v <= n
<1>1. PICK v \in S : \A w \in S : <<w, v>> \notin OpToRel(<, Nat)
  BY NatLessThanWellFounded, WFMin
<1>2. \A w \in S : v <= w
  <2> SUFFICES ASSUME NEW w \in S, ~(v <= w) PROVE FALSE
    OBVIOUS
  <2>1. w < v /\ w \in Nat /\ v \in Nat
    OBVIOUS
  <2>2. <<w, v>> \in OpToRel(<, Nat)
    BY <2>1 DEF OpToRel
  <2> QED
    BY <1>1, <2>2
<1> QED
  BY <1>2

\* A stack with a frame more.
LEMMA StackPush ==
    ASSUME NEW S, NEW s \in Seq(S), NEW f \in S
    PROVE  LET t == <<f>> \o s
           IN  t \in Seq(S) /\ Len(t) = Len(s) + 1 /\ t[1] = f /\ \A i \in 1..Len(s) : t[i + 1] = s[i]
<1>1. <<f>> \in Seq(S) /\ Len(<<f>>) = 1 /\ <<f>>[1] = f
  OBVIOUS
<1> QED
  BY <1>1, ConcatProperties

\* A stack with another frame on top.
LEMMA StackSwap ==
    ASSUME NEW S, NEW s \in Seq(S), s # << >>, NEW f \in S
    PROVE  LET t == <<f>> \o Tail(s)
           IN  t \in Seq(S) /\ Len(t) = Len(s) /\ t[1] = f /\ \A i \in 2..Len(s) : t[i] = s[i]
<1>1. /\ Tail(s) \in Seq(S) /\ Len(Tail(s)) = Len(s) - 1 /\ \A i \in 1..Len(Tail(s)) : Tail(s)[i] = s[i + 1]
      /\ Len(s) \in Nat /\ Len(s) >= 1
  BY HeadTailProperties, LenProperties, EmptySeq
<1>2. LET t == <<f>> \o Tail(s)
      IN  t \in Seq(S) /\ Len(t) = Len(Tail(s)) + 1 /\ t[1] = f /\ \A i \in 1..Len(Tail(s)) : t[i + 1] = Tail(s)[i]
  BY <1>1, StackPush
<1> DEFINE t == <<f>> \o Tail(s)
<1>3. \A i \in 2..Len(s) : t[i] = s[i]
  <2> SUFFICES ASSUME NEW i \in 2..Len(s) PROVE t[i] = s[i]
    OBVIOUS
  <2>1. i - 1 \in 1..Len(Tail(s)) /\ (i - 1) + 1 = i
    BY <1>1
  <2> QED
    BY <1>1, <1>2, <2>1
<1> QED
  BY <1>1, <1>2, <1>3

\* A stack with a frame less.
LEMMA StackPop ==
    ASSUME NEW S, NEW s \in Seq(S), s # << >>
    PROVE  LET t == Tail(s)
           IN  t \in Seq(S) /\ Len(t) = Len(s) - 1 /\ \A i \in 1..Len(t) : t[i] = s[i + 1]
BY HeadTailProperties

\* The sequence k holds what the list l does outside the places I, in order.
IsWithout(l, I, k) ==
    \E place \in [DOMAIN k -> DOMAIN l \ I] :
      /\ \A j \in DOMAIN k : k[j] = l[place[j]] /\ j <= place[j]
      /\ \A i, j \in DOMAIN k : place[i] = place[j] => i = j
      /\ \A i \in DOMAIN l \ I : \E j \in DOMAIN k : place[j] = i

\* What a list without some of its places holds: the rest, in order.
LEMMA RemainsInOrder ==
    ASSUME NEW s \in BusSetups, NEW R, NEW l \in Seq(R), NEW I \in SUBSET (DOMAIN l), NEW k \in Bus(s)!Without(l, I)
    PROVE  /\ k \in Seq(R)
           /\ IsWithout(l, I, k)
<1>0. PICK place \in UNION {[1..n -> DOMAIN l \ I] : n \in 0..Len(l)} :
        /\ \A j, m \in DOMAIN place : j < m => place[j] < place[m]
        /\ \A i \in DOMAIN l \ I : \E j \in DOMAIN place : place[j] = i
        /\ k = [j \in DOMAIN place |-> l[place[j]]]
  BY DEF Bus!Without
<1>1. PICK n \in 0..Len(l) : place \in [1..n -> DOMAIN l \ I]
  BY <1>0
<1>2. /\ \A j, m \in 1..n : j < m => place[j] < place[m]
      /\ \A i \in DOMAIN l \ I : \E j \in 1..n : place[j] = i
      /\ k = [j \in 1..n |-> l[place[j]]]
  BY <1>0, <1>1
<1>3. DOMAIN l = 1..Len(l) /\ Len(l) \in Nat /\ n \in Nat /\ DOMAIN place = 1..n
      /\ \A j \in 1..n : place[j] \in DOMAIN l
  BY <1>1
<1>4. k \in [1..n -> R] /\ DOMAIN k = 1..n /\ \A j \in 1..n : k[j] = l[place[j]]
  <2>1. \A j \in 1..n : l[place[j]] \in R
    BY <1>3, ElementOfSeq
  <2> QED
    BY <1>2, <2>1
<1>5. k \in Seq(R)
  BY <1>3, <1>4, SeqDef
<1>6. \A j \in 1..n : j <= place[j]
  <2> DEFINE B == {j \in 1..n : ~(j <= place[j])}
  <2> SUFFICES ASSUME B # {} PROVE FALSE
    OBVIOUS
  <2>1. B \in SUBSET Nat
    BY <1>3
  <2>2. PICK v \in B : \A j \in B : v <= j
    BY <2>1, SomeLeast
  <2>3. v \in 1..n /\ ~(v <= place[v]) /\ place[v] \in 1..Len(l)
    BY <1>2, <1>3, <2>2
  <2>4. CASE v = 1
    BY <1>3, <2>3, <2>4
  <2>5. CASE v # 1
    <3>1. v - 1 \in 1..n /\ v - 1 < v /\ v - 1 \notin B
      BY <1>3, <2>2, <2>3, <2>5
    <3>2. v - 1 <= place[v - 1] /\ place[v - 1] < place[v] /\ place[v - 1] \in 1..Len(l)
      BY <1>2, <1>3, <2>3, <3>1
    <3> QED
      BY <1>3, <2>3, <3>1, <3>2
  <2> QED
    BY <2>4, <2>5
<1>7. \A i, j \in DOMAIN k : place[i] = place[j] => i = j
  <2> SUFFICES ASSUME NEW i \in 1..n, NEW j \in 1..n, i # j PROVE place[i] # place[j]
    BY <1>4
  <2>1. i < j \/ j < i
    BY <1>3
  <2>2. place[i] < place[j] \/ place[j] < place[i]
    BY <1>2, <2>1
  <2>3. place[i] \in Nat /\ place[j] \in Nat
    BY <1>3
  <2> QED
    BY <2>2, <2>3
<1>8. place \in [DOMAIN k -> DOMAIN l \ I]
  BY <1>1, <1>4
<1>9. \A j \in DOMAIN k : k[j] = l[place[j]] /\ j <= place[j]
  BY <1>4, <1>6
<1>10. \A i \in DOMAIN l \ I : \E j \in DOMAIN k : place[j] = i
  BY <1>2, <1>4
<1>11. IsWithout(l, I, k)
  BY <1>7, <1>8, <1>9, <1>10 DEF IsWithout
<1> QED
  BY <1>5, <1>11

\* The list k holds registrations of the list l, once if that does, and from any place on only
\* what is there.
LessThan(l, k) ==
    /\ RegsOf(k) \subseteq RegsOf(l)
    /\ (\A i, j \in DOMAIN l : l[i].reg = l[j].reg => i = j) =>
         \A i, j \in DOMAIN k : k[i].reg = k[j].reg => i = j
    /\ \A n \in Nat : AheadOf(k, n) \subseteq AheadOf(l, n)

\* So a list without some places holds less than the list.
LEMMA RemainsOfList ==
    ASSUME NEW s \in BusSetups, NEW l \in Seq(Registration), NEW I \in SUBSET (DOMAIN l), NEW k \in Bus(s)!Without(l, I)
    PROVE  k \in Seq(Registration) /\ LessThan(l, k)
<1>1. k \in Seq(Registration)
  BY RemainsInOrder
<1>2. PICK place \in [DOMAIN k -> DOMAIN l \ I] :
        /\ \A j \in DOMAIN k : k[j] = l[place[j]] /\ j <= place[j]
        /\ \A i, j \in DOMAIN k : place[i] = place[j] => i = j
        /\ \A i \in DOMAIN l \ I : \E j \in DOMAIN k : place[j] = i
  BY RemainsInOrder DEF IsWithout
<1>3. RegsOf(k) \subseteq RegsOf(l)
  BY <1>2 DEF RegsOf
<1>4. ASSUME \A i, j \in DOMAIN l : l[i].reg = l[j].reg => i = j
      PROVE  \A i, j \in DOMAIN k : k[i].reg = k[j].reg => i = j
  BY <1>2, <1>4
<1>5. ASSUME NEW n \in Nat
      PROVE  AheadOf(k, n) \subseteq AheadOf(l, n)
  <2> SUFFICES ASSUME NEW j \in DOMAIN k, n <= j
               PROVE  \E i \in DOMAIN l : n <= i /\ k[j].reg = l[i].reg
    BY DEF AheadOf
  <2>1. j \in Nat /\ place[j] \in Nat /\ place[j] \in DOMAIN l
    BY <1>1, <1>2
  <2>2. n <= place[j] /\ k[j].reg = l[place[j]].reg
    BY <1>2, <2>1
  <2> QED
    BY <2>1, <2>2
<1> QED
  BY <1>1, <1>3, <1>4, <1>5 DEF LessThan

\* The invariant holds at the start.
LEMMA BusStarts ==
    ASSUME NEW s \in BusSetups, Bus(s)!Init
    PROVE  BusInv
<1> DEFINE list(i) == IF i = 3 THEN <<[cb |-> "f", reg |-> 5], [cb |-> "g", reg |-> 6]>>
                      ELSE <<[cb |-> "f", reg |-> 2 * i - 1], [cb |-> "g", reg |-> 2 * i]>>
<1>1. /\ lists = [i \in 1..3 |-> list(i)] /\ exact = [t \in {"a", "b"} |-> IF t = "a" THEN 1 ELSE 2] /\ wild = 3
      /\ mode = FALSE /\ stopped = FALSE /\ batched = << >> /\ history = << >> /\ dispatches = << >>
      /\ next = 7 /\ calls = 0 /\ emits = 0
      /\ deliveries = [deliveries |-> << >>, order |-> << >>] /\ fate = << >> /\ present = << >> /\ intent = FALSE
  BY DEF Bus!Init, Bus!Types
<1>2. /\ list(1) = <<[cb |-> "f", reg |-> 1], [cb |-> "g", reg |-> 2]>>
      /\ list(2) = <<[cb |-> "f", reg |-> 3], [cb |-> "g", reg |-> 4]>>
      /\ list(3) = <<[cb |-> "f", reg |-> 5], [cb |-> "g", reg |-> 6]>>
  OBVIOUS
<1>3. \A i \in 1..3 : list(i) \in Seq(Registration)
  <2>1. \A n \in Nat, m \in Nat : <<[cb |-> "f", reg |-> n], [cb |-> "g", reg |-> m]>> \in Seq(Registration)
    BY DEF Registration
  <2>2. \A i \in 1..3 : i = 1 \/ i = 2 \/ i = 3
    OBVIOUS
  <2> HIDE DEF list
  <2> QED
    BY <1>2, <2>1, <2>2
<1>4. lists \in Seq(Seq(Registration)) /\ DOMAIN lists = 1..3 /\ Len(lists) = 3
      /\ lists[1] = <<[cb |-> "f", reg |-> 1], [cb |-> "g", reg |-> 2]>>
      /\ lists[2] = <<[cb |-> "f", reg |-> 3], [cb |-> "g", reg |-> 4]>>
      /\ lists[3] = <<[cb |-> "f", reg |-> 5], [cb |-> "g", reg |-> 6]>>
  <2> HIDE DEF list
  <2> DEFINE S == Seq(Registration)
  <2>1. lists \in [1..3 -> S] /\ 3 \in Nat
    BY <1>1, <1>3
  <2>2. lists \in Seq(S)
    <3> HIDE DEF S
    <3> QED
      BY <2>1, SeqDef
  <2>3. DOMAIN lists = 1..3 /\ Len(lists) = 3
    BY <2>1, <2>2
  <2> QED
    BY <1>1, <1>2, <2>2, <2>3
<1>5. /\ \A i, j \in DOMAIN lists[1] : lists[1][i].reg = lists[1][j].reg => i = j
      /\ \A i, j \in DOMAIN lists[2] : lists[2][i].reg = lists[2][j].reg => i = j
      /\ \A i, j \in DOMAIN lists[3] : lists[3][i].reg = lists[3][j].reg => i = j
      /\ RegsOf(lists[1]) = {1, 2} /\ RegsOf(lists[2]) = {3, 4} /\ RegsOf(lists[3]) = {5, 6}
  BY <1>4 DEF RegsOf
<1> HIDE DEF list
<1>6. BusTypes
  <2>0. exact \in [{"a", "b"} -> Nat]
    BY <1>1
  <2>1. /\ wild \in DOMAIN lists /\ \A t \in {"a", "b"} : exact[t] \in 0..Len(lists)
    BY <1>1, <1>4
  <2>5. /\ mode \in BOOLEAN /\ stopped \in BOOLEAN /\ intent \in BOOLEAN /\ next \in Nat /\ calls \in Nat /\ emits \in Nat
    BY <1>1
  <2>2. \A S : << >> \in Seq(S)
    OBVIOUS
  <2>3. /\ history \in Seq(Nat) /\ Len(history) = emits /\ Len(fate) = emits /\ Len(present) = emits
        /\ fate \in Seq({"batched", "dispatched", "returned", "dropped"}) /\ present \in Seq(SUBSET Nat)
        /\ batched \in Seq(Waiting)
        /\ deliveries \in [deliveries: Seq([event: Nat, reg: Nat]), order: Seq(Nat)]
    BY <1>1, <2>2
  <2>4. StackOk(dispatches)
    <3>1. dispatches \in Seq(Walk \cup Calling \cup Flushing) /\ DOMAIN dispatches = {}
      BY <1>1, <2>2
    <3> QED
      BY <3>1 DEF StackOk, InWalks, InFlushes
  <2> QED
    BY <1>4, <2>0, <2>1, <2>3, <2>4, <2>5 DEF BusTypes
<1>7. BusRegistry
  <2>1. \A l \in DOMAIN lists : l = 1 \/ l = 2 \/ l = 3
    BY <1>4
  <2>2. \A t \in {"a", "b"} : exact[t] = 1 \/ exact[t] = 2
    BY <1>1
  <2> QED
    BY <1>1, <1>5, <2>1, <2>2 DEF BusRegistry
<1>8. Rests = {} /\ Walks = {}
  BY <1>1 DEF InWalks, InFlushes, WalksOf, RestsOf, Walks, Rests
<1>9. IdsOf(batched) = {} /\ 1..emits = {}
  BY <1>1 DEF IdsOf
<1>10. BusWaiting
  <2>1. DOMAIN batched = {}
    BY <1>1
  <2> QED
    BY <1>8, <1>9, <2>1 DEF BusWaiting
<1>11. BusIntent /\ BusWalks
  BY <1>1, <1>8 DEF BusIntent, BusWalks, BusReached, BusApart, BusAhead
<1>12. BusHeard
  <2>1. DOMAIN deliveries.deliveries = {}
    BY <1>1
  <2> QED
    BY <1>9, <2>1 DEF BusHeard
<1> QED
  BY <1>6, <1>7, <1>10, <1>11, <1>12 DEF BusInv

\* A change of the registry.  Lists get new registrations at their end or lose some, exact
\* and wildcard lists stay apart, and a wildcard list only loses what is not in place any more.
BusChange ==
    /\ UNCHANGED <<mode, stopped, batched, intent, history, dispatches, emits, deliveries, fate>>
    /\ lists' \in Seq(Seq(Registration)) /\ exact' \in [{"a", "b"} -> Nat] /\ wild' \in DOMAIN lists'
    /\ \A t \in {"a", "b"} : exact'[t] \in 0..Len(lists')
    /\ next' \in Nat /\ next <= next' /\ calls' \in Nat /\ Len(lists) <= Len(lists')
    /\ present' \in Seq(SUBSET Nat) /\ Len(present') = Len(present) /\ \A e \in 1..emits : present'[e] \subseteq present[e]
    /\ BusRegistry'
    /\ \A l \in DOMAIN lists, n \in Nat : \A r \in AheadOf(lists'[l], n) : r \in AheadOf(lists[l], n) \/ next <= r
    /\ \A r \in RegsOf(lists'[wild']) : r \in RegsOf(lists[wild]) \/ next <= r
    /\ \A l \in DOMAIN lists : l # wild /\ RegsOf(lists[l]) \cap RegsOf(lists[wild]) = {} =>
         l # wild' /\ RegsOf(lists'[l]) \cap RegsOf(lists'[wild']) = {}
    /\ \A l \in DOMAIN lists : (\A t \in {"a", "b"} : exact[t] # l) =>
         /\ \A t \in {"a", "b"} : exact'[t] # l
         /\ \A e \in 1..emits, n \in Nat : present'[e] \cap AheadOf(lists[l], n) \subseteq AheadOf(lists'[l], n)

\* What was delivered is known by event and registration.
LEMMA DeliveriesAreTyped ==
    ASSUME BusTypes
    PROVE  /\ deliveries.deliveries \in Seq([event: Nat, reg: Nat]) /\ deliveries.order \in Seq(Nat)
           /\ deliveries = [deliveries |-> deliveries.deliveries, order |-> deliveries.order]
           /\ \A i \in DOMAIN deliveries.deliveries :
                /\ deliveries.deliveries[i].event \in Nat /\ deliveries.deliveries[i].reg \in Nat
                /\ deliveries.deliveries[i] =
                     [event |-> deliveries.deliveries[i].event, reg |-> deliveries.deliveries[i].reg]
<1> DEFINE R == [event: Nat, reg: Nat]
<1>1. /\ deliveries.deliveries \in Seq(R) /\ deliveries.order \in Seq(Nat)
      /\ deliveries = [deliveries |-> deliveries.deliveries, order |-> deliveries.order]
  BY DEF BusTypes
<1>2. \A i \in DOMAIN deliveries.deliveries : deliveries.deliveries[i] \in R
  <2> HIDE DEF R
  <2> QED
    BY <1>1, ElementOfSeq
<1>3. \A d \in R : d.event \in Nat /\ d.reg \in Nat /\ d = [event |-> d.event, reg |-> d.reg]
  OBVIOUS
<1> HIDE DEF R
<1>4. \A i \in DOMAIN deliveries.deliveries :
        /\ deliveries.deliveries[i].event \in Nat /\ deliveries.deliveries[i].reg \in Nat
        /\ deliveries.deliveries[i] =
             [event |-> deliveries.deliveries[i].event, reg |-> deliveries.deliveries[i].reg]
  BY <1>2, <1>3
<1> QED
  BY <1>1, <1>4 DEF R

\* The registrations in a list, and those that were heard, are numbers.
LEMMA BusNumbers ==
    ASSUME BusInv
    PROVE  /\ \A l \in DOMAIN lists : RegsOf(lists[l]) \subseteq Nat /\ \A n : AheadOf(lists[l], n) \subseteq RegsOf(lists[l])
           /\ \A e : HeardOf(deliveries.deliveries, e) \subseteq Nat /\ \A r \in HeardOf(deliveries.deliveries, e) : r < next
           /\ \A e \in 1..emits : present[e] \subseteq Nat /\ \A r \in present[e] : r < next
<1>1. ASSUME NEW l \in DOMAIN lists
      PROVE  RegsOf(lists[l]) \subseteq Nat /\ \A n : AheadOf(lists[l], n) \subseteq RegsOf(lists[l])
  <2>1. lists[l] \in Seq(Registration)
    BY DEF BusInv, BusTypes
  <2>2. \A j \in DOMAIN lists[l] : lists[l][j] \in Registration
    BY <2>1
  <2>3. \A j \in DOMAIN lists[l] : lists[l][j].reg \in Nat
    BY <2>2 DEF Registration
  <2> QED
    BY <2>3 DEF RegsOf, AheadOf
<1>2. ASSUME NEW e
      PROVE  HeardOf(deliveries.deliveries, e) \subseteq Nat /\ \A r \in HeardOf(deliveries.deliveries, e) : r < next
  <2>1. \A j \in DOMAIN deliveries.deliveries : deliveries.deliveries[j].reg \in Nat
    BY DeliveriesAreTyped DEF BusInv
  <2>2. \A i \in DOMAIN deliveries.deliveries : deliveries.deliveries[i].reg < next
    BY DEF BusInv, BusHeard
  <2> QED
    BY <2>1, <2>2 DEF HeardOf
<1>3. \A e \in 1..emits : present[e] \subseteq Nat /\ \A r \in present[e] : r < next
  BY DEF BusInv, BusTypes, BusHeard
<1> QED
  BY <1>1, <1>2, <1>3

\* A frame that is not a flush is a dispatch, whose listener runs or not.
LEMMA WalksAreTyped ==
    ASSUME NEW d, StackOk(d)
    PROVE  /\ \A i \in DOMAIN d : d[i] \in Walk \/ d[i] \in Calling \/ d[i] \in Flushing
           /\ \A i \in InWalks(d) : WalkOf(d[i]) \in Walk
           /\ \A w \in WalksOf(d) : w \in Walk
           /\ \A i \in InFlushes(d) : d[i] \in Flushing /\ d[i].rest \in Seq(Waiting)
           /\ \A q \in RestsOf(d) : q \in Seq(Waiting)
<1>1. \A i \in DOMAIN d : d[i] \in Walk \/ d[i] \in Calling \/ d[i] \in Flushing
  <2>1. d \in Seq(Walk \cup Calling \cup Flushing)
    BY DEF StackOk
  <2>2. \A i \in DOMAIN d : d[i] \in Walk \cup Calling \cup Flushing
    BY <2>1
  <2> QED
    BY <2>2
<1>2. /\ \A f \in Walk : f.at = "exact" \/ f.at = "wild"
      /\ \A f \in Calling : f.at = "callback" /\ f.back \in Walk
      /\ \A f \in Flushing : f.at = "flush" /\ f.rest \in Seq(Waiting)
  BY DEF Walk, Calling, Flushing
<1>3. \A i \in InWalks(d) : WalkOf(d[i]) \in Walk
  BY <1>1, <1>2 DEF InWalks, WalkOf
<1>4. \A i \in InFlushes(d) : d[i] \in Flushing /\ d[i].rest \in Seq(Waiting)
  BY <1>1, <1>2 DEF InFlushes
<1> QED
  BY <1>1, <1>3, <1>4 DEF WalksOf, RestsOf

\* Such a change keeps the invariant.
LEMMA BusChanges ==
    ASSUME BusInv, BusChange
    PROVE  BusInv'
<1>1. /\ dispatches' = dispatches /\ batched' = batched /\ mode' = mode /\ stopped' = stopped /\ intent' = intent
      /\ emits' = emits /\ fate' = fate /\ deliveries' = deliveries /\ history' = history
  BY DEF BusChange
<1>2. Rests' = Rests /\ Walks' = Walks
  BY <1>1 DEF Rests, Walks
<1>3. \A w \in Walks : w \in Walk
  BY WalksAreTyped DEF BusInv, BusTypes, Walks
<1>4. BusTypes'
  BY <1>1 DEF BusChange, BusInv, BusTypes
<1>5. BusWaiting' /\ BusIntent'
  BY <1>1, <1>2 DEF BusInv, BusWaiting, BusIntent
<1>6. BusWalks'
  <2>2. ASSUME NEW w \in Walks
        PROVE  /\ w.event \in 1..emits /\ fate[w.event] = "dispatched" /\ 1 <= w.index /\ w.list \in 0..Len(lists')
               /\ w.list # 0 => HeardOf(deliveries.deliveries, w.event) \cap AheadOf(lists'[w.list], w.index) = {}
    <3>1. /\ w.index \in Nat /\ w.list \in Nat /\ Len(lists) <= Len(lists')
          /\ Len(lists) \in Nat /\ Len(lists') \in Nat
      <4>1. w.index \in Nat /\ w.list \in Nat
        BY <1>3 DEF Walk
      <4>2. lists \in Seq(Seq(Registration)) /\ lists' \in Seq(Seq(Registration)) /\ Len(lists) <= Len(lists')
        BY DEF BusInv, BusTypes, BusChange
      <4> QED
        BY <4>1, <4>2
    <3>2. /\ w.event \in 1..emits /\ fate[w.event] = "dispatched" /\ 1 <= w.index /\ w.list \in 0..Len(lists)
          /\ w.list # 0 => HeardOf(deliveries.deliveries, w.event) \cap AheadOf(lists[w.list], w.index) = {}
      BY DEF BusInv, BusWalks, BusReached, BusApart, BusAhead
    <3>3. w.list # 0 => w.list \in DOMAIN lists
      BY <3>1, <3>2 DEF BusInv, BusTypes
    <3>4. w.list # 0 => \A r \in AheadOf(lists'[w.list], w.index) : r \in AheadOf(lists[w.list], w.index) \/ next <= r
      BY <3>1, <3>3 DEF BusChange
    <3>5. \A r \in HeardOf(deliveries.deliveries, w.event) : r \in Nat /\ r < next /\ next \in Nat
      BY BusNumbers DEF BusInv, BusTypes
    <3> QED
      BY <3>1, <3>2, <3>4, <3>5
  <2>3. ASSUME NEW w \in Walks, w.at = "exact"
        PROVE  /\ HeardOf(deliveries.deliveries, w.event) \cap RegsOf(lists'[wild']) = {}
               /\ w.list # 0 => w.list # wild' /\ RegsOf(lists'[w.list]) \cap RegsOf(lists'[wild']) = {}
    <3>1. w.list # 0 => w.list \in DOMAIN lists
      BY <1>3 DEF Walk, BusInv, BusTypes, BusWalks, BusReached, BusApart, BusAhead
    <3>2. \A r \in HeardOf(deliveries.deliveries, w.event) : r \in Nat /\ r < next /\ next \in Nat
      BY BusNumbers DEF BusInv, BusTypes
    <3>3. /\ HeardOf(deliveries.deliveries, w.event) \cap RegsOf(lists[wild]) = {}
          /\ w.list # 0 => w.list # wild /\ RegsOf(lists[w.list]) \cap RegsOf(lists[wild]) = {}
      BY <2>3 DEF BusInv, BusWalks, BusReached, BusApart, BusAhead
    <3>4. \A r \in RegsOf(lists'[wild']) : r \in RegsOf(lists[wild]) \/ next <= r
      BY DEF BusChange
    <3>5. w.list # 0 => w.list # wild' /\ RegsOf(lists'[w.list]) \cap RegsOf(lists'[wild']) = {}
      BY <3>1, <3>3 DEF BusChange
    <3> QED
      BY <3>2, <3>3, <3>4, <3>5
  <2>4. ASSUME NEW w \in Walks, w.at = "wild"
        PROVE  /\ w.list # 0 /\ \A t \in {"a", "b"} : exact'[t] # w.list
               /\ present'[w.event] \cap RegsOf(lists'[wild']) \subseteq
                    HeardOf(deliveries.deliveries, w.event) \cup AheadOf(lists'[w.list], w.index)
    <3>1. /\ w.list # 0 /\ (\A t \in {"a", "b"} : exact[t] # w.list) /\ w.list \in DOMAIN lists
          /\ w.index \in Nat /\ w.event \in 1..emits
          /\ present[w.event] \cap RegsOf(lists[wild]) \subseteq
               HeardOf(deliveries.deliveries, w.event) \cup AheadOf(lists[w.list], w.index)
      <4>1. BusWalks /\ w \in Walk
        BY <1>3 DEF BusInv
      <4>2. w.index \in Nat
        BY <4>1 DEF Walk
      <4>3. /\ w.list # 0 /\ (\A t \in {"a", "b"} : exact[t] # w.list) /\ w.event \in 1..emits
            /\ w.list \in 0..Len(lists)
            /\ present[w.event] \cap RegsOf(lists[wild]) \subseteq
                 HeardOf(deliveries.deliveries, w.event) \cup AheadOf(lists[w.list], w.index)
        BY <2>4, <4>1 DEF BusWalks, BusReached, BusApart, BusAhead
      <4>4. lists \in Seq(Seq(Registration))
        BY DEF BusInv, BusTypes
      <4>5. Len(lists) \in Nat /\ DOMAIN lists = 1..Len(lists)
        BY <4>4, LenProperties
      <4>6. w.list \in DOMAIN lists
        BY <4>3, <4>5
      <4> QED
        BY <4>2, <4>3, <4>6
    <3>2. /\ \A t \in {"a", "b"} : exact'[t] # w.list
          /\ present'[w.event] \cap AheadOf(lists[w.list], w.index) \subseteq AheadOf(lists'[w.list], w.index)
          /\ present'[w.event] \subseteq present[w.event]
      BY <3>1 DEF BusChange
    <3>3. \A r \in RegsOf(lists'[wild']) : r \in RegsOf(lists[wild]) \/ next <= r
      BY DEF BusChange
    <3>4. \A r \in present[w.event] : r \in Nat /\ r < next /\ next \in Nat
      BY <3>1, BusNumbers DEF BusInv, BusTypes
    <3> QED
      BY <3>1, <3>2, <3>3, <3>4
  <2> QED
    <3>1. BusReached'
      BY <1>1, <1>2, <2>2 DEF BusReached
    <3>2. BusApart'
      BY <1>1, <1>2, <2>3 DEF BusApart
    <3>3. BusAhead'
      BY <1>1, <1>2, <2>4 DEF BusAhead
    <3> QED
      BY <3>1, <3>2, <3>3 DEF BusWalks
<1>7. BusHeard'
  <2>1. next \in Nat /\ next' \in Nat /\ next <= next'
    BY DEF BusChange, BusInv, BusTypes
  <2>2. ASSUME NEW e \in 1..emits
        PROVE  /\ \A r \in present'[e] : r < next'
               /\ fate[e] = "dispatched" /\ (\A w \in Walks : w.event # e) =>
                    present'[e] \cap RegsOf(lists'[wild']) \subseteq HeardOf(deliveries.deliveries, e)
    <3>1. present'[e] \subseteq present[e] /\ \A r \in present[e] : r \in Nat /\ r < next
      BY BusNumbers DEF BusChange
    <3>2. \A r \in RegsOf(lists'[wild']) : r \in RegsOf(lists[wild]) \/ next <= r
      BY DEF BusChange
    <3>3. fate[e] = "dispatched" /\ (\A w \in Walks : w.event # e) =>
            present[e] \cap RegsOf(lists[wild]) \subseteq HeardOf(deliveries.deliveries, e)
      BY DEF BusInv, BusHeard
    <3> QED
      BY <2>1, <3>1, <3>2, <3>3
  <2>3. \A i, j \in DOMAIN deliveries.deliveries : deliveries.deliveries[i] = deliveries.deliveries[j] => i = j
    BY DEF BusInv, BusHeard
  <2>4. ASSUME NEW i \in DOMAIN deliveries.deliveries
        PROVE  LET d == deliveries.deliveries[i] IN d.event \in 1..emits /\ fate[d.event] = "dispatched" /\ d.reg < next'
    <3>1. LET d == deliveries.deliveries[i] IN d.event \in 1..emits /\ fate[d.event] = "dispatched" /\ d.reg < next
      BY DEF BusInv, BusHeard
    <3>2. deliveries.deliveries[i].reg \in Nat
      BY DeliveriesAreTyped DEF BusInv
    <3> QED
      BY <2>1, <3>1, <3>2
  <2> QED
    BY <1>1, <1>2, <2>2, <2>3, <2>4 DEF BusHeard
<1> QED
  BY <1>4, <1>5, <1>6, <1>7 DEF BusInv, BusChange

\* A list with a registration more.
LEMMA OneRegistrationMore ==
    ASSUME NEW l \in Seq(Registration), NEW r \in Registration
    PROVE  LET k == Append(l, r)
           IN  /\ k \in Seq(Registration) /\ RegsOf(k) = RegsOf(l) \cup {r.reg}
               /\ \A n \in Nat : AheadOf(l, n) \subseteq AheadOf(k, n) /\ AheadOf(k, n) \subseteq AheadOf(l, n) \cup {r.reg}
               /\ r.reg \notin RegsOf(l) /\ (\A i, j \in DOMAIN l : l[i].reg = l[j].reg => i = j) =>
                    \A i, j \in DOMAIN k : k[i].reg = k[j].reg => i = j
<1> DEFINE k == Append(l, r)
<1>1. k \in Seq(Registration) /\ Len(k) = Len(l) + 1 /\ k[Len(l) + 1] = r /\ \A i \in 1..Len(l) : k[i] = l[i]
  BY AppendProperties
<1>2. DOMAIN l = 1..Len(l) /\ DOMAIN k = 1..(Len(l) + 1) /\ Len(l) \in Nat
  BY <1>1
<1> HIDE DEF k
<1>3. \A i \in DOMAIN k : i \in DOMAIN l \/ i = Len(l) + 1
  BY <1>2
<1>4. RegsOf(k) = RegsOf(l) \cup {r.reg}
  BY <1>1, <1>2, <1>3 DEF RegsOf
<1>5. \A n \in Nat : AheadOf(l, n) \subseteq AheadOf(k, n) /\ AheadOf(k, n) \subseteq AheadOf(l, n) \cup {r.reg}
  BY <1>1, <1>2, <1>3 DEF AheadOf
<1>6. ASSUME r.reg \notin RegsOf(l), \A i, j \in DOMAIN l : l[i].reg = l[j].reg => i = j
      PROVE  \A i, j \in DOMAIN k : k[i].reg = k[j].reg => i = j
  BY <1>1, <1>2, <1>3, <1>6 DEF RegsOf
<1> QED
  BY <1>1, <1>4, <1>5, <1>6 DEF k

\* on(): the list grows at its end, or there is a new one.
LEMMA BusOn ==
    ASSUME NEW s \in BusSetups, BusInv, NEW k \in Bus(s)!Keys, NEW c \in Bus(s)!Callbacks, Bus(s)!On(k, c)
    PROVE  BusInv'
<1> DEFINE r == [cb |-> c, reg |-> next]
<1>1. /\ UNCHANGED <<mode, stopped, batched, intent, history, dispatches, emits, deliveries, fate>>
      /\ wild' = wild /\ next' = next + 1 /\ calls' = calls + 1 /\ present' = present
  BY DEF Bus!On, Bus!MayCall, Bus!batch, Bus!ghosts
<1>2. BusTypes /\ BusRegistry /\ next \in Nat /\ lists \in Seq(Seq(Registration)) /\ wild \in DOMAIN lists /\ calls \in Nat
      /\ exact \in [{"a", "b"} -> Nat] /\ \A t \in {"a", "b"} : exact[t] \in 0..Len(lists)
  BY DEF BusInv, BusTypes
<1>3. r \in Registration /\ r.reg = next
  BY <1>2 DEF Registration, Bus!Callbacks
<1>4. /\ present' \in Seq(SUBSET Nat) /\ Len(present') = Len(present)
      /\ \A e \in 1..emits : present'[e] \subseteq present[e]
  BY <1>1, <1>2 DEF BusTypes
<1>5. \/ \E l \in DOMAIN lists : lists' = [lists EXCEPT ![l] = Append(lists[l], r)] /\ exact' = exact
      \/ /\ k \in {"a", "b"} /\ exact[k] = 0
         /\ lists' = Append(lists, <<r>>) /\ exact' = [exact EXCEPT ![k] = Len(lists) + 1]
  <2>1. CASE k = "*"
    BY <1>2, <2>1 DEF Bus!On
  <2>2. CASE k # "*" /\ exact[k] = 0
    BY <2>2 DEF Bus!On, Bus!Keys, Bus!Types
  <2>3. CASE k # "*" /\ exact[k] # 0
    <3>1. k \in {"a", "b"} /\ exact[k] \in 0..Len(lists) /\ DOMAIN lists = 1..Len(lists) /\ Len(lists) \in Nat
      BY <1>2, <2>3 DEF Bus!Keys, Bus!Types
    <3>2. exact[k] \in DOMAIN lists
      BY <2>3, <3>1
    <3> QED
      BY <2>3, <3>2 DEF Bus!On
  <2> QED
    BY <2>1, <2>2, <2>3
<1> HIDE DEF r
<1>6. \A l \in DOMAIN lists :
        /\ lists[l] \in Seq(Registration) /\ next \notin RegsOf(lists[l])
        /\ RegsOf(lists[l]) \subseteq Nat /\ \A p \in RegsOf(lists[l]) : p < next
        /\ \A i, j \in DOMAIN lists[l] : lists[l][i].reg = lists[l][j].reg => i = j
  <2>1. \A l \in DOMAIN lists : lists[l] \in Seq(Registration)
    BY <1>2
  <2> QED
    BY <1>2, <2>1, BusNumbers DEF BusRegistry
<1>7. next \in Nat
  BY <1>2
<1>8. CASE \E l \in DOMAIN lists : lists' = [lists EXCEPT ![l] = Append(lists[l], r)] /\ exact' = exact
  <2>1. PICK l \in DOMAIN lists : lists' = [lists EXCEPT ![l] = Append(lists[l], r)] /\ exact' = exact
    BY <1>8
  <2> DEFINE q == Append(lists[l], r)
  <2>2. /\ q \in Seq(Registration) /\ RegsOf(q) = RegsOf(lists[l]) \cup {next}
        /\ \A n \in Nat : AheadOf(lists[l], n) \subseteq AheadOf(q, n) /\ AheadOf(q, n) \subseteq AheadOf(lists[l], n) \cup {next}
        /\ \A i, j \in DOMAIN q : q[i].reg = q[j].reg => i = j
    <3>1. lists[l] \in Seq(Registration)
      BY <1>6
    <3>3. next \notin RegsOf(lists[l])
      BY <1>6
    <3>4. \A i, j \in DOMAIN lists[l] : lists[l][i].reg = lists[l][j].reg => i = j
      BY <1>6
    <3> DEFINE o == lists[l]
    <3>2. /\ Append(o, r) \in Seq(Registration) /\ RegsOf(Append(o, r)) = RegsOf(o) \cup {r.reg}
          /\ \A n \in Nat : AheadOf(o, n) \subseteq AheadOf(Append(o, r), n)
                         /\ AheadOf(Append(o, r), n) \subseteq AheadOf(o, n) \cup {r.reg}
          /\ r.reg \notin RegsOf(o) /\ (\A i, j \in DOMAIN o : o[i].reg = o[j].reg => i = j) =>
               \A i, j \in DOMAIN Append(o, r) : Append(o, r)[i].reg = Append(o, r)[j].reg => i = j
      BY <1>3, <3>1, OneRegistrationMore
    <3> QED
      BY <1>3, <3>1, <3>2, <3>3, <3>4
  <2>3. lists' \in Seq(Seq(Registration)) /\ Len(lists') = Len(lists) /\ DOMAIN lists' = DOMAIN lists
        /\ lists'[l] = q /\ \A m \in DOMAIN lists : m # l => lists'[m] = lists[m]
    <3> HIDE DEF q
    <3> DEFINE S == Seq(Registration)
    <3>1. lists \in Seq(S) /\ q \in S /\ lists' = [lists EXCEPT ![l] = q] /\ l \in 1..Len(lists)
      BY <1>2, <2>1, <2>2 DEF q
    <3> HIDE DEF S
    <3>2. lists' \in Seq(S) /\ Len(lists') = Len(lists)
      BY <3>1, ExceptSeq
    <3> QED
      BY <3>1, <3>2 DEF S
  <2> HIDE DEF q
  <2>4. \A m \in DOMAIN lists : RegsOf(lists'[m]) = IF m = l THEN RegsOf(lists[m]) \cup {next} ELSE RegsOf(lists[m])
    BY <2>2, <2>3
  <2>7. ASSUME NEW m \in DOMAIN lists, m # wild, RegsOf(lists[m]) \cap RegsOf(lists[wild]) = {}
        PROVE  RegsOf(lists'[m]) \cap RegsOf(lists'[wild]) = {}
    <3>1. next \notin RegsOf(lists[m]) /\ next \notin RegsOf(lists[wild])
      BY <1>2, <1>6
    <3>2. /\ RegsOf(lists'[m]) = IF m = l THEN RegsOf(lists[m]) \cup {next} ELSE RegsOf(lists[m])
          /\ RegsOf(lists'[wild]) = IF wild = l THEN RegsOf(lists[wild]) \cup {next} ELSE RegsOf(lists[wild])
      BY <1>2, <2>4
    <3> QED
      BY <2>7, <3>1, <3>2
  <2>5. BusRegistry'
    <3>1. ASSUME NEW m \in DOMAIN lists
          PROVE  /\ \A i, j \in DOMAIN lists'[m] : lists'[m][i].reg = lists'[m][j].reg => i = j
                 /\ \A p \in RegsOf(lists'[m]) : p < next + 1
      <4>1. CASE m = l
        <5>1. \A p \in RegsOf(q) : p \in RegsOf(lists[l]) \/ p = next
          BY <2>2
        <5>2. \A p \in RegsOf(lists[l]) : p \in Nat /\ p < next /\ next \in Nat
          BY <1>2, <1>6
        <5>3. \A p \in RegsOf(q) : p < next + 1
          BY <5>1, <5>2, <1>7
        <5> QED
          BY <2>2, <2>3, <4>1, <5>3
      <4>2. CASE m # l
        <5>1. lists'[m] = lists[m]
          BY <2>3, <4>2
        <5>2. \A p \in RegsOf(lists[m]) : p < next + 1
          BY <1>6, <1>7
        <5>3. \A i, j \in DOMAIN lists[m] : lists[m][i].reg = lists[m][j].reg => i = j
          BY <1>6
        <5> QED
          BY <5>1, <5>2, <5>3
      <4> QED
        BY <4>1, <4>2
    <3>3. \A t \in {"a", "b"} : exact[t] # 0 => exact[t] \in DOMAIN lists /\ exact[t] # wild
                                                /\ RegsOf(lists[exact[t]]) \cap RegsOf(lists[wild]) = {}
      BY <1>2 DEF BusRegistry
    <3>4. \A t \in {"a", "b"} : exact[t] # 0 => RegsOf(lists'[exact[t]]) \cap RegsOf(lists'[wild]) = {}
      BY <2>7, <3>3
    <3> QED
      BY <1>1, <2>1, <2>3, <3>1, <3>3, <3>4 DEF BusRegistry
  <2>6. /\ \A m \in DOMAIN lists, n \in Nat : \A p \in AheadOf(lists'[m], n) : p \in AheadOf(lists[m], n) \/ next <= p
        /\ \A p \in RegsOf(lists'[wild]) : p \in RegsOf(lists[wild]) \/ next <= p
        /\ \A m \in DOMAIN lists, n \in Nat : AheadOf(lists[m], n) \subseteq AheadOf(lists'[m], n)
    <3>1. ASSUME NEW m \in DOMAIN lists, NEW n \in Nat
          PROVE  /\ \A p \in AheadOf(lists'[m], n) : p \in AheadOf(lists[m], n) \/ next <= p
                 /\ AheadOf(lists[m], n) \subseteq AheadOf(lists'[m], n)
      <4>1. CASE m = l
        BY <1>2, <2>2, <2>3, <4>1
      <4>2. CASE m # l
        <5>1. lists'[m] = lists[m]
          BY <2>3, <4>2
        <5> QED
          BY <5>1
      <4> QED
        BY <4>1, <4>2
    <3>2. \A p \in RegsOf(lists'[wild]) : p \in RegsOf(lists[wild]) \/ next <= p
      <4>1. \A p \in RegsOf(lists'[wild]) : p \in RegsOf(lists[wild]) \/ p = next
        BY <1>2, <2>4
      <4> QED
        BY <1>7, <4>1
    <3> QED
      BY <3>1, <3>2
  <2>8. BusChange
    <3>1. /\ wild' \in DOMAIN lists' /\ next' \in Nat /\ next <= next' /\ calls' \in Nat /\ Len(lists) <= Len(lists')
          /\ exact' \in [{"a", "b"} -> Nat] /\ \A t \in {"a", "b"} : exact'[t] \in 0..Len(lists')
      <4>1. Len(lists) \in Nat
        BY <1>2
      <4> QED
        BY <1>1, <1>2, <2>1, <2>3, <4>1
    <3>2. \A m \in DOMAIN lists : m # wild /\ RegsOf(lists[m]) \cap RegsOf(lists[wild]) = {} =>
            m # wild' /\ RegsOf(lists'[m]) \cap RegsOf(lists'[wild']) = {}
      BY <1>1, <2>7
    <3>3. \A m \in DOMAIN lists : (\A t \in {"a", "b"} : exact[t] # m) =>
            /\ \A t \in {"a", "b"} : exact'[t] # m
            /\ \A e \in 1..emits, n \in Nat : present'[e] \cap AheadOf(lists[m], n) \subseteq AheadOf(lists'[m], n)
      BY <2>1, <2>6
    <3> QED
      BY <1>1, <1>4, <2>3, <2>5, <2>6, <3>1, <3>2, <3>3 DEF BusChange
  <2> QED
    BY <2>8, BusChanges
<1>9. CASE /\ k \in {"a", "b"} /\ exact[k] = 0
           /\ lists' = Append(lists, <<r>>) /\ exact' = [exact EXCEPT ![k] = Len(lists) + 1]
  <2>1. <<r>> \in Seq(Registration) /\ RegsOf(<<r>>) = {next} /\ DOMAIN <<r>> = {1}
    BY <1>3 DEF RegsOf
  <2>2. lists' \in Seq(Seq(Registration)) /\ Len(lists') = Len(lists) + 1 /\ lists'[Len(lists) + 1] = <<r>>
        /\ \A m \in DOMAIN lists : lists'[m] = lists[m]
    <3> DEFINE S == Seq(Registration)
    <3>1. lists \in Seq(S) /\ <<r>> \in S
      BY <1>2, <2>1
    <3> HIDE DEF S
    <3>2. /\ Append(lists, <<r>>) \in Seq(S) /\ Len(Append(lists, <<r>>)) = Len(lists) + 1
          /\ Append(lists, <<r>>)[Len(lists) + 1] = <<r>>
          /\ \A m \in 1..Len(lists) : Append(lists, <<r>>)[m] = lists[m]
      BY <3>1, AppendProperties
    <3> QED
      BY <1>9, <3>1, <3>2 DEF S
  <2>3. /\ DOMAIN lists = 1..Len(lists) /\ DOMAIN lists' = 1..(Len(lists) + 1) /\ Len(lists) \in Nat
        /\ Len(lists) + 1 \in DOMAIN lists' /\ Len(lists) + 1 \notin DOMAIN lists /\ Len(lists) + 1 # 0
        /\ \A m \in DOMAIN lists' : m \in DOMAIN lists \/ m = Len(lists) + 1
    BY <1>2, <2>2
  <2>4. /\ exact' \in [{"a", "b"} -> Nat] /\ exact'[k] = Len(lists) + 1
        /\ \A t \in {"a", "b"} : t # k => exact'[t] = exact[t]
    BY <1>2, <1>9, <2>3
  <2>5. BusRegistry'
    <3>1. ASSUME NEW m \in DOMAIN lists'
          PROVE  /\ \A i, j \in DOMAIN lists'[m] : lists'[m][i].reg = lists'[m][j].reg => i = j
                 /\ \A p \in RegsOf(lists'[m]) : p < next + 1
      <4>1. CASE m = Len(lists) + 1
        <5>1. lists'[m] = <<r>>
          BY <2>2, <4>1
        <5>2. next < next + 1
          BY <1>2
        <5> QED
          BY <2>1, <5>1, <5>2
      <4>2. CASE m \in DOMAIN lists
        <5>1. lists'[m] = lists[m]
          BY <2>2, <4>2
        <5>2. \A p \in RegsOf(lists[m]) : p < next + 1
          BY <1>6, <1>7, <4>2
        <5>3. \A i, j \in DOMAIN lists[m] : lists[m][i].reg = lists[m][j].reg => i = j
          BY <1>6, <4>2
        <5> QED
          BY <5>1, <5>2, <5>3
      <4> QED
        BY <2>3, <4>1, <4>2
    <3>3. \A t \in {"a", "b"} : t # k /\ exact[t] # 0 => exact[t] \in DOMAIN lists /\ exact[t] # wild
                                                /\ RegsOf(lists[exact[t]]) \cap RegsOf(lists[wild]) = {}
      BY <1>2 DEF BusRegistry
    <3>4. Len(lists) + 1 # wild /\ {next} \cap RegsOf(lists[wild]) = {}
      BY <1>2, <1>6, <2>3
    <3>5. \A t \in {"a", "b"} : exact'[t] # 0 => exact'[t] # wild /\ RegsOf(lists'[exact'[t]]) \cap RegsOf(lists'[wild]) = {}
      BY <1>2, <2>1, <2>2, <2>4, <3>3, <3>4
    <3> QED
      BY <1>1, <3>1, <3>5 DEF BusRegistry
  <2>6. \A t \in {"a", "b"} : exact'[t] \in 0..Len(lists')
    <3>1. \A n \in 0..Len(lists) : n \in 0..(Len(lists) + 1)
      BY <2>3
    <3>2. Len(lists) + 1 \in 0..(Len(lists) + 1)
      BY <2>3
    <3> QED
      BY <1>2, <2>2, <2>4, <3>1, <3>2
  <2>7. \A m \in DOMAIN lists : m # Len(lists) + 1
    BY <2>3
  <2>8. BusChange
    <3>1. lists' \in Seq(Seq(Registration)) /\ wild' \in DOMAIN lists' /\ next' \in Nat /\ next <= next' /\ calls' \in Nat
          /\ Len(lists) <= Len(lists')
      BY <1>1, <1>2, <2>2, <2>3
    <3>2. /\ \A l \in DOMAIN lists, n \in Nat : \A p \in AheadOf(lists'[l], n) : p \in AheadOf(lists[l], n) \/ next <= p
          /\ \A p \in RegsOf(lists'[wild']) : p \in RegsOf(lists[wild]) \/ next <= p
          /\ \A l \in DOMAIN lists : l # wild /\ RegsOf(lists[l]) \cap RegsOf(lists[wild]) = {} =>
               l # wild' /\ RegsOf(lists'[l]) \cap RegsOf(lists'[wild']) = {}
      BY <1>1, <1>2, <2>2
    <3>3. \A l \in DOMAIN lists : (\A t \in {"a", "b"} : exact[t] # l) =>
            /\ \A t \in {"a", "b"} : exact'[t] # l
            /\ \A e \in 1..emits, n \in Nat : present'[e] \cap AheadOf(lists[l], n) \subseteq AheadOf(lists'[l], n)
      BY <2>2, <2>4, <2>7
    <3> QED
      BY <1>1, <1>4, <2>4, <2>5, <2>6, <3>1, <3>2, <3>3 DEF BusChange
  <2> QED
    BY <2>8, BusChanges
<1> QED
  BY <1>5, <1>8, <1>9

\* A wildcard list is made anew, with registrations of the old one; of the others only exact
\* lists lose some.
LEMMA BusNewWild ==
    ASSUME BusInv, NEW base \in Seq(Seq(Registration)), NEW kept \in Seq(Registration),
           UNCHANGED <<mode, stopped, batched, intent, history, dispatches, emits, deliveries, fate, next>>,
           calls' \in Nat, Len(base) = Len(lists), lists' = Append(base, kept), wild' = Len(lists) + 1,
           RegsOf(kept) \subseteq RegsOf(lists[wild]),
           \A i, j \in DOMAIN kept : kept[i].reg = kept[j].reg => i = j,
           exact' \in [{"a", "b"} -> Nat], \A t \in {"a", "b"} : exact'[t] \in {0, exact[t]},
           \A m \in DOMAIN lists :
             /\ RegsOf(base[m]) \subseteq RegsOf(lists[m])
             /\ \A i, j \in DOMAIN base[m] : base[m][i].reg = base[m][j].reg => i = j
             /\ \A n \in Nat : AheadOf(base[m], n) \subseteq AheadOf(lists[m], n)
             /\ (\A t \in {"a", "b"} : exact[t] # m) => base[m] = lists[m],
           present' \in Seq(SUBSET Nat), Len(present') = Len(present), \A e \in 1..emits : present'[e] \subseteq present[e]
    PROVE  BusInv'
<1>1. BusRegistry /\ next \in Nat /\ lists \in Seq(Seq(Registration)) /\ wild \in DOMAIN lists
      /\ exact \in [{"a", "b"} -> Nat] /\ \A t \in {"a", "b"} : exact[t] \in 0..Len(lists)
  BY DEF BusInv, BusTypes
<1>2. lists' \in Seq(Seq(Registration)) /\ Len(lists') = Len(lists) + 1 /\ lists'[Len(lists) + 1] = kept
      /\ \A m \in 1..Len(lists) : lists'[m] = base[m]
  <2> DEFINE S == Seq(Registration)
  <2>1. base \in Seq(S) /\ kept \in S
    OBVIOUS
  <2> HIDE DEF S
  <2>2. /\ Append(base, kept) \in Seq(S) /\ Len(Append(base, kept)) = Len(base) + 1
        /\ Append(base, kept)[Len(base) + 1] = kept
        /\ \A m \in 1..Len(base) : Append(base, kept)[m] = base[m]
    BY <2>1, AppendProperties
  <2> QED
    BY <2>2 DEF S
<1>3. /\ DOMAIN lists = 1..Len(lists) /\ DOMAIN lists' = 1..(Len(lists) + 1) /\ Len(lists) \in Nat
      /\ Len(lists) + 1 \in DOMAIN lists' /\ Len(lists) + 1 \notin DOMAIN lists
      /\ \A m \in DOMAIN lists' : m \in DOMAIN lists \/ m = Len(lists) + 1
      /\ Len(lists) <= Len(lists') /\ \A n \in 0..Len(lists) : n \in 0..Len(lists') /\ n # Len(lists) + 1
  <2> DEFINE n == Len(lists)
  <2>1. DOMAIN lists = 1..n /\ n \in Nat /\ DOMAIN lists' = 1..(n + 1) /\ Len(lists') = n + 1
    BY <1>1, <1>2
  <2> HIDE DEF n
  <2>2. n + 1 \in 1..(n + 1) /\ n + 1 \notin 1..n /\ n <= n + 1
    BY <2>1
  <2>3. \A m \in 1..(n + 1) : m \in 1..n \/ m = n + 1
    BY <2>1
  <2>4. \A m \in 0..n : m \in 0..(n + 1) /\ m # n + 1
    BY <2>1
  <2> QED
    BY <2>1, <2>2, <2>3, <2>4 DEF n
<1>4. \A m \in DOMAIN lists : lists'[m] = base[m] /\ m # wild'
  BY <1>2, <1>3
<1>5. lists'[wild'] = kept /\ wild' \in DOMAIN lists'
  BY <1>2, <1>3
<1>6. \A t \in {"a", "b"} : exact[t] # 0 => exact[t] \in DOMAIN lists
  <2> TAKE t \in {"a", "b"}
  <2>1. exact[t] \in 0..Len(lists) /\ Len(lists) \in Nat /\ DOMAIN lists = 1..Len(lists)
    BY <1>1, <1>3
  <2> QED
    BY <2>1
<1>7. \A m \in DOMAIN lists : m # wild /\ RegsOf(lists[m]) \cap RegsOf(lists[wild]) = {} =>
        m # wild' /\ RegsOf(lists'[m]) \cap RegsOf(lists'[wild']) = {}
  BY <1>4, <1>5
<1>8. BusRegistry'
  <2>1. ASSUME NEW m \in DOMAIN lists'
        PROVE  /\ \A i, j \in DOMAIN lists'[m] : lists'[m][i].reg = lists'[m][j].reg => i = j
               /\ \A r \in RegsOf(lists'[m]) : r < next
    <3>1. CASE m = Len(lists) + 1
      <4>1. lists'[m] = kept
        BY <1>2, <3>1
      <4>2. \A r \in RegsOf(lists[wild]) : r < next
        BY <1>1 DEF BusRegistry
      <4> QED
        BY <4>1, <4>2
    <3>2. CASE m \in DOMAIN lists
      <4>1. lists'[m] = base[m] /\ RegsOf(base[m]) \subseteq RegsOf(lists[m])
        BY <1>4, <3>2
      <4>2. \A r \in RegsOf(lists[m]) : r < next
        BY <1>1, <3>2 DEF BusRegistry
      <4>3. \A i, j \in DOMAIN base[m] : base[m][i].reg = base[m][j].reg => i = j
        BY <3>2
      <4> QED
        BY <4>1, <4>2, <4>3
    <3> QED
      BY <1>3, <3>1, <3>2
  <2>2. ASSUME NEW t \in {"a", "b"}, exact'[t] # 0
        PROVE  exact'[t] # wild' /\ RegsOf(lists'[exact'[t]]) \cap RegsOf(lists'[wild']) = {}
    <3>1. exact'[t] = exact[t] /\ exact[t] \in DOMAIN lists
      BY <1>6, <2>2
    <3>2. exact[t] # wild /\ RegsOf(lists[exact[t]]) \cap RegsOf(lists[wild]) = {}
      BY <1>1, <2>2, <3>1 DEF BusRegistry
    <3> QED
      BY <1>7, <3>1, <3>2
  <2> QED
    BY <2>1, <2>2 DEF BusRegistry
<1>9. \A l \in DOMAIN lists, n \in Nat : \A r \in AheadOf(lists'[l], n) : r \in AheadOf(lists[l], n) \/ next <= r
  BY <1>4
<1>10. \A r \in RegsOf(lists'[wild']) : r \in RegsOf(lists[wild]) \/ next <= r
  BY <1>5
<1>11. \A l \in DOMAIN lists : (\A t \in {"a", "b"} : exact[t] # l) =>
         /\ \A t \in {"a", "b"} : exact'[t] # l
         /\ \A e \in 1..emits, n \in Nat : present'[e] \cap AheadOf(lists[l], n) \subseteq AheadOf(lists'[l], n)
  <2> SUFFICES ASSUME NEW l \in DOMAIN lists, \A t \in {"a", "b"} : exact[t] # l
               PROVE  /\ \A t \in {"a", "b"} : exact'[t] # l
                      /\ \A e \in 1..emits, n \in Nat : present'[e] \cap AheadOf(lists[l], n) \subseteq AheadOf(lists'[l], n)
    OBVIOUS
  <2>1. lists'[l] = lists[l]
    BY <1>4
  <2>2. l # 0
    BY <1>3
  <2> QED
    BY <2>1, <2>2
<1>12. \A t \in {"a", "b"} : exact'[t] \in 0..Len(lists')
  <2>1. 0 \in 0..Len(lists)
    BY <1>3
  <2> QED
    BY <1>1, <1>3, <2>1
<1>13. BusChange
  <2>1. next' \in Nat /\ next <= next'
    BY <1>1
  <2> QED
    BY <1>2, <1>3, <1>5, <1>7, <1>8, <1>9, <1>10, <1>11, <1>12, <2>1 DEF BusChange
<1> QED
  BY <1>13, BusChanges

\* Registrations that are not in place any more.
LEMMA BusDeparted ==
    ASSUME NEW s \in BusSetups, BusTypes, NEW left, Bus(s)!Departed(left)
    PROVE  present' \in Seq(SUBSET Nat) /\ Len(present') = Len(present) /\ \A e \in 1..emits : present'[e] \subseteq present[e]
<1> DEFINE S == SUBSET Nat
<1>1. present \in Seq(S) /\ Len(present) = emits /\ emits \in Nat
  BY DEF BusTypes
<1>2. DOMAIN present = 1..emits /\ \A e \in 1..emits : present[e] \in S
  BY <1>1, ElementOfSeq
<1>3. present' = [e \in 1..emits |-> present[e] \ left]
  BY <1>2 DEF Bus!Departed
<1>4. present' \in [1..emits -> S]
  BY <1>2, <1>3
<1>5. present' \in Seq(S)
  <2> HIDE DEF S
  <2> QED
    BY <1>1, <1>4, SeqDef
<1>6. DOMAIN present' = 1..Len(present') /\ Len(present') \in Nat
  <2> HIDE DEF S
  <2> QED
    BY <1>5
<1> QED
  BY <1>1, <1>3, <1>5, <1>6

\* off(): an exact list loses a registration in place, the wildcard list is made anew.
LEMMA BusOff ==
    ASSUME NEW s \in BusSetups, BusInv, NEW k \in Bus(s)!Keys, NEW c \in Bus(s)!Callbacks, Bus(s)!Off(k, c)
    PROVE  BusInv'
<1> DEFINE l == IF k = "*" THEN 0 ELSE exact[k]
           one == IF l = 0 THEN {} ELSE Bus(s)!First(lists[l], c)
           all == IF k = "*" THEN Bus(s)!At(lists[wild], c) ELSE {}
<1>1. /\ UNCHANGED <<mode, stopped, batched, intent, history, dispatches, emits, deliveries, fate, next>>
      /\ wild' = Len(lists) + 1 /\ calls' = calls + 1 /\ exact' = exact
      /\ \E left : Bus(s)!Departed(left)
  BY DEF Bus!Off, Bus!MayCall, Bus!batch
<1>2. BusTypes /\ BusRegistry /\ lists \in Seq(Seq(Registration)) /\ wild \in DOMAIN lists /\ calls \in Nat
      /\ exact \in [{"a", "b"} -> Nat] /\ \A t \in {"a", "b"} : exact[t] \in 0..Len(lists)
  BY DEF BusInv, BusTypes
<1>3. PICK kept \in Bus(s)!Without(lists[wild], all) :
        \/ l = 0 /\ lists' = Append(lists, kept)
        \/ l # 0 /\ \E q \in Bus(s)!Without(lists[l], one) : lists' = Append([lists EXCEPT ![l] = q], kept)
  BY DEF Bus!Off
<1>4. /\ all \in SUBSET (DOMAIN lists[wild])
      /\ l # 0 => one \in SUBSET (DOMAIN lists[l]) /\ l \in DOMAIN lists /\ \E t \in {"a", "b"} : exact[t] = l
  <2>1. l # 0 => k \in {"a", "b"} /\ l = exact[k]
    BY DEF Bus!Keys, Bus!Types
  <2>2. \A t \in {"a", "b"} : exact[t] # 0 => exact[t] \in DOMAIN lists
    BY <1>2
  <2> QED
    BY <2>1, <2>2 DEF Bus!First, Bus!At
<1>5. \A m \in DOMAIN lists : lists[m] \in Seq(Registration)
  BY <1>2
<1> HIDE DEF l, one, all
<1>6. \A m \in DOMAIN lists : \A i, j \in DOMAIN lists[m] : lists[m][i].reg = lists[m][j].reg => i = j
  BY <1>2 DEF BusRegistry
<1>7. /\ kept \in Seq(Registration) /\ RegsOf(kept) \subseteq RegsOf(lists[wild])
      /\ \A i, j \in DOMAIN kept : kept[i].reg = kept[j].reg => i = j
  <2>1. lists[wild] \in Seq(Registration) /\ all \in SUBSET (DOMAIN lists[wild])
    BY <1>2, <1>4, <1>5
  <2>2. kept \in Seq(Registration) /\ LessThan(lists[wild], kept)
    BY <1>3, <2>1, RemainsOfList
  <2> QED
    BY <1>2, <1>6, <2>2 DEF LessThan
<1>8. present' \in Seq(SUBSET Nat) /\ Len(present') = Len(present) /\ \A e \in 1..emits : present'[e] \subseteq present[e]
  BY <1>1, <1>2, BusDeparted
<1>9. calls' \in Nat /\ exact' \in [{"a", "b"} -> Nat] /\ \A t \in {"a", "b"} : exact'[t] \in {0, exact[t]}
  BY <1>1, <1>2
<1>10. CASE l = 0 /\ lists' = Append(lists, kept)
  BY <1>1, <1>2, <1>6, <1>7, <1>8, <1>9, <1>10, BusNewWild
<1>11. CASE l # 0 /\ \E q \in Bus(s)!Without(lists[l], one) : lists' = Append([lists EXCEPT ![l] = q], kept)
  <2>1. PICK q \in Bus(s)!Without(lists[l], one) : lists' = Append([lists EXCEPT ![l] = q], kept)
    BY <1>11
  <2>2. l \in DOMAIN lists /\ lists[l] \in Seq(Registration) /\ one \in SUBSET (DOMAIN lists[l])
        /\ \E t \in {"a", "b"} : exact[t] = l
    BY <1>4, <1>5, <1>11
  <2>3. q \in Seq(Registration) /\ LessThan(lists[l], q)
    BY <2>1, <2>2, RemainsOfList
  <2>4. /\ RegsOf(q) \subseteq RegsOf(lists[l])
        /\ \A i, j \in DOMAIN q : q[i].reg = q[j].reg => i = j
        /\ \A n \in Nat : AheadOf(q, n) \subseteq AheadOf(lists[l], n)
    BY <1>6, <2>2, <2>3 DEF LessThan
  <2> DEFINE base == [lists EXCEPT ![l] = q]
  <2>5. base \in Seq(Seq(Registration)) /\ Len(base) = Len(lists) /\ base[l] = q
        /\ \A m \in DOMAIN lists : m # l => base[m] = lists[m]
    <3> DEFINE S == Seq(Registration)
    <3>1. lists \in Seq(S) /\ q \in S /\ l \in 1..Len(lists)
      BY <1>2, <2>2, <2>3
    <3> HIDE DEF S
    <3>2. base \in Seq(S) /\ Len(base) = Len(lists)
      BY <3>1, ExceptSeq
    <3>3. base[l] = q /\ \A m \in DOMAIN lists : m # l => base[m] = lists[m]
      BY <2>2
    <3> QED
      BY <3>2, <3>3 DEF S
  <2>6. lists' = Append(base, kept)
    BY <2>1
  <2> HIDE DEF base
  <2>7. ASSUME NEW m \in DOMAIN lists
        PROVE  /\ RegsOf(base[m]) \subseteq RegsOf(lists[m])
               /\ \A i, j \in DOMAIN base[m] : base[m][i].reg = base[m][j].reg => i = j
               /\ \A n \in Nat : AheadOf(base[m], n) \subseteq AheadOf(lists[m], n)
               /\ (\A t \in {"a", "b"} : exact[t] # m) => base[m] = lists[m]
    <3>1. CASE m = l
      <4>1. base[m] = q
        BY <2>5, <3>1
      <4> QED
        BY <2>2, <2>3, <2>4, <3>1, <4>1
    <3>2. CASE m # l
      <4>1. base[m] = lists[m]
        BY <2>5, <3>2
      <4>2. \A i, j \in DOMAIN lists[m] : lists[m][i].reg = lists[m][j].reg => i = j
        BY <1>6
      <4> QED
        BY <4>1, <4>2
    <3> QED
      BY <3>1, <3>2
  <2> QED
    BY <1>1, <1>7, <1>8, <1>9, <2>5, <2>6, <2>7, BusNewWild
<1> QED
  BY <1>3, <1>10, <1>11

\* clear() of one type, or of the wildcard listeners.
LEMMA BusClear ==
    ASSUME NEW s \in BusSetups, BusInv, NEW k \in Bus(s)!Keys, Bus(s)!Clear(k)
    PROVE  BusInv'
<1> DEFINE kept == IF k = "*" THEN << >> ELSE lists[wild]
<1>1. /\ UNCHANGED <<mode, stopped, batched, intent, history, dispatches, emits, deliveries, fate, next>>
      /\ wild' = Len(lists) + 1 /\ calls' = calls + 1 /\ lists' = Append(lists, kept)
      /\ exact' = (IF k = "*" THEN exact ELSE [exact EXCEPT ![k] = 0])
      /\ \E left : Bus(s)!Departed(left)
  BY DEF Bus!Clear, Bus!MayCall, Bus!batch
<1>2. BusTypes /\ BusRegistry /\ lists \in Seq(Seq(Registration)) /\ wild \in DOMAIN lists /\ calls \in Nat
      /\ exact \in [{"a", "b"} -> Nat] /\ \A t \in {"a", "b"} : exact[t] \in 0..Len(lists)
  BY DEF BusInv, BusTypes
<1>3. \A m \in DOMAIN lists : lists[m] \in Seq(Registration)
  BY <1>2
<1>4. \A m \in DOMAIN lists : \A i, j \in DOMAIN lists[m] : lists[m][i].reg = lists[m][j].reg => i = j
  BY <1>2 DEF BusRegistry
<1>5. /\ kept \in Seq(Registration) /\ RegsOf(kept) \subseteq RegsOf(lists[wild])
      /\ \A i, j \in DOMAIN kept : kept[i].reg = kept[j].reg => i = j
  <2>1. CASE k = "*"
    <3>1. kept = << >> /\ << >> \in Seq(Registration) /\ DOMAIN << >> = {}
      BY <2>1
    <3> HIDE DEF kept
    <3> QED
      BY <3>1 DEF RegsOf
  <2>2. CASE k # "*"
    <3>1. kept = lists[wild]
      BY <2>2
    <3> HIDE DEF kept
    <3> QED
      BY <1>2, <1>3, <1>4, <3>1
  <2> QED
    BY <2>1, <2>2
<1>6. present' \in Seq(SUBSET Nat) /\ Len(present') = Len(present) /\ \A e \in 1..emits : present'[e] \subseteq present[e]
  BY <1>1, <1>2, BusDeparted
<1>7. calls' \in Nat /\ exact' \in [{"a", "b"} -> Nat] /\ \A t \in {"a", "b"} : exact'[t] \in {0, exact[t]}
  <2>1. CASE k = "*"
    BY <1>1, <1>2, <2>1
  <2>2. CASE k \in {"a", "b"}
    BY <1>1, <1>2, <2>2
  <2> QED
    BY <2>1, <2>2 DEF Bus!Keys, Bus!Types
<1> HIDE DEF kept
<1> QED
  BY <1>1, <1>2, <1>4, <1>5, <1>6, <1>7, BusNewWild

\* clear(): the wildcard list is emptied in place, and nothing is in place any more.
LEMMA BusClearAll ==
    ASSUME NEW s \in BusSetups, BusInv, Bus(s)!ClearAll
    PROVE  BusInv'
<1>1. /\ UNCHANGED <<mode, stopped, batched, intent, history, dispatches, emits, deliveries, fate, next>>
      /\ wild' = wild /\ calls' = calls + 1 /\ lists' = [lists EXCEPT ![wild] = << >>]
      /\ exact' = [t \in {"a", "b"} |-> 0] /\ present' = [e \in DOMAIN present |-> {}]
  BY DEF Bus!ClearAll, Bus!MayCall, Bus!batch, Bus!Types
<1>2. BusTypes /\ BusRegistry /\ lists \in Seq(Seq(Registration)) /\ wild \in DOMAIN lists /\ calls \in Nat /\ next \in Nat
  BY DEF BusInv, BusTypes
<1>3. lists' \in Seq(Seq(Registration)) /\ Len(lists') = Len(lists) /\ DOMAIN lists' = DOMAIN lists
      /\ lists'[wild] = << >> /\ \A m \in DOMAIN lists : m # wild => lists'[m] = lists[m]
  <2> DEFINE S == Seq(Registration)
             q == << >>
  <2>1. lists \in Seq(S) /\ q \in S /\ wild \in 1..Len(lists) /\ lists' = [lists EXCEPT ![wild] = q]
    BY <1>1, <1>2
  <2> HIDE DEF S, q
  <2>2. lists' \in Seq(S) /\ Len(lists') = Len(lists)
    BY <2>1, ExceptSeq
  <2> QED
    BY <2>1, <2>2 DEF S, q
<1>4. \A t \in {"a", "b"} : exact'[t] = 0
  BY <1>1
<1>5. DOMAIN << >> = {} /\ RegsOf(<< >>) = {} /\ \A n : AheadOf(<< >>, n) = {}
  BY DEF RegsOf, AheadOf
<1>6. BusRegistry'
  <2>1. ASSUME NEW m \in DOMAIN lists'
        PROVE  /\ \A i, j \in DOMAIN lists'[m] : lists'[m][i].reg = lists'[m][j].reg => i = j
               /\ \A r \in RegsOf(lists'[m]) : r < next
    <3>1. CASE m = wild
      BY <1>3, <1>5, <3>1
    <3>2. CASE m # wild
      <4>1. m \in DOMAIN lists /\ lists'[m] = lists[m]
        BY <1>3, <3>2
      <4> QED
        BY <1>2, <4>1 DEF BusRegistry
    <3> QED
      BY <3>1, <3>2
  <2> QED
    BY <1>1, <1>4, <2>1 DEF BusRegistry
<1>7. present' \in Seq(SUBSET Nat) /\ Len(present') = Len(present) /\ \A e \in 1..emits : present'[e] = {}
  <2> DEFINE S == SUBSET Nat
  <2>1. present \in Seq(S) /\ Len(present) = emits /\ emits \in Nat /\ {} \in S
    BY <1>2 DEF BusTypes
  <2> HIDE DEF S
  <2>2. DOMAIN present = 1..emits
    BY <2>1
  <2>3. present' \in [1..emits -> S]
    BY <1>1, <2>1, <2>2
  <2>4. present' \in Seq(S)
    BY <2>1, <2>3, SeqDef
  <2>5. DOMAIN present' = 1..Len(present') /\ Len(present') \in Nat
    BY <2>4
  <2> QED
    BY <1>1, <2>1, <2>2, <2>4, <2>5 DEF S
<1>8. ASSUME NEW l \in DOMAIN lists
      PROVE  /\ \A n \in Nat : \A r \in AheadOf(lists'[l], n) : r \in AheadOf(lists[l], n) \/ next <= r
             /\ RegsOf(lists'[l]) \cap RegsOf(lists'[wild']) = {}
             /\ l # 0
  <2>1. l # 0
    BY <1>2
  <2>2. RegsOf(lists'[wild']) = {}
    BY <1>1, <1>3, <1>5
  <2>3. CASE l = wild
    BY <1>3, <1>5, <2>1, <2>2, <2>3
  <2>4. CASE l # wild
    BY <1>3, <2>1, <2>2, <2>4
  <2> QED
    BY <2>3, <2>4
<1>9. BusChange
  <2>1. /\ exact' \in [{"a", "b"} -> Nat] /\ \A t \in {"a", "b"} : exact'[t] \in 0..Len(lists')
        /\ next' \in Nat /\ next <= next' /\ calls' \in Nat /\ Len(lists) <= Len(lists')
    <3>1. Len(lists) \in Nat
      BY <1>2
    <3> QED
      BY <1>1, <1>2, <1>3, <1>4, <3>1
  <2>2. \A r \in RegsOf(lists'[wild']) : r \in RegsOf(lists[wild]) \/ next <= r
    BY <1>1, <1>3, <1>5
  <2>3. \A l \in DOMAIN lists : (\A t \in {"a", "b"} : exact[t] # l) =>
          /\ \A t \in {"a", "b"} : exact'[t] # l
          /\ \A e \in 1..emits, n \in Nat : present'[e] \cap AheadOf(lists[l], n) \subseteq AheadOf(lists'[l], n)
    BY <1>4, <1>7, <1>8
  <2> QED
    BY <1>1, <1>2, <1>3, <1>6, <1>7, <1>8, <2>1, <2>2, <2>3 DEF BusChange
<1> QED
  BY <1>9, BusChanges

\* A frame more on the stack: which dispatches and flushes there are then.
LEMMA FramePushed ==
    ASSUME NEW d, StackOk(d), NEW f \in Walk \cup Flushing,
           f \in Walk => \A w \in WalksOf(d) : w.event # f.event,
           f \in Flushing => \A q \in RestsOf(d) : IdsOf(q) \cap IdsOf(f.rest) = {}
    PROVE  LET t == <<f>> \o d
           IN  /\ StackOk(t) /\ t # << >> /\ Head(t) = f
               /\ WalksOf(t) = IF f \in Walk THEN WalksOf(d) \cup {f} ELSE WalksOf(d)
               /\ RestsOf(t) = IF f \in Walk THEN RestsOf(d) ELSE RestsOf(d) \cup {f.rest}
<1> DEFINE t == <<f>> \o d
           F == Walk \cup Calling \cup Flushing
<1>1. d \in Seq(F) /\ f \in F
  BY DEF StackOk
<1>2. t \in Seq(F) /\ Len(t) = Len(d) + 1 /\ t[1] = f /\ \A i \in 1..Len(d) : t[i + 1] = d[i]
  <2> HIDE DEF F, t
  <2> QED
    BY <1>1, StackPush DEF t
<1>3. DOMAIN d = 1..Len(d) /\ DOMAIN t = 1..(Len(d) + 1) /\ Len(d) \in Nat
  <2> HIDE DEF F, t
  <2> QED
    BY <1>1, <1>2
<1> HIDE DEF t
<1>4. t # << >> /\ Head(t) = f
  BY <1>2, <1>3
<1>5. \A i \in DOMAIN t : i = 1 \/ (i - 1 \in DOMAIN d /\ t[i] = d[i - 1])
  <2> SUFFICES ASSUME NEW i \in DOMAIN t, i # 1 PROVE i - 1 \in DOMAIN d /\ t[i] = d[i - 1]
    OBVIOUS
  <2>1. i - 1 \in 1..Len(d) /\ (i - 1) + 1 = i
    BY <1>3
  <2> QED
    BY <1>2, <1>3, <2>1
<1>6. \A i \in DOMAIN d : i + 1 \in DOMAIN t /\ t[i + 1] = d[i] /\ i + 1 # 1
  BY <1>2, <1>3
<1>7. 1 \in DOMAIN t /\ t[1] = f
  BY <1>2, <1>3
<1>8. \A i, j \in DOMAIN t : i - 1 = j - 1 => i = j
  BY <1>3
<1>9. /\ f \in Walk => f.at # "flush" /\ f.at # "callback" /\ WalkOf(f) = f /\ f \notin Flushing
      /\ f \in Flushing => f.at = "flush" /\ f.at # "callback" /\ f \notin Walk
  BY DEF Walk, Flushing, WalkOf
<1>10. CASE f \in Walk
  <2>1. /\ InWalks(t) \subseteq DOMAIN t /\ InWalks(d) \subseteq DOMAIN d /\ 1 \in InWalks(t)
        /\ \A i \in InWalks(t) : i # 1 => i - 1 \in InWalks(d)
        /\ \A i \in InWalks(d) : i + 1 \in InWalks(t)
        /\ InFlushes(t) \subseteq DOMAIN t /\ InFlushes(d) \subseteq DOMAIN d
        /\ \A i \in InFlushes(t) : i # 1 /\ i - 1 \in InFlushes(d)
        /\ \A i \in InFlushes(d) : i + 1 \in InFlushes(t)
    BY <1>5, <1>6, <1>7, <1>9, <1>10 DEF InWalks, InFlushes
  <2>2. WalksOf(t) = WalksOf(d) \cup {f}
    BY <1>5, <1>6, <1>7, <1>9, <1>10, <2>1 DEF WalksOf
  <2>3. RestsOf(t) = RestsOf(d)
    BY <1>5, <1>6, <2>1 DEF RestsOf
  <2>4. \A i \in DOMAIN t : t[i].at = "callback" => t[i].event = t[i].back.event
    BY <1>5, <1>7, <1>9, <1>10 DEF StackOk
  <2>5. \A i, j \in InWalks(t) : WalkOf(t[i]).event = WalkOf(t[j]).event => i = j
    <3>1. \A i \in InWalks(t) : i # 1 => WalkOf(t[i]).event # f.event /\ WalkOf(t[i]) = WalkOf(d[i - 1])
      BY <1>5, <1>10, <2>1 DEF WalksOf
    <3>2. \A i, j \in InWalks(d) : WalkOf(d[i]).event = WalkOf(d[j]).event => i = j
      BY DEF StackOk
    <3>3. WalkOf(t[1]).event = f.event
      BY <1>7, <1>9, <1>10
    <3> SUFFICES ASSUME NEW i \in InWalks(t), NEW j \in InWalks(t), WalkOf(t[i]).event = WalkOf(t[j]).event PROVE i = j
      OBVIOUS
    <3>4. CASE i = 1 \/ j = 1
      BY <3>1, <3>3, <3>4
    <3>5. CASE i # 1 /\ j # 1
      BY <1>8, <2>1, <3>1, <3>2, <3>5
    <3> QED
      BY <3>4, <3>5
  <2>6. \A i, j \in InFlushes(t) : i # j => IdsOf(t[i].rest) \cap IdsOf(t[j].rest) = {}
    <3>1. \A i, j \in InFlushes(d) : i # j => IdsOf(d[i].rest) \cap IdsOf(d[j].rest) = {}
      BY DEF StackOk
    <3> SUFFICES ASSUME NEW i \in InFlushes(t), NEW j \in InFlushes(t), i # j
                 PROVE  IdsOf(t[i].rest) \cap IdsOf(t[j].rest) = {}
      OBVIOUS
    <3>2. /\ i - 1 \in InFlushes(d) /\ j - 1 \in InFlushes(d) /\ i - 1 # j - 1
          /\ t[i] = d[i - 1] /\ t[j] = d[j - 1]
      BY <1>5, <1>8, <2>1
    <3> QED
      BY <3>1, <3>2
  <2>7. StackOk(t)
    BY <1>2, <2>4, <2>5, <2>6 DEF StackOk
  <2> QED
    BY <1>4, <1>10, <2>2, <2>3, <2>7 DEF t
<1>11. CASE f \in Flushing
  <2>1. /\ InFlushes(t) \subseteq DOMAIN t /\ InFlushes(d) \subseteq DOMAIN d /\ 1 \in InFlushes(t)
        /\ \A i \in InFlushes(t) : i # 1 => i - 1 \in InFlushes(d)
        /\ \A i \in InFlushes(d) : i + 1 \in InFlushes(t)
        /\ InWalks(t) \subseteq DOMAIN t /\ InWalks(d) \subseteq DOMAIN d
        /\ \A i \in InWalks(t) : i # 1 /\ i - 1 \in InWalks(d)
        /\ \A i \in InWalks(d) : i + 1 \in InWalks(t)
    BY <1>5, <1>6, <1>7, <1>9, <1>11 DEF InWalks, InFlushes
  <2>2. WalksOf(t) = WalksOf(d)
    BY <1>5, <1>6, <2>1 DEF WalksOf
  <2>3. RestsOf(t) = RestsOf(d) \cup {f.rest}
    BY <1>5, <1>6, <1>7, <2>1 DEF RestsOf
  <2>4. \A i \in DOMAIN t : t[i].at = "callback" => t[i].event = t[i].back.event
    BY <1>5, <1>7, <1>9, <1>11 DEF StackOk
  <2>5. \A i, j \in InWalks(t) : WalkOf(t[i]).event = WalkOf(t[j]).event => i = j
    <3>1. \A i, j \in InWalks(d) : WalkOf(d[i]).event = WalkOf(d[j]).event => i = j
      BY DEF StackOk
    <3> SUFFICES ASSUME NEW i \in InWalks(t), NEW j \in InWalks(t), WalkOf(t[i]).event = WalkOf(t[j]).event PROVE i = j
      OBVIOUS
    <3>2. /\ i - 1 \in InWalks(d) /\ j - 1 \in InWalks(d) /\ t[i] = d[i - 1] /\ t[j] = d[j - 1]
      BY <1>5, <2>1
    <3> QED
      BY <1>8, <2>1, <3>1, <3>2
  <2>6. \A i, j \in InFlushes(t) : i # j => IdsOf(t[i].rest) \cap IdsOf(t[j].rest) = {}
    <3>1. \A i, j \in InFlushes(d) : i # j => IdsOf(d[i].rest) \cap IdsOf(d[j].rest) = {}
      BY DEF StackOk
    <3>2. \A i \in InFlushes(t) : i # 1 => i - 1 \in InFlushes(d) /\ t[i] = d[i - 1] /\ IdsOf(t[i].rest) \cap IdsOf(f.rest) = {}
      BY <1>5, <1>11, <2>1 DEF RestsOf
    <3> SUFFICES ASSUME NEW i \in InFlushes(t), NEW j \in InFlushes(t), i # j
                 PROVE  IdsOf(t[i].rest) \cap IdsOf(t[j].rest) = {}
      OBVIOUS
    <3>3. CASE i = 1 \/ j = 1
      BY <1>7, <3>2, <3>3
    <3>4. CASE i # 1 /\ j # 1
      <4>1. i - 1 # j - 1
        BY <1>8, <2>1
      <4> QED
        BY <3>1, <3>2, <3>4, <4>1
    <3> QED
      BY <3>3, <3>4
  <2>7. StackOk(t)
    BY <1>2, <2>4, <2>5, <2>6 DEF StackOk
  <2> QED
    BY <1>4, <1>9, <1>11, <2>2, <2>3, <2>7 DEF t
<1> QED
  BY <1>10, <1>11

\* A frame in the place of the one on top.
LEMMA FrameSwapped ==
    ASSUME NEW d, StackOk(d), d # << >>, NEW f \in Walk \cup Calling \cup Flushing,
           f.at = "callback" => f.event = f.back.event,
           (f.at = "flush") = (Head(d).at = "flush"),
           f.at # "flush" => WalkOf(f).event = WalkOf(Head(d)).event,
           f.at = "flush" => IdsOf(f.rest) \subseteq IdsOf(Head(d).rest) /\ IdsOf(Head(d).rest) # {}
    PROVE  LET t == <<f>> \o Tail(d)
           IN  /\ StackOk(t) /\ t # << >> /\ Head(t) = f
               /\ IF f.at = "flush"
                  THEN /\ WalksOf(t) = WalksOf(d)
                       /\ RestsOf(t) = (RestsOf(d) \ {Head(d).rest}) \cup {f.rest} /\ Head(d).rest \in RestsOf(d)
                       /\ \A q \in RestsOf(d) \ {Head(d).rest} : IdsOf(q) \cap IdsOf(Head(d).rest) = {}
                  ELSE /\ WalksOf(t) = (WalksOf(d) \ {WalkOf(Head(d))}) \cup {WalkOf(f)}
                       /\ WalkOf(Head(d)) \in WalksOf(d)
                       /\ \A w \in WalksOf(d) \ {WalkOf(Head(d))} : w.event # WalkOf(Head(d)).event
                       /\ RestsOf(t) = RestsOf(d)
<1> DEFINE t == <<f>> \o Tail(d)
           F == Walk \cup Calling \cup Flushing
<1>1. d \in Seq(F)
  BY DEF StackOk
<1>2. t \in Seq(F) /\ Len(t) = Len(d) /\ t[1] = f /\ \A i \in 2..Len(d) : t[i] = d[i]
  <2> HIDE DEF F, t
  <2> QED
    BY <1>1, StackSwap DEF t, F
<1>3. DOMAIN d = 1..Len(d) /\ DOMAIN t = 1..Len(d) /\ Len(d) \in Nat /\ Len(d) >= 1
  <2> HIDE DEF F, t
  <2> QED
    BY <1>1, <1>2, EmptySeq
<1> HIDE DEF t
<1>4. t # << >> /\ Head(t) = f /\ Head(d) = d[1] /\ 1 \in DOMAIN d /\ 1 \in DOMAIN t /\ t[1] = f
  <2>1. Head(t) = t[1] /\ Head(d) = d[1]
    BY <1>1, <1>2, <1>3
  <2> QED
    BY <1>2, <1>3, <2>1
<1>5. DOMAIN t = DOMAIN d /\ \A i \in DOMAIN d : i # 1 => t[i] = d[i]
  <2>1. \A i \in 1..Len(d) : i # 1 => i \in 2..Len(d)
    BY <1>3
  <2> QED
    BY <1>2, <1>3, <2>1
<1>6. InWalks(t) = InWalks(d) /\ InFlushes(t) = InFlushes(d) /\ InWalks(d) \subseteq DOMAIN d /\ InFlushes(d) \subseteq DOMAIN d
  BY <1>4, <1>5 DEF InWalks, InFlushes
<1>7. \A i \in DOMAIN t : t[i].at = "callback" => t[i].event = t[i].back.event
  BY <1>4, <1>5 DEF StackOk
<1>8. /\ \A i, j \in InWalks(d) : WalkOf(d[i]).event = WalkOf(d[j]).event => i = j
      /\ \A i, j \in InFlushes(d) : i # j => IdsOf(d[i].rest) \cap IdsOf(d[j].rest) = {}
  BY DEF StackOk
<1>9. CASE f.at # "flush"
  <2>1. 1 \in InWalks(d) /\ 1 \notin InFlushes(d)
    BY <1>4, <1>9 DEF InWalks, InFlushes
  <2>2. \A i \in InWalks(d) : WalkOf(t[i]).event = WalkOf(d[i]).event /\ (i # 1 => t[i] = d[i])
    BY <1>4, <1>5, <1>6, <1>9
  <2>3. \A i \in InFlushes(d) : t[i] = d[i]
    BY <1>5, <1>6, <2>1
  <2>4. StackOk(t)
    BY <1>2, <1>6, <1>7, <1>8, <2>2, <2>3 DEF StackOk
  <2>5. RestsOf(t) = RestsOf(d)
    BY <1>6, <2>3 DEF RestsOf
  <2>6. \A i \in InWalks(d) : i # 1 => WalkOf(d[i]).event # WalkOf(d[1]).event
    BY <1>8, <2>1
  <2>7. /\ WalksOf(t) = (WalksOf(d) \ {WalkOf(d[1])}) \cup {WalkOf(f)} /\ WalkOf(d[1]) \in WalksOf(d)
        /\ \A w \in WalksOf(d) \ {WalkOf(d[1])} : w.event # WalkOf(d[1]).event
    BY <1>4, <1>6, <2>1, <2>2, <2>6 DEF WalksOf
  <2> QED
    BY <1>4, <1>9, <2>4, <2>5, <2>7 DEF t
<1>10. CASE f.at = "flush"
  <2>1. 1 \in InFlushes(d) /\ 1 \notin InWalks(d)
    BY <1>4, <1>10 DEF InWalks, InFlushes
  <2>2. \A i \in InWalks(d) : t[i] = d[i]
    BY <1>5, <1>6, <2>1
  <2>3. \A i \in InFlushes(d) : IdsOf(t[i].rest) \subseteq IdsOf(d[i].rest) /\ (i # 1 => t[i] = d[i])
    BY <1>4, <1>5, <1>6, <1>10
  <2>4. \A i, j \in InFlushes(t) : i # j => IdsOf(t[i].rest) \cap IdsOf(t[j].rest) = {}
    BY <1>6, <1>8, <2>3
  <2>5. \A i, j \in InWalks(t) : WalkOf(t[i]).event = WalkOf(t[j]).event => i = j
    BY <1>6, <1>8, <2>2
  <2>6. StackOk(t)
    BY <1>2, <1>7, <2>4, <2>5 DEF StackOk
  <2>7. WalksOf(t) = WalksOf(d)
    BY <1>6, <2>2 DEF WalksOf
  <2>8. \A i \in InFlushes(d) : i # 1 => IdsOf(d[i].rest) \cap IdsOf(d[1].rest) = {} /\ d[i].rest # d[1].rest
    BY <1>4, <1>8, <1>10, <2>1
  <2>9. /\ RestsOf(t) = (RestsOf(d) \ {d[1].rest}) \cup {f.rest} /\ d[1].rest \in RestsOf(d)
        /\ \A q \in RestsOf(d) \ {d[1].rest} : IdsOf(q) \cap IdsOf(d[1].rest) = {}
    BY <1>4, <1>6, <2>1, <2>3, <2>8 DEF RestsOf
  <2> QED
    BY <1>4, <1>10, <2>6, <2>7, <2>9 DEF t
<1> QED
  BY <1>9, <1>10

\* The frame on top is left.
LEMMA FramePopped ==
    ASSUME NEW d, StackOk(d), d # << >>
    PROVE  LET t == Tail(d)
           IN  /\ StackOk(t)
               /\ Head(d).at # "flush" =>
                    /\ WalksOf(t) = WalksOf(d) \ {WalkOf(Head(d))} /\ WalkOf(Head(d)) \in WalksOf(d)
                    /\ \A w \in WalksOf(t) : w.event # WalkOf(Head(d)).event
                    /\ RestsOf(t) = RestsOf(d)
               /\ Head(d).at = "flush" =>
                    WalksOf(t) = WalksOf(d) /\ RestsOf(d) = RestsOf(t) \cup {Head(d).rest}
<1> DEFINE t == Tail(d)
           F == Walk \cup Calling \cup Flushing
<1>1. d \in Seq(F)
  BY DEF StackOk
<1>2. t \in Seq(F) /\ Len(t) = Len(d) - 1 /\ \A i \in 1..Len(t) : t[i] = d[i + 1]
  <2> HIDE DEF F, t
  <2> QED
    BY <1>1, StackPop DEF t
<1>3. DOMAIN d = 1..Len(d) /\ DOMAIN t = 1..(Len(d) - 1) /\ Len(d) \in Nat /\ Len(d) >= 1
  <2> HIDE DEF F, t
  <2> QED
    BY <1>1, <1>2, EmptySeq
<1> HIDE DEF t
<1>4. Head(d) = d[1] /\ 1 \in DOMAIN d
  BY <1>1, <1>3
<1>5. \A i \in DOMAIN d : i = 1 \/ (i - 1 \in DOMAIN t /\ d[i] = t[i - 1])
  <2> SUFFICES ASSUME NEW i \in DOMAIN d, i # 1 PROVE i - 1 \in DOMAIN t /\ d[i] = t[i - 1]
    OBVIOUS
  <2>1. i - 1 \in 1..(Len(d) - 1) /\ (i - 1) + 1 = i
    BY <1>3
  <2> QED
    BY <1>2, <1>3, <2>1
<1>6. \A i \in DOMAIN t : i + 1 \in DOMAIN d /\ t[i] = d[i + 1] /\ i + 1 # 1
  BY <1>2, <1>3
<1>7. \A i, j \in DOMAIN t : i + 1 = j + 1 => i = j
  BY <1>3
<1>8. /\ InWalks(t) \subseteq DOMAIN t /\ InFlushes(t) \subseteq DOMAIN t
      /\ InWalks(d) \subseteq DOMAIN d /\ InFlushes(d) \subseteq DOMAIN d
      /\ \A i \in InWalks(t) : i + 1 \in InWalks(d) /\ t[i] = d[i + 1] /\ i + 1 # 1
      /\ \A i \in InFlushes(t) : i + 1 \in InFlushes(d) /\ t[i] = d[i + 1] /\ i + 1 # 1
      /\ \A i \in InWalks(d) : i # 1 => i - 1 \in InWalks(t) /\ d[i] = t[i - 1]
      /\ \A i \in InFlushes(d) : i # 1 => i - 1 \in InFlushes(t) /\ d[i] = t[i - 1]
  BY <1>5, <1>6 DEF InWalks, InFlushes
<1>9. /\ \A i, j \in InWalks(d) : WalkOf(d[i]).event = WalkOf(d[j]).event => i = j
      /\ \A i, j \in InFlushes(d) : i # j => IdsOf(d[i].rest) \cap IdsOf(d[j].rest) = {}
  BY DEF StackOk
<1>10. StackOk(t)
  <2>1. \A i \in DOMAIN t : t[i].at = "callback" => t[i].event = t[i].back.event
    BY <1>6 DEF StackOk
  <2>2. \A i, j \in InWalks(t) : WalkOf(t[i]).event = WalkOf(t[j]).event => i = j
    BY <1>7, <1>8, <1>9
  <2>3. \A i, j \in InFlushes(t) : i # j => IdsOf(t[i].rest) \cap IdsOf(t[j].rest) = {}
    BY <1>7, <1>8, <1>9
  <2> QED
    BY <1>2, <2>1, <2>2, <2>3 DEF StackOk
<1>11. ASSUME d[1].at # "flush"
       PROVE  /\ WalksOf(t) = WalksOf(d) \ {WalkOf(d[1])} /\ WalkOf(d[1]) \in WalksOf(d)
              /\ \A w \in WalksOf(t) : w.event # WalkOf(d[1]).event
              /\ RestsOf(t) = RestsOf(d)
  <2>1. 1 \in InWalks(d) /\ 1 \notin InFlushes(d)
    BY <1>4, <1>11 DEF InWalks, InFlushes
  <2>2. \A i \in InWalks(t) : WalkOf(t[i]).event # WalkOf(d[1]).event
    BY <1>8, <1>9, <2>1
  <2>3. RestsOf(t) = RestsOf(d)
    BY <1>8, <2>1 DEF RestsOf
  <2>4. WalksOf(t) = WalksOf(d) \ {WalkOf(d[1])} /\ WalkOf(d[1]) \in WalksOf(d)
    BY <1>8, <2>1, <2>2 DEF WalksOf
  <2> QED
    BY <2>2, <2>3, <2>4 DEF WalksOf
<1>12. ASSUME d[1].at = "flush"
       PROVE  WalksOf(t) = WalksOf(d) /\ RestsOf(d) = RestsOf(t) \cup {d[1].rest}
  <2>1. 1 \in InFlushes(d) /\ 1 \notin InWalks(d)
    BY <1>4, <1>12 DEF InWalks, InFlushes
  <2> QED
    BY <1>8, <2>1 DEF WalksOf, RestsOf
<1> QED
  BY <1>4, <1>10, <1>11, <1>12 DEF t

\* What the dispatches and the deliveries say of the registrations is not touched by a step
\* that dispatches nothing and delivers nothing.
LEMMA BusIdle ==
    ASSUME BusInv, UNCHANGED <<lists, exact, wild, next>>, deliveries'.deliveries = deliveries.deliveries,
           Walks' = Walks, emits' \in Nat, emits <= emits',
           \A e \in 1..emits : present'[e] = present[e] /\ (fate'[e] = "dispatched" <=> fate[e] = "dispatched"),
           \A e \in 1..emits' : e \notin 1..emits => present'[e] = {} /\ fate'[e] # "dispatched"
    PROVE  BusRegistry' /\ BusWalks' /\ BusHeard'
<1>1. BusRegistry /\ BusWalks /\ BusHeard /\ emits \in Nat
  BY DEF BusInv, BusTypes
<1>2. 1..emits \subseteq 1..emits'
  BY <1>1
<1>3. BusRegistry'
  BY <1>1 DEF BusRegistry
<1>4. BusWalks'
  <2>1. \A w \in Walks : w.event \in 1..emits /\ w.event \in 1..emits' /\ fate'[w.event] = "dispatched"
    BY <1>1, <1>2 DEF BusWalks, BusReached, BusApart, BusAhead
  <2>2. BusReached'
    BY <1>1, <2>1 DEF BusWalks, BusReached
  <2>3. BusApart'
    BY <1>1, <2>1 DEF BusWalks, BusApart
  <2>4. BusAhead'
    BY <1>1, <2>1 DEF BusWalks, BusAhead
  <2> QED
    BY <2>2, <2>3, <2>4 DEF BusWalks
<1>5. BusHeard'
  <2>1. \A e \in 1..emits' : fate'[e] = "dispatched" => e \in 1..emits /\ fate[e] = "dispatched" /\ present'[e] = present[e]
    OBVIOUS
  <2>2. \A e \in 1..emits' : \A r \in present'[e] : r < next
    <3> SUFFICES ASSUME NEW e \in 1..emits', NEW r \in present'[e] PROVE r < next
      OBVIOUS
    <3>1. e \in 1..emits /\ r \in present[e]
      OBVIOUS
    <3> QED
      BY <1>1, <3>1 DEF BusHeard
  <2>3. \A i, j \in DOMAIN deliveries.deliveries : deliveries.deliveries[i] = deliveries.deliveries[j] => i = j
    BY <1>1 DEF BusHeard
  <2>4. \A i \in DOMAIN deliveries.deliveries :
          LET d == deliveries.deliveries[i] IN d.event \in 1..emits' /\ fate'[d.event] = "dispatched" /\ d.reg < next
    BY <1>1, <1>2 DEF BusHeard
  <2>5. \A e \in 1..emits' : fate'[e] = "dispatched" /\ (\A w \in Walks : w.event # e) =>
          present'[e] \cap RegsOf(lists[wild]) \subseteq HeardOf(deliveries.deliveries, e)
    <3> SUFFICES ASSUME NEW e \in 1..emits', fate'[e] = "dispatched", \A w \in Walks : w.event # e
                 PROVE  present'[e] \cap RegsOf(lists[wild]) \subseteq HeardOf(deliveries.deliveries, e)
      OBVIOUS
    <3>1. e \in 1..emits /\ fate[e] = "dispatched" /\ present'[e] = present[e]
      BY <2>1
    <3> QED
      BY <1>1, <3>1 DEF BusHeard
  <2> QED
    BY <2>2, <2>3, <2>4, <2>5 DEF BusHeard
<1> QED
  BY <1>3, <1>4, <1>5

\* The dispatch of an event begins that was not dispatched before: nobody has heard of it,
\* and its exact listeners are others than the wildcard listeners.
LEMMA BusBegins ==
    ASSUME BusInv, UNCHANGED <<lists, exact, wild, next>>, deliveries'.deliveries = deliveries.deliveries,
           emits' \in Nat, emits <= emits', NEW e \in 1..emits', NEW t \in {"a", "b"}, NEW w \in Walk,
           w.at = "exact", w.event = e, w.list = exact[t], w.index = 1, Walks' = Walks \cup {w},
           e \in 1..emits => fate[e] # "dispatched", fate'[e] = "dispatched",
           \A r \in present'[e] : r < next,
           \A i \in 1..emits' : i # e => i \in 1..emits /\ present'[i] = present[i] /\ fate'[i] = fate[i]
    PROVE  BusRegistry' /\ BusWalks' /\ BusHeard' /\ \A v \in Walks : v.event # e
<1>1. BusRegistry /\ BusWalks /\ BusHeard /\ emits \in Nat
      /\ exact \in [{"a", "b"} -> Nat] /\ \A u \in {"a", "b"} : exact[u] \in 0..Len(lists)
  BY DEF BusInv, BusTypes
<1>2. 1..emits \subseteq 1..emits'
  BY <1>1
<1>3. BusRegistry'
  BY <1>1 DEF BusRegistry
<1>4. HeardOf(deliveries.deliveries, e) = {}
  <2>1. \A i \in DOMAIN deliveries.deliveries :
          deliveries.deliveries[i].event \in 1..emits /\ fate[deliveries.deliveries[i].event] = "dispatched"
    BY <1>1 DEF BusHeard
  <2>2. \A i \in DOMAIN deliveries.deliveries : deliveries.deliveries[i].event # e
    BY <2>1
  <2> QED
    BY <2>2 DEF HeardOf
<1>5. \A v \in Walks : v.event \in 1..emits /\ fate[v.event] = "dispatched" /\ v.event # e
  BY <1>1 DEF BusWalks, BusReached, BusApart, BusAhead
<1>6. BusWalks'
  <2>1. \A v \in Walks : v.event \in 1..emits' /\ fate'[v.event] = "dispatched" /\ present'[v.event] = present[v.event]
    BY <1>2, <1>5
  <2>2. w.list # 0 => w.list # wild /\ RegsOf(lists[w.list]) \cap RegsOf(lists[wild]) = {}
    BY <1>1 DEF BusRegistry
  <2>3. w.list \in 0..Len(lists) /\ 1 <= w.index
    BY <1>1
  <2>4. w.at # "wild"
    OBVIOUS
  <2>5. \A v \in Walks' : v \in Walks \/ v = w
    OBVIOUS
  <2>6. ASSUME NEW v \in Walks'
        PROVE  /\ v.event \in 1..emits' /\ fate'[v.event] = "dispatched" /\ 1 <= v.index /\ v.list \in 0..Len(lists)
               /\ v.list # 0 => HeardOf(deliveries.deliveries, v.event) \cap AheadOf(lists[v.list], v.index) = {}
    BY <1>1, <1>4, <2>1, <2>3, <2>5 DEF BusWalks, BusReached, BusApart, BusAhead
  <2>7. ASSUME NEW v \in Walks', v.at = "exact"
        PROVE  /\ HeardOf(deliveries.deliveries, v.event) \cap RegsOf(lists[wild]) = {}
               /\ v.list # 0 => v.list # wild /\ RegsOf(lists[v.list]) \cap RegsOf(lists[wild]) = {}
    BY <1>1, <1>4, <2>2, <2>5, <2>7 DEF BusWalks, BusReached, BusApart, BusAhead
  <2>8. ASSUME NEW v \in Walks', v.at = "wild"
        PROVE  /\ v.list # 0 /\ \A u \in {"a", "b"} : exact[u] # v.list
               /\ present'[v.event] \cap RegsOf(lists[wild]) \subseteq
                    HeardOf(deliveries.deliveries, v.event) \cup AheadOf(lists[v.list], v.index)
    <3>1. v \in Walks
      BY <2>4, <2>5, <2>8
    <3> QED
      BY <1>1, <2>1, <2>8, <3>1 DEF BusWalks, BusReached, BusApart, BusAhead
  <2> QED
    <3>1. BusReached'
      BY <2>6 DEF BusReached
    <3>2. BusApart'
      BY <2>7 DEF BusApart
    <3>3. BusAhead'
      BY <2>8 DEF BusAhead
    <3> QED
      BY <3>1, <3>2, <3>3 DEF BusWalks
<1>7. BusHeard'
  <2>1. \A i \in 1..emits' : \A r \in present'[i] : r < next
    <3> SUFFICES ASSUME NEW i \in 1..emits', i # e PROVE \A r \in present'[i] : r < next
      OBVIOUS
    <3>1. i \in 1..emits /\ present'[i] = present[i]
      OBVIOUS
    <3> QED
      BY <1>1, <3>1 DEF BusHeard
  <2>2. \A i, j \in DOMAIN deliveries.deliveries : deliveries.deliveries[i] = deliveries.deliveries[j] => i = j
    BY <1>1 DEF BusHeard
  <2>3. \A i \in DOMAIN deliveries.deliveries :
          LET d == deliveries.deliveries[i] IN d.event \in 1..emits' /\ fate'[d.event] = "dispatched" /\ d.reg < next
    BY <1>1, <1>2 DEF BusHeard
  <2>4. \A i \in 1..emits' : fate'[i] = "dispatched" /\ (\A v \in Walks' : v.event # i) =>
          present'[i] \cap RegsOf(lists[wild]) \subseteq HeardOf(deliveries.deliveries, i)
    <3> SUFFICES ASSUME NEW i \in 1..emits', fate'[i] = "dispatched", \A v \in Walks' : v.event # i
                 PROVE  present'[i] \cap RegsOf(lists[wild]) \subseteq HeardOf(deliveries.deliveries, i)
      OBVIOUS
    <3>1. i # e
      OBVIOUS
    <3>2. i \in 1..emits /\ fate[i] = "dispatched" /\ present'[i] = present[i] /\ \A v \in Walks : v.event # i
      BY <3>1
    <3> QED
      BY <1>1, <3>2 DEF BusHeard
  <2> QED
    BY <2>1, <2>2, <2>3, <2>4 DEF BusHeard
<1> QED
  BY <1>3, <1>5, <1>6, <1>7

\* The sequences that grow with an event.
LEMMA OneMoreEvent ==
    ASSUME NEW S, NEW q \in Seq(S), NEW x \in S
    PROVE  LET p == Append(q, x)
           IN  /\ p \in Seq(S) /\ Len(p) = Len(q) + 1 /\ p[Len(q) + 1] = x
               /\ \A i \in 1..Len(q) : p[i] = q[i]
BY AppendProperties

\* The registrations for a type were all made.
LEMMA RegsForType ==
    ASSUME NEW s \in BusSetups, BusInv, NEW t \in {"a", "b"}
    PROVE  Bus(s)!RegsFor(t) \in SUBSET Nat /\ \A r \in Bus(s)!RegsFor(t) : r < next
<1>1. \A l \in DOMAIN lists : RegsOf(lists[l]) \subseteq Nat /\ \A r \in RegsOf(lists[l]) : r < next
  BY BusNumbers DEF BusInv, BusRegistry
<1>2. wild \in DOMAIN lists /\ (exact[t] # 0 => exact[t] \in DOMAIN lists)
  <2>1. lists \in Seq(Seq(Registration)) /\ exact[t] \in 0..Len(lists) /\ wild \in DOMAIN lists
    BY DEF BusInv, BusTypes
  <2> QED
    BY <2>1
<1>3. \A l : Bus(s)!Regs(l) = RegsOf(lists[l])
  BY DEF Bus!Regs, RegsOf
<1> QED
  BY <1>1, <1>2, <1>3 DEF Bus!RegsFor

\* emit() in batch mode.
LEMMA BusEmitBatched ==
    ASSUME NEW s \in BusSetups, BusInv, NEW t \in {"a", "b"}, Bus(s)!Emit(t), mode
    PROVE  BusInv'
<1>1. /\ lists' = lists /\ exact' = exact /\ wild' = wild /\ mode' = mode /\ stopped' = stopped /\ intent' = intent
      /\ next' = next /\ calls' = calls /\ dispatches' = dispatches /\ deliveries' = deliveries
      /\ emits' = emits + 1 /\ history' = Append(history, emits')
      /\ batched' = Append(batched, [id |-> emits', type |-> t]) /\ fate' = Append(fate, "batched")
      /\ present' = Append(present, {})
  BY DEF Bus!Emit, Bus!registry
<1> DEFINE x == [id |-> emits + 1, type |-> t]
<1>2. BusTypes /\ BusRegistry /\ BusWaiting /\ BusIntent /\ BusWalks /\ BusHeard
  BY DEF BusInv
<1>3. emits \in Nat /\ emits' \in Nat /\ emits <= emits' /\ emits + 1 \in Nat /\ 1..emits' = 1..emits \cup {emits + 1}
      /\ emits + 1 \notin 1..emits
  <2>1. emits \in Nat /\ emits' = emits + 1
    BY <1>1, <1>2 DEF BusTypes
  <2> QED
    BY <2>1
<1>4. history' \in Seq(Nat) /\ Len(history') = emits'
  BY <1>1, <1>2, <1>3, OneMoreEvent DEF BusTypes
<1>5. /\ fate' \in Seq({"batched", "dispatched", "returned", "dropped"}) /\ Len(fate') = emits'
      /\ fate'[emits + 1] = "batched" /\ \A i \in 1..emits : fate'[i] = fate[i]
  <2>1. fate \in Seq({"batched", "dispatched", "returned", "dropped"}) /\ Len(fate) = emits
        /\ "batched" \in {"batched", "dispatched", "returned", "dropped"}
    BY <1>2 DEF BusTypes
  <2> QED
    BY <1>1, <2>1, OneMoreEvent
<1>6. /\ present' \in Seq(SUBSET Nat) /\ Len(present') = emits'
      /\ present'[emits + 1] = {} /\ \A i \in 1..emits : present'[i] = present[i]
  <2> DEFINE S == SUBSET Nat
  <2>1. present \in Seq(S) /\ Len(present) = emits /\ {} \in S
    BY <1>2 DEF BusTypes
  <2> HIDE DEF S
  <2>2. present' \in Seq(S) /\ Len(present') = emits' /\ present'[emits + 1] = {} /\ \A i \in 1..emits : present'[i] = present[i]
    BY <1>1, <2>1, OneMoreEvent
  <2> QED
    BY <2>2 DEF S
<1>7. /\ batched' \in Seq(Waiting) /\ DOMAIN batched' = 1..(Len(batched) + 1) /\ DOMAIN batched = 1..Len(batched)
      /\ Len(batched) \in Nat
      /\ batched'[Len(batched) + 1] = x /\ \A i \in 1..Len(batched) : batched'[i] = batched[i]
  <2>1. batched \in Seq(Waiting) /\ x \in Waiting
    BY <1>2, <1>3 DEF BusTypes, Waiting
  <2> HIDE DEF x
  <2>2. batched' = Append(batched, x)
    BY <1>1 DEF x
  <2> QED
    BY <2>1, <2>2, OneMoreEvent
<1>8. x.id = emits + 1
  OBVIOUS
<1> HIDE DEF x
<1>9. Walks' = Walks /\ Rests' = Rests
  BY <1>1 DEF Walks, Rests
<1>10. BusRegistry' /\ BusWalks' /\ BusHeard'
  BY <1>1, <1>3, <1>5, <1>6, <1>9, BusIdle
<1>11. BusTypes'
  BY <1>1, <1>2, <1>3, <1>4, <1>5, <1>6, <1>7 DEF BusTypes
<1>12. BusIntent'
  BY <1>1, <1>2, <1>9 DEF BusIntent
<1>13. BusWaiting'
  <2>1. IdsOf(batched') = IdsOf(batched) \cup {emits + 1}
    BY <1>7, <1>8 DEF IdsOf
  <2>2. /\ \A e \in IdsOf(batched) : e \in 1..emits /\ fate[e] = "batched"
        /\ \A q \in Rests : \A e \in IdsOf(q) : e \in 1..emits /\ fate[e] = "batched"
    BY <1>2 DEF BusWaiting
  <2>3. \A i, j \in DOMAIN batched' : batched'[i].id = batched'[j].id => i = j
    <3>1. \A i \in DOMAIN batched : batched[i].id \in IdsOf(batched)
      BY DEF IdsOf
    <3>2. \A i, j \in DOMAIN batched : batched[i].id = batched[j].id => i = j
      BY <1>2 DEF BusWaiting
    <3>3. \A i \in DOMAIN batched' : i \in DOMAIN batched \/ i = Len(batched) + 1
      BY <1>7
    <3> QED
      BY <1>3, <1>7, <1>8, <2>2, <3>1, <3>2, <3>3
  <2>4. \A q \in Rests : IdsOf(q) \cap IdsOf(batched') = {}
    BY <1>2, <1>3, <2>1, <2>2 DEF BusWaiting
  <2>5. \A e \in IdsOf(batched') : e \in 1..emits' /\ fate'[e] = "batched"
    BY <1>3, <1>5, <2>1, <2>2
  <2>6. \A q \in Rests : \A e \in IdsOf(q) : e \in 1..emits' /\ fate'[e] = "batched"
    BY <1>3, <1>5, <2>2
  <2>7. \A e \in 1..emits' : fate'[e] = "batched" => e \in IdsOf(batched') \/ \E q \in Rests : e \in IdsOf(q)
    <3>1. \A e \in 1..emits : fate[e] = "batched" => e \in IdsOf(batched) \/ \E q \in Rests : e \in IdsOf(q)
      BY <1>2 DEF BusWaiting
    <3> QED
      BY <1>3, <1>5, <2>1, <3>1
  <2>8. \A q \in Rests : \A i, j \in DOMAIN q : q[i].id = q[j].id => i = j
    BY <1>2 DEF BusWaiting
  <2> QED
    BY <1>9, <2>3, <2>4, <2>5, <2>6, <2>7, <2>8 DEF BusWaiting
<1> QED
  BY <1>10, <1>11, <1>12, <1>13 DEF BusInv

\* emit() that dispatches.
LEMMA BusEmitDispatched ==
    ASSUME NEW s \in BusSetups, BusInv, NEW t \in {"a", "b"}, Bus(s)!Emit(t), ~mode
    PROVE  BusInv'
<1> DEFINE w == [at |-> "exact", event |-> emits + 1, type |-> t, list |-> exact[t], index |-> 1]
<1>1. /\ lists' = lists /\ exact' = exact /\ wild' = wild /\ mode' = mode /\ stopped' = stopped /\ intent' = intent
      /\ next' = next /\ calls' = calls /\ batched' = batched
      /\ emits' = emits + 1 /\ history' = Append(history, emits')
      /\ dispatches' = <<w>> \o dispatches
      /\ deliveries' = [deliveries EXCEPT !.order = Append(@, emits')] /\ fate' = Append(fate, "dispatched")
      /\ present' = [i \in 1..emits' |-> IF i = emits' THEN Bus(s)!RegsFor(t)
                                         ELSE IF i \in DOMAIN present THEN present[i] ELSE {}]
  BY DEF Bus!Emit, Bus!registry, Bus!Frame, Bus!Dispatched
<1>2. BusTypes /\ BusRegistry /\ BusWaiting /\ BusIntent /\ BusWalks /\ BusHeard
  BY DEF BusInv
<1>3. emits \in Nat /\ emits' \in Nat /\ emits <= emits' /\ 1..emits' = 1..emits \cup {emits + 1}
      /\ emits + 1 \notin 1..emits /\ emits + 1 \in 1..emits'
  <2>1. emits \in Nat /\ emits' = emits + 1
    BY <1>1, <1>2 DEF BusTypes
  <2> QED
    BY <2>1
<1>4. history' \in Seq(Nat) /\ Len(history') = emits'
  BY <1>1, <1>2, <1>3, OneMoreEvent DEF BusTypes
<1>5. /\ fate' \in Seq({"batched", "dispatched", "returned", "dropped"}) /\ Len(fate') = emits'
      /\ fate'[emits + 1] = "dispatched" /\ \A i \in 1..emits : fate'[i] = fate[i]
  <2>1. fate \in Seq({"batched", "dispatched", "returned", "dropped"}) /\ Len(fate) = emits
        /\ "dispatched" \in {"batched", "dispatched", "returned", "dropped"}
    BY <1>2 DEF BusTypes
  <2> QED
    BY <1>1, <2>1, OneMoreEvent
<1>6. /\ present' \in Seq(SUBSET Nat) /\ Len(present') = emits'
      /\ present'[emits + 1] = Bus(s)!RegsFor(t) /\ \A i \in 1..emits : present'[i] = present[i]
  <2> DEFINE S == SUBSET Nat
  <2>1. present \in Seq(S) /\ Len(present) = emits /\ Bus(s)!RegsFor(t) \in S
    BY <1>2, RegsForType DEF BusTypes
  <2> HIDE DEF S
  <2>2. DOMAIN present = 1..emits /\ \A i \in 1..emits : present[i] \in S
    BY <2>1, ElementOfSeq
  <2>3. present'[emits + 1] = Bus(s)!RegsFor(t) /\ \A i \in 1..emits : present'[i] = present[i]
    BY <1>1, <1>3, <2>2
  <2>4. present' \in [1..emits' -> S]
    BY <1>1, <1>3, <2>1, <2>2
  <2>5. present' \in Seq(S)
    BY <1>3, <2>4, SeqDef
  <2>6. Len(present') = emits'
    BY <1>3, <2>4, <2>5
  <2> QED
    BY <2>3, <2>5, <2>6 DEF S
<1>7. deliveries'.deliveries = deliveries.deliveries /\ deliveries' \in [deliveries: Seq([event: Nat, reg: Nat]), order: Seq(Nat)]
  <2>1. /\ deliveries.deliveries \in Seq([event: Nat, reg: Nat]) /\ deliveries.order \in Seq(Nat)
        /\ deliveries = [deliveries |-> deliveries.deliveries, order |-> deliveries.order]
    BY <1>2, DeliveriesAreTyped
  <2>2. deliveries' = [deliveries |-> deliveries.deliveries, order |-> Append(deliveries.order, emits')]
    BY <1>1, <2>1
  <2>3. Append(deliveries.order, emits') \in Seq(Nat)
    BY <1>3, <2>1, OneMoreEvent
  <2> QED
    BY <2>1, <2>2, <2>3
<1>8. /\ w \in Walk /\ w.at = "exact" /\ w.event = emits + 1 /\ w.list = exact[t] /\ w.index = 1
  BY <1>2, <1>3 DEF Walk, BusTypes
<1> HIDE DEF w
<1>9. /\ StackOk(dispatches') /\ Walks' = Walks \cup {w} /\ Rests' = Rests
  <2>1. StackOk(dispatches)
    BY <1>2 DEF BusTypes
  <2>2. \A v \in WalksOf(dispatches) : v.event # w.event
    BY <1>2, <1>3, <1>8 DEF BusWalks, BusReached, BusApart, BusAhead, Walks
  <2>3. w \notin Flushing
    BY <1>8 DEF Flushing
  <2>4. /\ StackOk(dispatches')
        /\ WalksOf(dispatches') = WalksOf(dispatches) \cup {w} /\ RestsOf(dispatches') = RestsOf(dispatches)
    BY <1>1, <1>8, <2>1, <2>2, <2>3, FramePushed
  <2> QED
    BY <2>4 DEF Walks, Rests
<1>10. BusRegistry' /\ BusWalks' /\ BusHeard'
  <2>1. \A r \in present'[emits + 1] : r < next
    BY <1>6, RegsForType
  <2>2. \A i \in 1..emits' : i # emits + 1 => i \in 1..emits /\ present'[i] = present[i] /\ fate'[i] = fate[i]
    BY <1>3, <1>5, <1>6
  <2> QED
    BY <1>1, <1>3, <1>5, <1>7, <1>8, <1>9, <2>1, <2>2, BusBegins
<1>11. BusTypes'
  BY <1>1, <1>2, <1>3, <1>4, <1>5, <1>6, <1>7, <1>9 DEF BusTypes
<1>12. BusIntent'
  BY <1>1, <1>2, <1>9 DEF BusIntent
<1>13. BusWaiting'
  <2>1. \A e \in IdsOf(batched) : e \in 1..emits' /\ fate'[e] = "batched"
    BY <1>2, <1>3, <1>5 DEF BusWaiting
  <2>2. \A q \in Rests : \A e \in IdsOf(q) : e \in 1..emits' /\ fate'[e] = "batched"
    BY <1>2, <1>3, <1>5 DEF BusWaiting
  <2>3. \A e \in 1..emits' : fate'[e] = "batched" => e \in IdsOf(batched) \/ \E q \in Rests : e \in IdsOf(q)
    BY <1>2, <1>3, <1>5 DEF BusWaiting
  <2> QED
    BY <1>1, <1>2, <1>9, <2>1, <2>2, <2>3 DEF BusWaiting
<1> QED
  BY <1>10, <1>11, <1>12, <1>13 DEF BusInv

\* start_batch() and stop_batch(): the events that were batched are dropped or returned.
LEMMA BusBatchTurned ==
    ASSUME NEW s \in BusSetups, BusInv, NEW on \in BOOLEAN,
           UNCHANGED <<lists, exact, wild, history, dispatches, next, emits, deliveries, present>>,
           calls' = calls + 1, mode' = on, intent' = on, stopped' = ~on, batched' = << >>,
           fate' = Bus(s)!Fated(Bus(s)!Ids(batched), IF on THEN "dropped" ELSE "returned")
    PROVE  BusInv'
<1>1. BusTypes /\ BusRegistry /\ BusWaiting /\ BusIntent /\ BusWalks /\ BusHeard
  BY DEF BusInv
<1>2. Walks' = Walks /\ Rests' = Rests
  BY DEF Walks, Rests
<1> DEFINE F == {"batched", "dispatched", "returned", "dropped"}
           x == IF on THEN "dropped" ELSE "returned"
<1>3. fate \in Seq(F) /\ DOMAIN fate = 1..emits /\ emits \in Nat /\ \A i \in 1..emits : fate[i] \in F
  <2>1. fate \in Seq(F) /\ Len(fate) = emits
    BY <1>1 DEF BusTypes
  <2> HIDE DEF F
  <2> QED
    BY <2>1, ElementOfSeq
<1>4. /\ fate' \in Seq(F) /\ Len(fate') = emits
      /\ \A e \in 1..emits : fate'[e] = IF e \in IdsOf(batched) THEN x ELSE fate[e]
  <2>1. fate' = [e \in 1..emits |-> IF e \in IdsOf(batched) THEN x ELSE fate[e]]
    BY <1>3 DEF Bus!Fated, Bus!Ids, IdsOf
  <2>2. x \in F
    OBVIOUS
  <2> HIDE DEF F, x
  <2>3. fate' \in [1..emits -> F]
    BY <1>3, <2>1, <2>2
  <2>4. fate' \in Seq(F)
    BY <1>3, <2>3, SeqDef
  <2>5. Len(fate') = emits
    BY <1>3, <2>3, <2>4
  <2> QED
    BY <2>1, <2>4, <2>5
<1>5. x # "batched" /\ x # "dispatched"
  OBVIOUS
<1>6. \A e \in IdsOf(batched) : fate[e] = "batched"
  BY <1>1 DEF BusWaiting
<1> HIDE DEF x
<1>7. BusRegistry' /\ BusWalks' /\ BusHeard'
  <2>1. \A e \in 1..emits : fate'[e] = "dispatched" <=> fate[e] = "dispatched"
    BY <1>4, <1>5, <1>6
  <2> QED
    BY <1>2, <1>3, <2>1, BusIdle
<1>8. BusTypes'
  <2>1. << >> \in Seq(Waiting) /\ calls' \in Nat
    BY <1>1 DEF BusTypes
  <2> QED
    BY <1>1, <1>4, <2>1 DEF BusTypes
<1>9. BusIntent'
  BY <1>2 DEF BusIntent
<1>10. BusWaiting'
  <2>1. IdsOf(batched') = {} /\ DOMAIN batched' = {}
    BY DEF IdsOf
  <2>2. \A q \in Rests : \A e \in IdsOf(q) : e \in 1..emits /\ fate'[e] = "batched"
    BY <1>1, <1>4 DEF BusWaiting
  <2>3. \A e \in 1..emits : fate'[e] = "batched" => \E q \in Rests : e \in IdsOf(q)
    BY <1>1, <1>4, <1>5 DEF BusWaiting
  <2>4. \A q \in Rests : \A i, j \in DOMAIN q : q[i].id = q[j].id => i = j
    BY <1>1 DEF BusWaiting
  <2> QED
    BY <1>2, <2>1, <2>2, <2>3, <2>4 DEF BusWaiting
<1> QED
  BY <1>7, <1>8, <1>9, <1>10 DEF BusInv

\* The listener that ran returns to its dispatch.
LEMMA BusReturn ==
    ASSUME NEW s \in BusSetups, BusInv, Bus(s)!Return
    PROVE  BusInv'
<1> DEFINE h == Head(dispatches)
<1>1. /\ UNCHANGED <<lists, exact, wild, mode, stopped, batched, intent, history, next, calls, emits, deliveries, fate, present>>
      /\ dispatches # << >> /\ h.at = "callback" /\ dispatches' = <<h.back>> \o Tail(dispatches)
  BY DEF Bus!Return, Bus!Running, Bus!Top, Bus!Set, Bus!registry, Bus!batch, Bus!ghosts
<1>2. BusTypes /\ BusRegistry /\ BusWaiting /\ BusIntent /\ BusWalks /\ BusHeard /\ StackOk(dispatches)
  BY DEF BusInv, BusTypes
<1>3. h = dispatches[1] /\ 1 \in DOMAIN dispatches
  BY <1>1, <1>2, EmptySeq DEF StackOk
<1>4. h \in Calling /\ h.event = h.back.event
  <2>1. h \in Walk \/ h \in Calling \/ h \in Flushing
    BY <1>2, <1>3, WalksAreTyped
  <2> QED
    BY <1>1, <1>2, <1>3, <2>1 DEF Walk, Calling, Flushing, StackOk
<1>5. h.back \in Walk /\ h.back.at # "callback" /\ h.back.at # "flush" /\ WalkOf(h.back) = h.back /\ WalkOf(h) = h.back
  BY <1>1, <1>4 DEF Walk, Calling, WalkOf
<1>6. StackOk(dispatches') /\ Walks' = Walks /\ Rests' = Rests
  <2> HIDE DEF h
  <2>1. /\ StackOk(dispatches')
        /\ WalksOf(dispatches') = (WalksOf(dispatches) \ {h.back}) \cup {h.back} /\ h.back \in WalksOf(dispatches)
        /\ RestsOf(dispatches') = RestsOf(dispatches)
    BY <1>1, <1>2, <1>5, FrameSwapped DEF h
  <2> QED
    BY <2>1 DEF Walks, Rests
<1> HIDE DEF h
<1>7. BusRegistry' /\ BusWalks' /\ BusHeard'
  <2>1. emits \in Nat
    BY <1>2 DEF BusTypes
  <2> QED
    BY <1>1, <1>6, <2>1, BusIdle
<1>8. BusTypes' /\ BusIntent' /\ BusWaiting'
  BY <1>1, <1>2, <1>6 DEF BusTypes, BusIntent, BusWaiting
<1> QED
  BY <1>7, <1>8 DEF BusInv

\* flush_batch(): what was batched waits in the flush, and batch mode is off until its end.
LEMMA BusFlushBatch ==
    ASSUME NEW s \in BusSetups, BusInv, Bus(s)!FlushBatch
    PROVE  BusInv'
<1>1. /\ UNCHANGED <<lists, exact, wild, intent, history, next, emits, deliveries, fate, present>> /\ calls' = calls + 1
  BY DEF Bus!FlushBatch, Bus!MayCall, Bus!registry, Bus!ghosts
<1>2. BusTypes /\ BusRegistry /\ BusWaiting /\ BusIntent /\ BusWalks /\ BusHeard /\ StackOk(dispatches)
      /\ emits \in Nat /\ calls' \in Nat
  BY <1>1 DEF BusInv, BusTypes
<1>3. CASE mode
  <2> DEFINE f == [at |-> "flush", rest |-> batched]
  <2>1. batched' = << >> /\ mode' = FALSE /\ stopped' = FALSE /\ dispatches' = <<f>> \o dispatches
    BY <1>3 DEF Bus!FlushBatch
  <2>2. f \in Flushing /\ f \notin Walk /\ f.rest = batched
    BY <1>2 DEF Flushing, Walk, BusTypes
  <2> HIDE DEF f
  <2>3. StackOk(dispatches') /\ Walks' = Walks /\ Rests' = Rests \cup {batched}
    <3>1. \A q \in RestsOf(dispatches) : IdsOf(q) \cap IdsOf(batched) = {}
      BY <1>2 DEF BusWaiting, Rests
    <3>2. /\ StackOk(dispatches') /\ WalksOf(dispatches') = WalksOf(dispatches)
          /\ RestsOf(dispatches') = RestsOf(dispatches) \cup {batched}
      BY <1>2, <2>1, <2>2, <3>1, FramePushed
    <3> QED
      BY <3>2 DEF Walks, Rests
  <2>4. BusRegistry' /\ BusWalks' /\ BusHeard'
    BY <1>1, <1>2, <2>3, BusIdle
  <2>5. BusTypes'
    <3>1. << >> \in Seq(Waiting)
      OBVIOUS
    <3> QED
      BY <1>1, <1>2, <2>1, <2>3, <3>1 DEF BusTypes
  <2>6. BusIntent'
    <3>1. intent = TRUE
      BY <1>2, <1>3 DEF BusIntent
    <3> QED
      BY <1>1, <2>1, <2>3, <3>1 DEF BusIntent
  <2>7. BusWaiting'
    <3>1. IdsOf(batched') = {} /\ DOMAIN batched' = {}
      BY <2>1 DEF IdsOf
    <3>2. \A q \in Rests' : q \in Rests \/ q = batched
      BY <2>3
    <3>3. /\ \A q \in Rests' : \A i, j \in DOMAIN q : q[i].id = q[j].id => i = j
          /\ \A q \in Rests' : \A e \in IdsOf(q) : e \in 1..emits /\ fate[e] = "batched"
      BY <1>2, <3>2 DEF BusWaiting
    <3>4. \A e \in 1..emits : fate[e] = "batched" => \E q \in Rests' : e \in IdsOf(q)
      BY <1>2, <2>3 DEF BusWaiting
    <3> QED
      BY <1>1, <3>1, <3>3, <3>4 DEF BusWaiting
  <2> QED
    BY <2>4, <2>5, <2>6, <2>7 DEF BusInv
<1>4. CASE ~mode
  <2>1. UNCHANGED <<batched, mode, stopped, dispatches>>
    BY <1>4 DEF Bus!FlushBatch
  <2>2. Walks' = Walks /\ Rests' = Rests
    BY <2>1 DEF Walks, Rests
  <2>3. BusRegistry' /\ BusWalks' /\ BusHeard'
    BY <1>1, <1>2, <2>2, BusIdle
  <2>4. BusTypes' /\ BusIntent' /\ BusWaiting'
    BY <1>1, <1>2, <2>1, <2>2 DEF BusTypes, BusIntent, BusWaiting
  <2> QED
    BY <2>3, <2>4 DEF BusInv
<1> QED
  BY <1>3, <1>4

\* The end of a flush restores batch mode unless stop_batch was called meanwhile.
LEMMA BusFlushEnd ==
    ASSUME NEW s \in BusSetups, BusInv, Bus(s)!FlushEnd
    PROVE  BusInv'
<1> DEFINE h == Head(dispatches)
<1>1. /\ UNCHANGED <<lists, exact, wild, stopped, batched, intent, history, next, calls, emits, deliveries, fate, present>>
      /\ dispatches # << >> /\ h.at = "flush" /\ h.rest = << >> /\ dispatches' = Tail(dispatches)
      /\ mode' = (mode \/ ~stopped)
  BY DEF Bus!FlushEnd, Bus!Top, Bus!registry, Bus!ghosts
<1>2. BusTypes /\ BusRegistry /\ BusWaiting /\ BusIntent /\ BusWalks /\ BusHeard /\ StackOk(dispatches) /\ emits \in Nat
  BY DEF BusInv, BusTypes
<1>3. StackOk(dispatches') /\ Walks' = Walks /\ Rests = Rests' \cup {<< >>}
  <2>1. StackOk(dispatches') /\ WalksOf(dispatches') = WalksOf(dispatches) /\ RestsOf(dispatches) = RestsOf(dispatches') \cup {h.rest}
    BY <1>1, <1>2, FramePopped
  <2> QED
    BY <1>1, <2>1 DEF Walks, Rests
<1>4. BusRegistry' /\ BusWalks' /\ BusHeard'
  BY <1>1, <1>2, <1>3, BusIdle
<1>5. BusTypes'
  BY <1>1, <1>2, <1>3 DEF BusTypes
<1>6. BusIntent'
  <2>1. intent = (mode \/ ~stopped) /\ mode \in BOOLEAN /\ stopped \in BOOLEAN
    BY <1>2, <1>3 DEF BusIntent, BusTypes
  <2>2. intent' = mode' /\ (mode' \/ ~stopped') = mode'
    BY <1>1, <2>1
  <2> QED
    BY <2>2 DEF BusIntent
<1>7. BusWaiting'
  <2>1. IdsOf(<< >>) = {}
    BY DEF IdsOf
  <2>2. Rests' \subseteq Rests /\ \A q \in Rests : IdsOf(q) # {} => q \in Rests'
    BY <1>3, <2>1
  <2>3. \A e \in 1..emits : fate[e] = "batched" => e \in IdsOf(batched) \/ \E q \in Rests' : e \in IdsOf(q)
    BY <1>2, <2>2 DEF BusWaiting
  <2> QED
    BY <1>1, <1>2, <2>2, <2>3 DEF BusWaiting
<1> QED
  BY <1>4, <1>5, <1>6, <1>7 DEF BusInv

\* Two frames on top of a stack are one on top of the other.
LEMMA TwoFrames ==
    ASSUME NEW S, NEW s \in Seq(S), NEW f \in S, NEW g \in S
    PROVE  <<f, g>> \o s = <<f>> \o (<<g>> \o s)
<1> DEFINE t == <<g>> \o s
<1>1. t \in Seq(S) /\ Len(t) = Len(s) + 1 /\ t[1] = g /\ \A i \in 1..Len(s) : t[i + 1] = s[i]
  BY StackPush
<1> HIDE DEF t
<1> DEFINE u == <<f>> \o t
<1>2. u \in Seq(S) /\ Len(u) = Len(t) + 1 /\ u[1] = f /\ \A i \in 1..Len(t) : u[i + 1] = t[i]
  BY <1>1, StackPush
<1> HIDE DEF u
<1> DEFINE p == <<f, g>>
           v == p \o s
<1>3. p \in Seq(S) /\ Len(p) = 2 /\ p[1] = f /\ p[2] = g
  OBVIOUS
<1> HIDE DEF p
<1>4. /\ v \in Seq(S) /\ Len(v) = 2 + Len(s) /\ v[1] = f /\ v[2] = g
      /\ \A i \in 1..Len(s) : v[i + 2] = s[i]
  <2>0. /\ p \o s \in Seq(S) /\ Len(p \o s) = Len(p) + Len(s)
        /\ \A i \in 1..Len(p) + Len(s) : (p \o s)[i] = IF i <= Len(p) THEN p[i] ELSE s[i - Len(p)]
    BY <1>3, ConcatProperties
  <2>1. v \in Seq(S) /\ Len(v) = 2 + Len(s) /\ \A i \in 1..Len(v) : v[i] = IF i <= 2 THEN p[i] ELSE s[i - 2]
    BY <1>3, <2>0
  <2>2. Len(s) \in Nat
    OBVIOUS
  <2> HIDE DEF v
  <2>3. \A i \in 1..Len(s) : i + 2 \in 1..Len(v) /\ ~(i + 2 <= 2) /\ (i + 2) - 2 = i
    BY <2>1, <2>2
  <2>4. 1 \in 1..Len(v) /\ 2 \in 1..Len(v) /\ 1 <= 2 /\ 2 <= 2
    BY <2>1, <2>2
  <2> QED
    BY <1>3, <2>1, <2>3, <2>4
<1> HIDE DEF v
<1>5. Len(u) = Len(v) /\ Len(s) \in Nat
  BY <1>1, <1>2, <1>4
<1>6. ASSUME NEW i \in 1..Len(u)
      PROVE  u[i] = v[i]
  <2>1. CASE i = 1
    BY <1>2, <1>4, <2>1
  <2>2. CASE i = 2
    <3>1. 1 \in 1..Len(t) /\ 1 + 1 = 2
      BY <1>1, <1>5
    <3> QED
      BY <1>1, <1>2, <1>4, <2>2, <3>1
  <2>3. CASE i # 1 /\ i # 2
    <3>1. i - 2 \in 1..Len(s) /\ i - 1 \in 1..Len(t) /\ (i - 1) + 1 = i /\ (i - 2) + 2 = i /\ (i - 2) + 1 = i - 1
      BY <1>1, <1>2, <1>5, <2>3
    <3>2. u[i] = t[i - 1] /\ t[i - 1] = s[i - 2] /\ v[i] = s[i - 2]
      BY <1>1, <1>2, <1>4, <3>1
    <3> QED
      BY <3>2
  <2> QED
    BY <2>1, <2>2, <2>3
<1>7. u = v
  BY <1>2, <1>4, <1>5, <1>6, SeqEqual
<1> QED
  BY <1>7 DEF u, v, t, p

\* What is left of the events that wait once, after the first.
LEMMA WaitingAfterFirst ==
    ASSUME NEW q \in Seq(Waiting), q # << >>, \A i, j \in DOMAIN q : q[i].id = q[j].id => i = j
    PROVE  /\ Head(q) \in Waiting /\ Tail(q) \in Seq(Waiting)
           /\ IdsOf(Tail(q)) = IdsOf(q) \ {Head(q).id} /\ Head(q).id \in IdsOf(q)
           /\ \A i, j \in DOMAIN Tail(q) : Tail(q)[i].id = Tail(q)[j].id => i = j
<1> DEFINE t == Tail(q)
<1>1. t \in Seq(Waiting) /\ Len(t) = Len(q) - 1 /\ \A i \in 1..Len(t) : t[i] = q[i + 1]
  BY StackPop
<1>2. DOMAIN q = 1..Len(q) /\ Len(q) \in Nat /\ Len(q) >= 1 /\ Head(q) = q[1] /\ 1 \in DOMAIN q
  BY EmptySeq
<1> HIDE DEF t
<1>3. DOMAIN t = 1..(Len(q) - 1)
  BY <1>1
<1>4. Head(q) \in Waiting
  BY <1>2, ElementOfSeq
<1>5. \A i \in DOMAIN t : i + 1 \in DOMAIN q /\ t[i] = q[i + 1] /\ i + 1 # 1
  BY <1>1, <1>2, <1>3
<1>6. \A i \in DOMAIN q : i # 1 => i - 1 \in DOMAIN t /\ q[i] = t[i - 1]
  <2> SUFFICES ASSUME NEW i \in DOMAIN q, i # 1 PROVE i - 1 \in DOMAIN t /\ q[i] = t[i - 1]
    OBVIOUS
  <2>1. i - 1 \in 1..(Len(q) - 1) /\ (i - 1) + 1 = i
    BY <1>2
  <2> QED
    BY <1>1, <1>3, <2>1
<1>7. \A i, j \in DOMAIN t : i + 1 = j + 1 => i = j
  BY <1>2, <1>3
<1>8. IdsOf(t) = IdsOf(q) \ {q[1].id} /\ q[1].id \in IdsOf(q)
  <2>1. \A e \in IdsOf(t) : e \in IdsOf(q) /\ e # q[1].id
    BY <1>2, <1>5 DEF IdsOf
  <2>2. \A e \in IdsOf(q) : e # q[1].id => e \in IdsOf(t)
    BY <1>6 DEF IdsOf
  <2>3. q[1].id \in IdsOf(q)
    BY <1>2 DEF IdsOf
  <2> QED
    BY <2>1, <2>2, <2>3
<1>9. \A i, j \in DOMAIN t : t[i].id = t[j].id => i = j
  BY <1>5, <1>7
<1> QED
  BY <1>1, <1>2, <1>4, <1>8, <1>9 DEF t

\* The flush dispatches the first event that it has left.
LEMMA BusFlushNext ==
    ASSUME NEW s \in BusSetups, BusInv, Bus(s)!FlushNext
    PROVE  BusInv'
<1> DEFINE h == Head(dispatches)
           q == h.rest
           e == Head(q).id
           t == Head(q).type
           w == [at |-> "exact", event |-> e, type |-> t, list |-> exact[t], index |-> 1]
           g == [at |-> "flush", rest |-> Tail(q)]
           d == <<g>> \o Tail(dispatches)
<1>1. /\ UNCHANGED <<lists, exact, wild, mode, stopped, batched, intent, history, next, calls, emits>>
      /\ dispatches # << >> /\ h.at = "flush" /\ q # << >> /\ dispatches' = <<w, g>> \o Tail(dispatches)
      /\ fate' = Bus(s)!Fated({e}, "dispatched")
      /\ deliveries' = [deliveries EXCEPT !.order = Append(@, e)]
      /\ present' = [i \in 1..emits' |-> IF i = e THEN Bus(s)!RegsFor(t)
                                         ELSE IF i \in DOMAIN present THEN present[i] ELSE {}]
  BY DEF Bus!FlushNext, Bus!Top, Bus!Frame, Bus!Dispatched, Bus!registry, Bus!batch
<1>2. BusTypes /\ BusRegistry /\ BusWaiting /\ BusIntent /\ BusWalks /\ BusHeard /\ StackOk(dispatches) /\ emits \in Nat
  BY DEF BusInv, BusTypes
<1>3. h = dispatches[1] /\ 1 \in DOMAIN dispatches
  BY <1>1, <1>2, EmptySeq DEF StackOk
<1>4. h \in Flushing /\ q \in Seq(Waiting) /\ q \in Rests
  <2>1. 1 \in InFlushes(dispatches)
    BY <1>1, <1>3 DEF InFlushes
  <2>2. h \in Flushing /\ q \in Seq(Waiting)
    BY <1>2, <1>3, <2>1, WalksAreTyped
  <2>3. q \in Rests
    BY <1>3, <2>1 DEF Rests, RestsOf
  <2> QED
    BY <2>2, <2>3
<1>5. \A i, j \in DOMAIN q : q[i].id = q[j].id => i = j
  BY <1>2, <1>4 DEF BusWaiting
<1> HIDE DEF h, q
<1>6. /\ Head(q) \in Waiting /\ Tail(q) \in Seq(Waiting) /\ IdsOf(Tail(q)) = IdsOf(q) \ {e} /\ e \in IdsOf(q)
      /\ \A i, j \in DOMAIN Tail(q) : Tail(q)[i].id = Tail(q)[j].id => i = j
  BY <1>1, <1>4, <1>5, WaitingAfterFirst
<1>7. e \in 1..emits /\ fate[e] = "batched" /\ e \in Nat /\ t \in {"a", "b"}
  <2>1. e \in 1..emits /\ fate[e] = "batched"
    BY <1>2, <1>4, <1>6 DEF BusWaiting
  <2> QED
    BY <1>6, <2>1 DEF Waiting
<1>8. w \in Walk /\ w.at = "exact" /\ w.event = e /\ w.list = exact[t] /\ w.index = 1
  BY <1>2, <1>7 DEF Walk, BusTypes
<1>9. g \in Flushing /\ g.at = "flush" /\ g.rest = Tail(q)
  BY <1>6 DEF Flushing
<1> HIDE DEF e, t, w, g
<1>10. /\ StackOk(d) /\ WalksOf(d) = Walks /\ RestsOf(d) = (Rests \ {q}) \cup {Tail(q)}
       /\ \A p \in Rests \ {q} : IdsOf(p) \cap IdsOf(q) = {}
  <2>1. /\ StackOk(d) /\ WalksOf(d) = WalksOf(dispatches)
        /\ RestsOf(d) = (RestsOf(dispatches) \ {q}) \cup {Tail(q)}
        /\ \A p \in RestsOf(dispatches) \ {q} : IdsOf(p) \cap IdsOf(q) = {}
    <3>1. IdsOf(g.rest) \subseteq IdsOf(q) /\ IdsOf(q) # {}
      BY <1>6, <1>9
    <3> QED
      BY <1>1, <1>2, <1>9, <3>1, FrameSwapped DEF h, q
  <2> QED
    BY <2>1 DEF Walks, Rests
<1>11. dispatches' = <<w>> \o d
  <2> DEFINE F == Walk \cup Calling \cup Flushing
  <2>1. dispatches \in Seq(F) /\ w \in F /\ g \in F
    BY <1>2, <1>8, <1>9 DEF StackOk
  <2> HIDE DEF F
  <2>2. Tail(dispatches) \in Seq(F)
    BY <1>1, <2>1, StackPop
  <2>3. <<w, g>> \o Tail(dispatches) = <<w>> \o (<<g>> \o Tail(dispatches))
    BY <2>1, <2>2, TwoFrames
  <2> QED
    BY <1>1, <2>3
<1> HIDE DEF d
<1>12. \A v \in Walks : v.event # e
  BY <1>2, <1>7 DEF BusWalks, BusReached, BusApart, BusAhead
<1>13. StackOk(dispatches') /\ Walks' = Walks \cup {w} /\ Rests' = (Rests \ {q}) \cup {Tail(q)}
  <2>1. w \notin Flushing
    BY <1>8 DEF Flushing
  <2>2. \A v \in WalksOf(d) : v.event # w.event
    BY <1>8, <1>10, <1>12
  <2>3. /\ StackOk(dispatches') /\ WalksOf(dispatches') = WalksOf(d) \cup {w} /\ RestsOf(dispatches') = RestsOf(d)
    BY <1>8, <1>10, <1>11, <2>1, <2>2, FramePushed
  <2> QED
    BY <1>10, <2>3 DEF Walks, Rests
<1>14. /\ fate' \in Seq({"batched", "dispatched", "returned", "dropped"}) /\ Len(fate') = emits
       /\ fate'[e] = "dispatched" /\ \A i \in 1..emits : i # e => fate'[i] = fate[i]
  <2> DEFINE F == {"batched", "dispatched", "returned", "dropped"}
  <2>1. fate \in Seq(F) /\ Len(fate) = emits /\ "dispatched" \in F
    BY <1>2 DEF BusTypes
  <2> HIDE DEF F
  <2>2. DOMAIN fate = 1..emits /\ \A i \in 1..emits : fate[i] \in F
    BY <2>1, ElementOfSeq
  <2>3. fate' = [i \in 1..emits |-> IF i \in {e} THEN "dispatched" ELSE fate[i]]
    BY <1>1, <2>2 DEF Bus!Fated
  <2>4. fate' \in [1..emits -> F]
    BY <2>1, <2>2, <2>3
  <2>5. fate' \in Seq(F)
    BY <1>2, <2>4, SeqDef
  <2>6. Len(fate') = emits
    BY <1>2, <2>4, <2>5
  <2> QED
    BY <1>7, <2>3, <2>5, <2>6 DEF F
<1>15. /\ present' \in Seq(SUBSET Nat) /\ Len(present') = emits
       /\ present'[e] = Bus(s)!RegsFor(t) /\ \A i \in 1..emits : i # e => present'[i] = present[i]
  <2> DEFINE S == SUBSET Nat
  <2>1. present \in Seq(S) /\ Len(present) = emits /\ Bus(s)!RegsFor(t) \in S
    BY <1>2, <1>7, RegsForType DEF BusTypes
  <2> HIDE DEF S
  <2>2. DOMAIN present = 1..emits /\ \A i \in 1..emits : present[i] \in S
    BY <2>1, ElementOfSeq
  <2>3. present' = [i \in 1..emits |-> IF i = e THEN Bus(s)!RegsFor(t) ELSE present[i]]
    BY <1>1, <2>2
  <2>4. present' \in [1..emits -> S]
    BY <2>1, <2>2, <2>3
  <2>5. present' \in Seq(S)
    BY <1>2, <2>4, SeqDef
  <2>6. Len(present') = emits
    BY <1>2, <2>4, <2>5
  <2> QED
    BY <1>7, <2>3, <2>5, <2>6 DEF S
<1>16. deliveries'.deliveries = deliveries.deliveries /\ deliveries' \in [deliveries: Seq([event: Nat, reg: Nat]), order: Seq(Nat)]
  <2>1. /\ deliveries.deliveries \in Seq([event: Nat, reg: Nat]) /\ deliveries.order \in Seq(Nat)
        /\ deliveries = [deliveries |-> deliveries.deliveries, order |-> deliveries.order]
    BY <1>2, DeliveriesAreTyped
  <2>2. deliveries' = [deliveries |-> deliveries.deliveries, order |-> Append(deliveries.order, e)]
    BY <1>1, <2>1
  <2>3. Append(deliveries.order, e) \in Seq(Nat)
    BY <1>7, <2>1, OneMoreEvent
  <2> QED
    BY <2>1, <2>2, <2>3
<1>17. BusRegistry' /\ BusWalks' /\ BusHeard'
  <2>1. \A r \in present'[e] : r < next
    BY <1>7, <1>15, RegsForType
  <2>2. \A i \in 1..emits' : i # e => i \in 1..emits /\ present'[i] = present[i] /\ fate'[i] = fate[i]
    BY <1>1, <1>14, <1>15
  <2>3. emits' \in Nat /\ emits <= emits' /\ e \in 1..emits' /\ fate[e] # "dispatched"
    BY <1>1, <1>2, <1>7
  <2> QED
    <3>1. UNCHANGED <<lists, exact, wild, next>>
      BY <1>1
    <3>2. Walks' = Walks \cup {w} /\ deliveries'.deliveries = deliveries.deliveries /\ fate'[e] = "dispatched"
      BY <1>13, <1>14, <1>16
    <3>3. t \in {"a", "b"}
      BY <1>7
    <3> QED
      BY <1>8, <2>1, <2>2, <2>3, <3>1, <3>2, <3>3, BusBegins
<1>18. BusTypes'
  BY <1>1, <1>2, <1>13, <1>14, <1>15, <1>16 DEF BusTypes
<1>19. BusIntent'
  <2>1. Rests # {} /\ Rests' # {}
    BY <1>4, <1>13
  <2> QED
    BY <1>1, <1>2, <2>1 DEF BusIntent
<1>20. BusWaiting'
  <2>1. /\ \A p \in Rests \ {q} : e \notin IdsOf(p)
        /\ e \notin IdsOf(batched) /\ e \notin IdsOf(Tail(q))
        /\ IdsOf(Tail(q)) \subseteq IdsOf(q)
    BY <1>2, <1>4, <1>6, <1>10 DEF BusWaiting
  <2>2. \A p \in Rests' : p \in Rests \ {q} \/ p = Tail(q)
    BY <1>13
  <2>3. \A p \in Rests' : \A i, j \in DOMAIN p : p[i].id = p[j].id => i = j
    BY <1>2, <1>6, <2>2 DEF BusWaiting
  <2>4. \A p \in Rests' : IdsOf(p) \cap IdsOf(batched) = {}
    BY <1>2, <1>4, <2>1, <2>2 DEF BusWaiting
  <2>5. \A i \in IdsOf(batched) : i \in 1..emits /\ fate'[i] = "batched"
    BY <1>2, <1>14, <2>1 DEF BusWaiting
  <2>6. \A p \in Rests' : \A i \in IdsOf(p) : i \in 1..emits /\ fate'[i] = "batched"
    <3> SUFFICES ASSUME NEW p \in Rests', NEW i \in IdsOf(p) PROVE i \in 1..emits /\ fate'[i] = "batched"
      OBVIOUS
    <3>1. i # e /\ \E r \in Rests : i \in IdsOf(r)
      BY <1>4, <2>1, <2>2
    <3>2. i \in 1..emits /\ fate[i] = "batched"
      BY <1>2, <3>1 DEF BusWaiting
    <3> QED
      BY <1>14, <3>1, <3>2
  <2>7. \A i \in 1..emits : fate'[i] = "batched" => i \in IdsOf(batched) \/ \E p \in Rests' : i \in IdsOf(p)
    <3> SUFFICES ASSUME NEW i \in 1..emits, fate'[i] = "batched", i \notin IdsOf(batched) PROVE \E p \in Rests' : i \in IdsOf(p)
      OBVIOUS
    <3>1. i # e /\ fate[i] = "batched"
      BY <1>14
    <3>2. PICK p \in Rests : i \in IdsOf(p)
      BY <1>2, <3>1 DEF BusWaiting
    <3>3. CASE p = q
      BY <1>6, <1>13, <3>1, <3>2, <3>3
    <3>4. CASE p # q
      BY <1>13, <3>2, <3>4
    <3> QED
      BY <3>3, <3>4
  <2>8. \A i, j \in DOMAIN batched : batched[i].id = batched[j].id => i = j
    BY <1>2 DEF BusWaiting
  <2> QED
    BY <1>1, <2>3, <2>4, <2>5, <2>6, <2>7, <2>8 DEF BusWaiting
<1> QED
  BY <1>17, <1>18, <1>19, <1>20 DEF BusInv

\* A log is its deliveries and the order of the dispatches.
LEMMA LogOf ==
    ASSUME NEW A, NEW B, NEW a \in A, NEW o \in B
    PROVE  [deliveries |-> a, order |-> o] \in [deliveries: A, order: B]
OBVIOUS

\* With a delivery, one registration more has heard of the event.
LEMMA HeardOneMore ==
    ASSUME NEW R, NEW d \in Seq(R), NEW p, DOMAIN p = 1..(Len(d) + 1), \A i \in 1..Len(d) : p[i] = d[i]
    PROVE  LET x == p[Len(d) + 1]
           IN  /\ HeardOf(p, x.event) = HeardOf(d, x.event) \cup {x.reg}
               /\ \A e : e # x.event => HeardOf(p, e) = HeardOf(d, e)
<1> DEFINE x == p[Len(d) + 1]
<1>1. DOMAIN d = 1..Len(d) /\ Len(d) \in Nat
  OBVIOUS
<1>2. \A i \in DOMAIN p : i = Len(d) + 1 \/ (i \in DOMAIN d /\ p[i] = d[i])
  BY <1>1
<1>3. \A i \in DOMAIN d : i \in DOMAIN p /\ p[i] = d[i]
  BY <1>1
<1>4. Len(d) + 1 \in DOMAIN p
  BY <1>1
<1>5. \A e, y : y \in HeardOf(p, e) <=> \E i \in DOMAIN p : p[i].event = e /\ y = p[i].reg
  BY DEF HeardOf
<1>6. \A e, y : y \in HeardOf(d, e) <=> \E i \in DOMAIN d : d[i].event = e /\ y = d[i].reg
  BY DEF HeardOf
<1>7. \A e, y : y \in HeardOf(p, e) <=> (y \in HeardOf(d, e) \/ (e = x.event /\ y = x.reg))
  BY <1>2, <1>3, <1>4, <1>5, <1>6
<1>8. HeardOf(p, x.event) = HeardOf(d, x.event) \cup {x.reg}
  BY <1>7
<1> HIDE DEF x
<1>9. ASSUME NEW e, e # x.event
      PROVE  HeardOf(p, e) = HeardOf(d, e)
  <2>1. \A y : y \in HeardOf(p, e) <=> y \in HeardOf(d, e)
    BY <1>7, <1>9, Zenon
  <2> QED
    BY <2>1, Zenon
<1> QED
  BY <1>8, <1>9 DEF x

\* A dispatch calls the next listener of its list: it has not heard of the event.
LEMMA BusDelivers ==
    ASSUME NEW s \in BusSetups, BusInv, NEW h \in Walk, h \in Walks, h.list \in DOMAIN lists, h.index \in DOMAIN lists[h.list],
           UNCHANGED <<lists, exact, wild, mode, stopped, batched, intent, history, next, calls, emits, fate, present>>,
           NEW b \in Walk, b = [h EXCEPT !.index = @ + 1],
           NEW r, r = lists[h.list][h.index].reg,
           deliveries' = [deliveries EXCEPT !.deliveries = Append(@, [event |-> h.event, reg |-> r])],
           StackOk(dispatches'), Walks' = (Walks \ {h}) \cup {b}, Rests' = Rests,
           \A v \in Walks \ {h} : v.event # h.event
    PROVE  BusInv'
<1> DEFINE d == deliveries.deliveries
           x == [event |-> h.event, reg |-> r]
           l == lists[h.list]
<1>1. BusTypes /\ BusRegistry /\ BusWaiting /\ BusIntent /\ BusWalks /\ BusHeard
  BY DEF BusInv
<1>2. l \in Seq(Registration) /\ r \in Nat /\ r \in RegsOf(l) /\ r < next
      /\ \A i, j \in DOMAIN l : l[i].reg = l[j].reg => i = j
  <2>1. l \in Seq(Registration)
    BY <1>1 DEF BusTypes
  <2>2. l[h.index] \in Registration
    BY <2>1, ElementOfSeq
  <2>3. r \in Nat /\ r \in RegsOf(l)
    BY <2>2 DEF Registration, RegsOf
  <2> QED
    BY <1>1, <2>1, <2>3 DEF BusRegistry
<1>3. /\ h.event \in Nat /\ h.index \in Nat /\ h.at \in {"exact", "wild"}
      /\ b.at = h.at /\ b.event = h.event /\ b.list = h.list /\ b.index = h.index + 1
  BY DEF Walk
<1>4. /\ d \in Seq([event: Nat, reg: Nat]) /\ deliveries.order \in Seq(Nat)
      /\ deliveries = [deliveries |-> d, order |-> deliveries.order]
      /\ \A i \in DOMAIN d : d[i] = [event |-> d[i].event, reg |-> d[i].reg]
  BY <1>1, DeliveriesAreTyped
<1>5. /\ deliveries'.deliveries = Append(d, x)
      /\ deliveries' \in [deliveries: Seq([event: Nat, reg: Nat]), order: Seq(Nat)]
      /\ DOMAIN deliveries'.deliveries = 1..(Len(d) + 1) /\ DOMAIN d = 1..Len(d) /\ Len(d) \in Nat
      /\ deliveries'.deliveries[Len(d) + 1] = x /\ \A i \in 1..Len(d) : deliveries'.deliveries[i] = d[i]
  <2>1. x \in [event: Nat, reg: Nat]
    BY <1>2, <1>3
  <2>2. deliveries' = [deliveries |-> Append(d, x), order |-> deliveries.order]
    BY <1>4
  <2> DEFINE R == [event: Nat, reg: Nat]
  <2> HIDE DEF x, d, R
  <2>3. /\ Append(d, x) \in Seq(R) /\ Len(Append(d, x)) = Len(d) + 1 /\ Append(d, x)[Len(d) + 1] = x
        /\ \A i \in 1..Len(d) : Append(d, x)[i] = d[i]
    BY <1>4, <2>1, OneMoreEvent DEF R
  <2>4. deliveries'.deliveries = Append(d, x) /\ deliveries' \in [deliveries: Seq(R), order: Seq(Nat)]
    <3>1. deliveries'.deliveries = Append(d, x)
      BY <2>2
    <3>2. deliveries' \in [deliveries: Seq(R), order: Seq(Nat)]
      <4> DEFINE a == Append(d, x)
                 o == deliveries.order
      <4>1. a \in Seq(R) /\ o \in Seq(Nat)
        BY <1>4, <2>3
      <4>2. deliveries' = [deliveries |-> a, order |-> o]
        BY <2>2
      <4> HIDE DEF a, o
      <4>3. [deliveries |-> a, order |-> o] \in [deliveries: Seq(R), order: Seq(Nat)]
        BY <4>1, LogOf
      <4> QED
        BY <4>2, <4>3, Zenon
    <3> QED
      BY <3>1, <3>2
  <2>5. DOMAIN Append(d, x) = 1..(Len(d) + 1) /\ DOMAIN d = 1..Len(d) /\ Len(d) \in Nat
    BY <1>4, <2>3 DEF R
  <2> QED
    BY <2>3, <2>4, <2>5 DEF R
<1>6. x.event = h.event /\ x.reg = r
  OBVIOUS
<1> HIDE DEF x
<1>7. /\ HeardOf(deliveries'.deliveries, h.event) = HeardOf(d, h.event) \cup {r}
      /\ \A e : e # h.event => HeardOf(deliveries'.deliveries, e) = HeardOf(d, e)
  <2> DEFINE R == [event: Nat, reg: Nat]
             p == deliveries'.deliveries
  <2>1. d \in Seq(R) /\ DOMAIN p = 1..(Len(d) + 1) /\ (\A i \in 1..Len(d) : p[i] = d[i]) /\ p[Len(d) + 1] = x
    BY <1>4, <1>5
  <2> HIDE DEF d, R, p
  <2>2. LET y == p[Len(d) + 1]
        IN  /\ HeardOf(p, y.event) = HeardOf(d, y.event) \cup {y.reg}
            /\ \A e : e # y.event => HeardOf(p, e) = HeardOf(d, e)
    BY <2>1, HeardOneMore
  <2>3. /\ HeardOf(p, x.event) = HeardOf(d, x.event) \cup {x.reg}
        /\ \A e : e # x.event => HeardOf(p, e) = HeardOf(d, e)
    BY <2>1, <2>2
  <2> QED
    BY <1>6, <2>3 DEF p
<1>8. /\ h.event \in 1..emits /\ fate[h.event] = "dispatched" /\ 1 <= h.index /\ h.list \in 0..Len(lists) /\ h.list # 0
      /\ HeardOf(d, h.event) \cap AheadOf(l, h.index) = {}
  <2>1. h.list # 0
    BY <1>1 DEF BusTypes
  <2> QED
    BY <1>1, <2>1 DEF BusWalks, BusReached, BusApart, BusAhead
<1>9. r \in AheadOf(l, h.index) /\ r \notin HeardOf(d, h.event)
  <2>1. h.index <= h.index
    BY <1>3
  <2>2. r \in AheadOf(l, h.index)
    BY <2>1 DEF AheadOf
  <2> QED
    BY <1>8, <2>2
<1>10. AheadOf(l, b.index) = AheadOf(l, h.index) \ {r}
  <2>1. \A j \in DOMAIN l : b.index <= j <=> (h.index <= j /\ j # h.index)
    BY <1>2, <1>3
  <2>2. \A j \in DOMAIN l : l[j].reg = r <=> j = h.index
    BY <1>2
  <2> QED
    BY <2>1, <2>2 DEF AheadOf
<1> HIDE DEF d
<1>11. \A v \in Walks' : v = b \/ (v \in Walks /\ v.event # h.event)
  OBVIOUS
<1>12. BusWalks'
  <2>1. ASSUME NEW v \in Walks'
        PROVE  /\ v.event \in 1..emits /\ fate[v.event] = "dispatched" /\ 1 <= v.index /\ v.list \in 0..Len(lists)
               /\ v.list # 0 => HeardOf(deliveries'.deliveries, v.event) \cap AheadOf(lists[v.list], v.index) = {}
    <3>1. CASE v = b
      <4>1. 1 <= b.index
        BY <1>3
      <4>2. HeardOf(deliveries'.deliveries, b.event) \cap AheadOf(lists[b.list], b.index) = {}
        BY <1>3, <1>7, <1>8, <1>10
      <4> QED
        BY <1>3, <1>8, <3>1, <4>1, <4>2
    <3>2. CASE v \in Walks /\ v.event # h.event
      BY <1>1, <1>7, <3>2 DEF BusWalks, BusReached, BusApart, BusAhead, d
    <3> QED
      BY <1>11, <3>1, <3>2
  <2>2. ASSUME NEW v \in Walks', v.at = "exact"
        PROVE  /\ HeardOf(deliveries'.deliveries, v.event) \cap RegsOf(lists[wild]) = {}
               /\ v.list # 0 => v.list # wild /\ RegsOf(lists[v.list]) \cap RegsOf(lists[wild]) = {}
    <3>1. CASE v = b
      <4>1. /\ HeardOf(d, h.event) \cap RegsOf(lists[wild]) = {}
            /\ h.list # wild /\ RegsOf(l) \cap RegsOf(lists[wild]) = {}
        BY <1>1, <1>3, <1>8, <2>2, <3>1 DEF BusWalks, BusReached, BusApart, BusAhead, d
      <4> QED
        BY <1>2, <1>3, <1>7, <3>1, <4>1
    <3>2. CASE v \in Walks /\ v.event # h.event
      BY <1>1, <1>7, <2>2, <3>2 DEF BusWalks, BusReached, BusApart, BusAhead, d
    <3> QED
      BY <1>11, <3>1, <3>2
  <2>3. ASSUME NEW v \in Walks', v.at = "wild"
        PROVE  /\ v.list # 0 /\ \A u \in {"a", "b"} : exact[u] # v.list
               /\ present[v.event] \cap RegsOf(lists[wild]) \subseteq
                    HeardOf(deliveries'.deliveries, v.event) \cup AheadOf(lists[v.list], v.index)
    <3>1. CASE v = b
      <4>1. /\ h.list # 0 /\ \A u \in {"a", "b"} : exact[u] # h.list
            /\ present[h.event] \cap RegsOf(lists[wild]) \subseteq HeardOf(d, h.event) \cup AheadOf(l, h.index)
        BY <1>1, <1>3, <1>8, <2>3, <3>1 DEF BusWalks, BusReached, BusApart, BusAhead, d
      <4> QED
        BY <1>3, <1>7, <1>10, <3>1, <4>1
    <3>2. CASE v \in Walks /\ v.event # h.event
      BY <1>1, <1>7, <2>3, <3>2 DEF BusWalks, BusReached, BusApart, BusAhead, d
    <3> QED
      BY <1>11, <3>1, <3>2
  <2> QED
    <3>1. BusReached'
      BY <2>1 DEF BusReached
    <3>2. BusApart'
      BY <2>2 DEF BusApart
    <3>3. BusAhead'
      BY <2>3 DEF BusAhead
    <3> QED
      BY <3>1, <3>2, <3>3 DEF BusWalks
<1>13. BusHeard'
  <2>1. \A i \in DOMAIN deliveries'.deliveries : (i \in DOMAIN d /\ deliveries'.deliveries[i] = d[i])
                                                 \/ (i = Len(d) + 1 /\ deliveries'.deliveries[i] = x)
    <3>1. \A i \in 1..(Len(d) + 1) : i \in 1..Len(d) \/ i = Len(d) + 1
      BY <1>5
    <3> QED
      BY <1>5, <3>1
  <2>2. \A i, j \in DOMAIN deliveries'.deliveries : deliveries'.deliveries[i] = deliveries'.deliveries[j] => i = j
    <3>1. \A i \in DOMAIN d : d[i] # x
      <4> SUFFICES ASSUME NEW i \in DOMAIN d, d[i] = x PROVE FALSE
        OBVIOUS
      <4>1. d[i].event = h.event /\ d[i].reg = r
        BY <1>6
      <4> QED
        BY <1>9, <4>1 DEF HeardOf
    <3>2. \A i, j \in DOMAIN d : d[i] = d[j] => i = j
      BY <1>1 DEF BusHeard, d
    <3> QED
      BY <2>1, <3>1, <3>2
  <2>3. ASSUME NEW i \in DOMAIN deliveries'.deliveries
        PROVE  LET y == deliveries'.deliveries[i] IN y.event \in 1..emits /\ fate[y.event] = "dispatched" /\ y.reg < next
    <3>1. CASE i \in DOMAIN d /\ deliveries'.deliveries[i] = d[i]
      BY <1>1, <3>1 DEF BusHeard, d
    <3>2. CASE deliveries'.deliveries[i] = x
      BY <1>2, <1>6, <1>8, <3>2
    <3> QED
      BY <2>1, <3>1, <3>2
  <2>4. ASSUME NEW e \in 1..emits, fate[e] = "dispatched", \A v \in Walks' : v.event # e
        PROVE  present[e] \cap RegsOf(lists[wild]) \subseteq HeardOf(deliveries'.deliveries, e)
    <3>1. e # h.event
      BY <1>3, <2>4
    <3>2. \A v \in Walks : v.event # e
      BY <2>4, <3>1
    <3> QED
      BY <1>1, <1>7, <2>4, <3>1, <3>2 DEF BusHeard, d
  <2>5. \A e \in 1..emits : \A k \in present[e] : k < next
    BY <1>1 DEF BusHeard
  <2> QED
    BY <2>2, <2>3, <2>4, <2>5 DEF BusHeard
<1>14. BusTypes'
  BY <1>1, <1>5 DEF BusTypes
<1>15. BusRegistry' /\ BusWaiting' /\ BusIntent'
  BY <1>1 DEF BusRegistry, BusWaiting, BusIntent
<1> QED
  BY <1>12, <1>13, <1>14, <1>15 DEF BusInv

\* A dispatch goes on to the wildcard listeners, who have not heard of its event.
LEMMA BusGoesOn ==
    ASSUME NEW s \in BusSetups, BusInv, NEW h \in Walk, h \in Walks, h.at = "exact",
           UNCHANGED <<lists, exact, wild, mode, stopped, batched, intent, history, next, calls, emits, fate, present, deliveries>>,
           NEW b \in Walk, b.at = "wild", b.event = h.event, b.list = wild, b.index = 1,
           StackOk(dispatches'), Walks' = (Walks \ {h}) \cup {b}, Rests' = Rests,
           \A v \in Walks \ {h} : v.event # h.event
    PROVE  BusInv'
<1>1. BusTypes /\ BusRegistry /\ BusWaiting /\ BusIntent /\ BusWalks /\ BusHeard
  BY DEF BusInv
<1>2. /\ h.event \in 1..emits /\ fate[h.event] = "dispatched"
      /\ HeardOf(deliveries.deliveries, h.event) \cap RegsOf(lists[wild]) = {}
  BY <1>1 DEF BusWalks, BusReached, BusApart, BusAhead
<1>3. wild # 0 /\ wild \in 0..Len(lists) /\ \A t \in {"a", "b"} : exact[t] # wild
  <2>1. wild \in 1..Len(lists)
    BY <1>1 DEF BusTypes
  <2> QED
    BY <1>1, <2>1 DEF BusRegistry
<1>4. AheadOf(lists[wild], 1) = RegsOf(lists[wild])
  <2>1. lists[wild] \in Seq(Registration)
    BY <1>1 DEF BusTypes
  <2>2. \A j \in DOMAIN lists[wild] : 1 <= j
    BY <2>1
  <2> QED
    BY <2>2 DEF AheadOf, RegsOf
<1>5. \A v \in Walks' : v = b \/ v \in Walks
  OBVIOUS
<1>6. BusWalks'
  <2>1. ASSUME NEW v \in Walks'
        PROVE  /\ v.event \in 1..emits /\ fate[v.event] = "dispatched" /\ 1 <= v.index /\ v.list \in 0..Len(lists)
               /\ v.list # 0 => HeardOf(deliveries.deliveries, v.event) \cap AheadOf(lists[v.list], v.index) = {}
    <3>1. CASE v = b
      BY <1>2, <1>3, <1>4, <3>1
    <3>2. CASE v \in Walks
      BY <1>1, <3>2 DEF BusWalks, BusReached, BusApart, BusAhead
    <3> QED
      BY <1>5, <3>1, <3>2
  <2>2. ASSUME NEW v \in Walks', v.at = "exact"
        PROVE  /\ HeardOf(deliveries.deliveries, v.event) \cap RegsOf(lists[wild]) = {}
               /\ v.list # 0 => v.list # wild /\ RegsOf(lists[v.list]) \cap RegsOf(lists[wild]) = {}
    BY <1>1, <1>5, <2>2 DEF BusWalks, BusReached, BusApart, BusAhead
  <2>3. ASSUME NEW v \in Walks', v.at = "wild"
        PROVE  /\ v.list # 0 /\ \A u \in {"a", "b"} : exact[u] # v.list
               /\ present[v.event] \cap RegsOf(lists[wild]) \subseteq
                    HeardOf(deliveries.deliveries, v.event) \cup AheadOf(lists[v.list], v.index)
    <3>1. CASE v = b
      BY <1>3, <1>4, <3>1
    <3>2. CASE v \in Walks
      BY <1>1, <2>3, <3>2 DEF BusWalks, BusReached, BusApart, BusAhead
    <3> QED
      BY <1>5, <3>1, <3>2
  <2> QED
    <3>1. BusReached'
      BY <2>1 DEF BusReached
    <3>2. BusApart'
      BY <2>2 DEF BusApart
    <3>3. BusAhead'
      BY <2>3 DEF BusAhead
    <3> QED
      BY <3>1, <3>2, <3>3 DEF BusWalks
<1>7. BusHeard'
  <2>1. \A e : (\A v \in Walks' : v.event # e) => \A v \in Walks : v.event # e
    OBVIOUS
  <2> QED
    BY <1>1, <2>1 DEF BusHeard
<1>8. BusTypes' /\ BusRegistry' /\ BusWaiting' /\ BusIntent'
  BY <1>1 DEF BusTypes, BusRegistry, BusWaiting, BusIntent
<1> QED
  BY <1>6, <1>7, <1>8 DEF BusInv

\* A dispatch is over when the wildcard list is: all that are in place have heard.
LEMMA BusIsOver ==
    ASSUME NEW s \in BusSetups, BusInv, NEW h \in Walk, h \in Walks, h.at = "wild", ~(h.index <= Len(lists[h.list])),
           UNCHANGED <<lists, exact, wild, mode, stopped, batched, intent, history, next, calls, emits, fate, present, deliveries>>,
           StackOk(dispatches'), Walks' = Walks \ {h}, Rests' = Rests
    PROVE  BusInv'
<1>1. BusTypes /\ BusRegistry /\ BusWaiting /\ BusIntent /\ BusWalks /\ BusHeard
  BY DEF BusInv
<1>2. /\ h.list # 0 /\ h.list \in 0..Len(lists) /\ h.index \in Nat
      /\ present[h.event] \cap RegsOf(lists[wild]) \subseteq
           HeardOf(deliveries.deliveries, h.event) \cup AheadOf(lists[h.list], h.index)
  BY <1>1 DEF BusWalks, BusReached, BusApart, BusAhead, Walk
<1>3. AheadOf(lists[h.list], h.index) = {}
  <2>1. lists[h.list] \in Seq(Registration)
    <3>1. lists \in Seq(Seq(Registration))
      BY <1>1 DEF BusTypes
    <3>2. Len(lists) \in Nat
      BY <3>1, LenProperties
    <3>3. h.list \in 1..Len(lists)
      BY <1>2, <3>2
    <3> QED
      BY <3>1, <3>3, ElementOfSeq
  <2>2. \A j \in DOMAIN lists[h.list] : ~(h.index <= j)
    BY <1>2, <2>1
  <2> QED
    BY <2>2 DEF AheadOf
<1>4. BusWalks'
  BY <1>1 DEF BusWalks, BusReached, BusApart, BusAhead
<1>5. BusHeard'
  <2>1. ASSUME NEW e \in 1..emits, fate[e] = "dispatched", \A v \in Walks' : v.event # e
        PROVE  present[e] \cap RegsOf(lists[wild]) \subseteq HeardOf(deliveries.deliveries, e)
    <3>1. CASE e = h.event
      BY <1>2, <1>3, <3>1
    <3>2. CASE e # h.event
      <4>1. \A v \in Walks : v.event # e
        BY <2>1, <3>2
      <4> QED
        BY <1>1, <2>1, <4>1 DEF BusHeard
    <3> QED
      BY <3>1, <3>2
  <2> QED
    BY <1>1, <2>1 DEF BusHeard
<1>6. BusTypes' /\ BusRegistry' /\ BusWaiting' /\ BusIntent'
  BY <1>1 DEF BusTypes, BusRegistry, BusWaiting, BusIntent
<1> QED
  BY <1>4, <1>5, <1>6 DEF BusInv

\* The dispatch goes a step on.
LEMMA BusStep ==
    ASSUME NEW s \in BusSetups, BusInv, Bus(s)!Step
    PROVE  BusInv'
<1> DEFINE h == Head(dispatches)
           q == IF h.list = 0 THEN << >> ELSE lists[h.list]
           b == [h EXCEPT !.index = @ + 1]
           f == [at |-> "callback", event |-> h.event, back |-> b]
           g == [h EXCEPT !.at = "wild", !.list = wild, !.index = 1]
<1>1. /\ UNCHANGED <<lists, exact, wild, mode, stopped, batched, intent, history, next, calls, emits, fate, present>>
      /\ dispatches # << >> /\ h.at \in {"exact", "wild"}
  BY DEF Bus!Step, Bus!Top, Bus!registry, Bus!batch
<1>2. \/ /\ h.index <= Len(q) /\ dispatches' = <<f>> \o Tail(dispatches)
         /\ deliveries' = [deliveries EXCEPT !.deliveries = Append(@, [event |-> h.event, reg |-> q[h.index].reg])]
      \/ /\ ~(h.index <= Len(q)) /\ h.at = "exact" /\ dispatches' = <<g>> \o Tail(dispatches) /\ deliveries' = deliveries
      \/ /\ ~(h.index <= Len(q)) /\ h.at # "exact" /\ dispatches' = Tail(dispatches) /\ deliveries' = deliveries
  BY DEF Bus!Step, Bus!Top, Bus!Set
<1>3. BusTypes /\ BusRegistry /\ BusWaiting /\ BusIntent /\ BusWalks /\ BusHeard /\ StackOk(dispatches)
  BY DEF BusInv, BusTypes
<1>4. h = dispatches[1] /\ 1 \in DOMAIN dispatches
  BY <1>1, <1>3, EmptySeq DEF StackOk
<1>5. h \in Walk
  <2>1. h \in Walk \/ h \in Calling \/ h \in Flushing
    BY <1>3, <1>4, WalksAreTyped
  <2> QED
    BY <1>1, <2>1 DEF Calling, Flushing
<1>6. /\ h.event \in Nat /\ h.index \in Nat /\ h.list \in Nat /\ h.type \in {"a", "b"} /\ WalkOf(h) = h
      /\ h = [at |-> h.at, event |-> h.event, type |-> h.type, list |-> h.list, index |-> h.index]
  BY <1>1, <1>5 DEF Walk, WalkOf
<1>7. h \in Walks /\ 1 <= h.index /\ h.list \in 0..Len(lists) /\ (h.at = "wild" => h.list # 0) /\ Len(lists) \in Nat
  <2>1. h \in Walks
    <3>1. 1 \in InWalks(dispatches)
      BY <1>1, <1>4 DEF InWalks
    <3> QED
      BY <1>4, <1>6, <3>1 DEF Walks, WalksOf
  <2>2. Len(lists) \in Nat
    BY <1>3 DEF BusTypes
  <2> QED
    BY <1>3, <2>1, <2>2 DEF BusWalks, BusReached, BusApart, BusAhead
<1>8. /\ b \in Walk /\ b.event = h.event /\ f \in Calling /\ f.at = "callback" /\ f.event = h.event /\ f.back = b
      /\ WalkOf(f) = b
  <2>1. b = [at |-> h.at, event |-> h.event, type |-> h.type, list |-> h.list, index |-> h.index + 1]
    BY <1>6
  <2>2. b \in Walk /\ b.event = h.event
    BY <1>1, <1>6, <2>1 DEF Walk
  <2> HIDE DEF b
  <2> QED
    BY <1>6, <2>2 DEF Calling, WalkOf
<1>9. g \in Walk /\ g.at = "wild" /\ g.event = h.event /\ g.list = wild /\ g.index = 1 /\ WalkOf(g) = g
  <2>2. wild \in Nat
    BY <1>3 DEF BusTypes
  <2>3. g \in Walk /\ g.at = "wild" /\ g.event = h.event /\ g.list = wild /\ g.index = 1
    <3> HIDE DEF h
    <3>1. g \in Walk
      BY <1>5, <2>2 DEF Walk
    <3>2. g.at = "wild" /\ g.event = h.event
      BY <1>5, <2>2 DEF Walk
    <3>3. g.list = wild /\ g.index = 1
      BY <1>5, <2>2 DEF Walk
    <3> QED
      BY <3>1, <3>2, <3>3
  <2> HIDE DEF g
  <2> QED
    BY <2>3 DEF WalkOf
<1>10. CASE /\ h.index <= Len(q) /\ dispatches' = <<f>> \o Tail(dispatches)
            /\ deliveries' = [deliveries EXCEPT !.deliveries = Append(@, [event |-> h.event, reg |-> q[h.index].reg])]
  <2>1. h.list \in DOMAIN lists /\ h.index \in DOMAIN lists[h.list] /\ q = lists[h.list]
    <3>1. h.list # 0
      <4> SUFFICES ASSUME h.list = 0 PROVE FALSE
        OBVIOUS
      <4>1. q = << >> /\ Len(<< >>) = 0
        OBVIOUS
      <4> QED
        BY <1>6, <1>7, <1>10, <4>1
    <3>2. h.list \in DOMAIN lists /\ q = lists[h.list]
      BY <1>3, <1>7, <3>1 DEF BusTypes
    <3>3. q \in Seq(Registration)
      BY <1>3, <3>2 DEF BusTypes
    <3>4. h.index \in DOMAIN q
      BY <1>6, <1>7, <1>10, <3>3
    <3> QED
      BY <3>2, <3>4
  <2> HIDE DEF f, b, g, q
  <2>2. /\ StackOk(dispatches') /\ Walks' = (Walks \ {h}) \cup {b} /\ Rests' = Rests
        /\ \A v \in Walks \ {h} : v.event # h.event
    <3>1. /\ StackOk(dispatches')
          /\ WalksOf(dispatches') = (WalksOf(dispatches) \ {h}) \cup {b}
          /\ \A v \in WalksOf(dispatches) \ {h} : v.event # h.event
          /\ RestsOf(dispatches') = RestsOf(dispatches)
      <4>1. f \in Walk \cup Calling \cup Flushing /\ f.at # "flush" /\ h.at # "flush" /\ f.event = f.back.event
        BY <1>1, <1>8
      <4> HIDE DEF h
      <4> QED
        BY <1>1, <1>3, <1>6, <1>8, <1>10, <4>1, FrameSwapped DEF h
    <3> QED
      BY <3>1 DEF Walks, Rests
  <2>3. deliveries' = [deliveries EXCEPT !.deliveries = Append(@, [event |-> h.event, reg |-> lists[h.list][h.index].reg])]
    BY <1>10, <2>1
  <2>4. b = [h EXCEPT !.index = @ + 1]
    BY DEF b
  <2> HIDE DEF h
  <2> QED
    BY <1>1, <1>5, <1>7, <1>8, <2>1, <2>2, <2>3, <2>4, BusDelivers
<1>11. CASE ~(h.index <= Len(q)) /\ h.at = "exact" /\ dispatches' = <<g>> \o Tail(dispatches) /\ deliveries' = deliveries
  <2> HIDE DEF f, b, g, q
  <2>1. /\ StackOk(dispatches') /\ Walks' = (Walks \ {h}) \cup {g} /\ Rests' = Rests
        /\ \A v \in Walks \ {h} : v.event # h.event
    <3>1. /\ StackOk(dispatches')
          /\ WalksOf(dispatches') = (WalksOf(dispatches) \ {h}) \cup {g}
          /\ \A v \in WalksOf(dispatches) \ {h} : v.event # h.event
          /\ RestsOf(dispatches') = RestsOf(dispatches)
      <4>1. g \in Walk \cup Calling \cup Flushing /\ g.at # "flush" /\ h.at # "flush" /\ g.at # "callback"
        BY <1>1, <1>9
      <4> HIDE DEF h
      <4> QED
        BY <1>1, <1>3, <1>6, <1>9, <1>11, <4>1, FrameSwapped DEF h
    <3> QED
      BY <3>1 DEF Walks, Rests
  <2> HIDE DEF h
  <2> QED
    BY <1>1, <1>5, <1>7, <1>9, <1>11, <2>1, BusGoesOn
<1>12. CASE ~(h.index <= Len(q)) /\ h.at # "exact" /\ dispatches' = Tail(dispatches) /\ deliveries' = deliveries
  <2>1. h.at = "wild" /\ q = lists[h.list]
    BY <1>1, <1>7, <1>12
  <2> HIDE DEF f, b, g, q
  <2>2. StackOk(dispatches') /\ Walks' = Walks \ {h} /\ Rests' = Rests
    <3>1. StackOk(dispatches') /\ WalksOf(dispatches') = WalksOf(dispatches) \ {h} /\ RestsOf(dispatches') = RestsOf(dispatches)
      <4>1. h.at # "flush"
        BY <2>1
      <4> HIDE DEF h
      <4> QED
        BY <1>1, <1>3, <1>6, <1>12, <4>1, FramePopped DEF h
    <3> QED
      BY <3>1 DEF Walks, Rests
  <2> HIDE DEF h
  <2> QED
    BY <1>1, <1>5, <1>7, <1>12, <2>1, <2>2, BusIsOver
<1> HIDE DEF h, q, b, f, g
<1> QED
  BY <1>2, <1>10, <1>11, <1>12

\* Every step of the emitter keeps the invariant.
LEMMA BusSteps ==
    ASSUME NEW s \in BusSetups, BusInv, Bus(s)!Next
    PROVE  BusInv'
<1>1. \A k \in Bus(s)!Keys : k \in {"a", "b", "*"}
  BY DEF Bus!Keys, Bus!Types
<1>2. CASE \E t \in Bus(s)!Types : Bus(s)!Emit(t)
  <2>1. PICK t \in {"a", "b"} : Bus(s)!Emit(t)
    BY <1>2 DEF Bus!Types
  <2>2. mode \/ ~mode
    OBVIOUS
  <2> QED
    BY <2>1, <2>2, BusEmitBatched, BusEmitDispatched
<1>3. CASE Bus(s)!StartBatch
  <2>1. /\ UNCHANGED <<lists, exact, wild, history, dispatches, next, emits, deliveries, present>>
        /\ calls' = calls + 1 /\ mode' = TRUE /\ intent' = TRUE /\ stopped' = ~TRUE /\ batched' = << >>
        /\ fate' = Bus(s)!Fated(Bus(s)!Ids(batched), IF TRUE THEN "dropped" ELSE "returned")
    BY <1>3 DEF Bus!StartBatch, Bus!MayCall, Bus!registry
  <2> QED
    BY <2>1, BusBatchTurned
<1>4. CASE Bus(s)!StopBatch
  <2>1. /\ UNCHANGED <<lists, exact, wild, history, dispatches, next, emits, deliveries, present>>
        /\ calls' = calls + 1 /\ mode' = FALSE /\ intent' = FALSE /\ stopped' = ~FALSE /\ batched' = << >>
        /\ fate' = Bus(s)!Fated(Bus(s)!Ids(batched), IF FALSE THEN "dropped" ELSE "returned")
    BY <1>4 DEF Bus!StopBatch, Bus!MayCall, Bus!registry
  <2> QED
    BY <2>1, BusBatchTurned
<1> QED
  BY <1>2, <1>3, <1>4, BusOn, BusOff, BusClear, BusClearAll, BusStep, BusReturn, BusFlushBatch, BusFlushNext, BusFlushEnd
  DEF Bus!Next

\* The invariant says what the properties of the emitter do.
LEMMA BusGives ==
    ASSUME NEW s \in BusSetups, BusInv
    PROVE  /\ Bus(s)!TypeOK /\ Bus(s)!NotTwice /\ Bus(s)!WildcardListenersHear
           /\ Bus(s)!NothingLost /\ Bus(s)!LastIntentWins
<1>1. BusTypes /\ BusRegistry /\ BusWaiting /\ BusIntent /\ BusWalks /\ BusHeard /\ StackOk(dispatches)
  BY DEF BusInv, BusTypes
<1>2. \A i \in DOMAIN dispatches : dispatches[i].at \in {"exact", "wild", "callback", "flush"}
  <2>1. \A i \in DOMAIN dispatches : dispatches[i] \in Walk \/ dispatches[i] \in Calling \/ dispatches[i] \in Flushing
    BY <1>1, WalksAreTyped
  <2>2. \A f : f \in Walk \/ f \in Calling \/ f \in Flushing => f.at \in {"exact", "wild", "callback", "flush"}
    BY DEF Walk, Calling, Flushing
  <2> QED
    BY <2>1, <2>2
<1>3. \A q : Bus(s)!Ids(q) = IdsOf(q)
  BY DEF Bus!Ids, IdsOf
<1>4. Bus(s)!TypeOK
  <2>1. IdsOf(batched) \subseteq 1..emits
    BY <1>1 DEF BusWaiting
  <2>2. \A i \in DOMAIN dispatches : dispatches[i].at = "callback" => dispatches[i].back.at \in {"exact", "wild"}
    <3>1. \A i \in DOMAIN dispatches : dispatches[i] \in Walk \/ dispatches[i] \in Calling \/ dispatches[i] \in Flushing
      BY <1>1, WalksAreTyped
    <3>2. \A f : f \in Walk \/ f \in Calling \/ f \in Flushing => (f.at = "callback" => f.back.at \in {"exact", "wild"})
      BY DEF Walk, Calling, Flushing
    <3> QED
      BY <3>1, <3>2
  <2> QED
    BY <1>1, <1>2, <1>3, <2>1, <2>2 DEF BusTypes, Bus!TypeOK, Bus!Types
<1>5. Bus(s)!NotTwice
  <2> SUFFICES ASSUME NEW e \in 1..emits, NEW r \in 1..(next - 1),
                      NEW i \in Bus(s)!Heard(e, r), NEW j \in Bus(s)!Heard(e, r)
               PROVE  i = j
    BY DEF Bus!NotTwice
  <2>1. /\ i \in DOMAIN deliveries.deliveries /\ j \in DOMAIN deliveries.deliveries
        /\ deliveries.deliveries[i] = deliveries.deliveries[j]
    BY DEF Bus!Heard
  <2> QED
    BY <1>1, <2>1 DEF BusHeard
<1>6. Bus(s)!WildcardListenersHear
  <2> SUFFICES ASSUME NEW e \in 1..emits, Bus(s)!Over(e), NEW r \in present[e] \cap Bus(s)!Regs(wild)
               PROVE  Bus(s)!Heard(e, r) # {}
    BY DEF Bus!WildcardListenersHear
  <2>1. r \in present[e] \cap RegsOf(lists[wild])
    BY DEF Bus!Regs, RegsOf
  <2>2. \A w \in Walks : w.event # e
    <3> SUFFICES ASSUME NEW w \in Walks, w.event = e PROVE FALSE
      OBVIOUS
    <3>1. PICK i \in InWalks(dispatches) : w = WalkOf(dispatches[i])
      BY DEF Walks, WalksOf
    <3>2. i \in DOMAIN dispatches /\ dispatches[i].at # "flush"
      BY DEF InWalks
    <3>3. dispatches[i].event # e
      BY <3>2 DEF Bus!Over
    <3>4. dispatches[i].event = WalkOf(dispatches[i]).event
      BY <1>1, <3>2 DEF StackOk, WalkOf
    <3> QED
      BY <3>1, <3>3, <3>4
  <2>3. r \in HeardOf(deliveries.deliveries, e)
    BY <1>1, <2>1, <2>2 DEF Bus!Over, BusHeard
  <2>4. PICK i \in DOMAIN deliveries.deliveries : deliveries.deliveries[i].event = e /\ deliveries.deliveries[i].reg = r
    BY <2>3 DEF HeardOf
  <2>5. deliveries.deliveries[i] = [event |-> deliveries.deliveries[i].event, reg |-> deliveries.deliveries[i].reg]
    BY <1>1, DeliveriesAreTyped
  <2> QED
    BY <2>4, <2>5 DEF Bus!Heard
<1>7. Bus(s)!NothingLost
  <2> SUFFICES ASSUME NEW e \in 1..emits, fate[e] = "batched", e \notin IdsOf(batched)
               PROVE  \E i \in DOMAIN dispatches : dispatches[i].at = "flush" /\ e \in IdsOf(dispatches[i].rest)
    BY <1>3 DEF Bus!NothingLost
  <2>1. PICK q \in Rests : e \in IdsOf(q)
    BY <1>1 DEF BusWaiting
  <2> QED
    BY <2>1 DEF Rests, RestsOf, InFlushes
<1>8. Bus(s)!LastIntentWins
  <2>1. dispatches = << >> => Rests = {}
    BY DEF Rests, RestsOf, InFlushes
  <2> QED
    BY <1>1, <2>1 DEF BusIntent, Bus!LastIntentWins
<1> QED
  BY <1>4, <1>5, <1>6, <1>7, <1>8

\* While the emitter runs, its invariant holds.
BusHolds == part = "bus" => setup \in BusSetups /\ BusInv

\* A step of any part keeps it.
LEMMA BusStays ==
    ASSUME BusHolds, [Next]_vars
    PROVE  BusHolds'
<1>1. CASE part # "bus"
  <2>1. part' = part
    BY DEF Next, CallsRun, AsyncRuns, BusRuns, LineRuns, ServerRuns, vars
  <2> QED
    BY <1>1, <2>1 DEF BusHolds
<1>2. CASE part = "bus" /\ Next
  <2>1. PICK s \in BusSetups : setup = s /\ Bus(s)!Next
    BY <1>2 DEF Next, CallsRun, AsyncRuns, LineRuns, ServerRuns
  <2>2. BusInv'
    BY <1>2, <2>1, BusSteps DEF BusHolds
  <2>3. setup' = s
    BY <1>2, <2>1 DEF Next, CallsRun, AsyncRuns, BusRuns, LineRuns, ServerRuns
  <2> QED
    BY <2>1, <2>2, <2>3 DEF BusHolds
<1>3. CASE part = "bus" /\ UNCHANGED vars
  <2>1. UNCHANGED <<part, setup>> /\ UNCHANGED busVars
    BY <1>3 DEF vars
  <2>2. UNCHANGED <<lists, exact, wild, mode, stopped, batched, history, dispatches, next, calls, emits,
                    deliveries, fate, present, intent>>
    BY <2>1 DEF busVars
  <2>3. Walks' = Walks /\ Rests' = Rests
    BY <2>2 DEF Walks, Rests
  <2>4. BusTypes' /\ BusRegistry' /\ BusWaiting' /\ BusIntent'
    <3>1. BusTypes /\ BusRegistry /\ BusWaiting /\ BusIntent
      BY <1>3 DEF BusHolds, BusInv
    <3>2. BusTypes'
      BY <2>2, <3>1 DEF BusTypes
    <3>3. BusRegistry' /\ BusIntent'
      BY <2>2, <2>3, <3>1 DEF BusRegistry, BusIntent
    <3>4. BusWaiting'
      BY <2>2, <2>3, <3>1 DEF BusWaiting
    <3> QED
      BY <3>2, <3>3, <3>4
  <2>5. BusWalks' /\ BusHeard'
    BY <1>3, <2>2, <2>3 DEF BusHolds, BusInv, BusWalks, BusReached, BusApart, BusAhead, BusHeard
  <2> QED
    BY <1>3, <2>1, <2>4, <2>5 DEF BusHolds, BusInv
<1> QED
  BY <1>1, <1>2, <1>3

\* Listeners that change the emitter while it calls them: nobody hears of an event twice, no
\* wildcard listener misses one, no batched event is lost, and the last start_batch or
\* stop_batch decides.
THEOREM ListenersAreServed == Spec => []EmitterHolds
<1>1. ASSUME Init
      PROVE  BusHolds
  BY <1>1, BusStarts DEF Init, BusHolds
<1>2. ASSUME BusHolds
      PROVE  EmitterHolds
  BY <1>2, BusGives DEF BusHolds, EmitterHolds
<1>3. BusHolds /\ [Next]_vars => BusHolds'
  BY BusStays
<1> QED
  BY <1>1, <1>2, <1>3, PTL DEF Spec

-----------------------------------------------------------------------------
(* Calls on clients                                                        *)

\* What a call in progress and a call that is over are made of.
CallFrames(s) ==
    [id: Nat \ {0}, cl: s.clients, op: s.ops, wrap: {"derived", "base"}, bound: s.clients \cup {"default"},
     pc: {"lock", "check", "begin", "began", "core", "cored", "super", "end", "ended", "close"},
     out: {"success", "failure", "preflight", "error"}]
CallRecords(s) ==
    [id: Nat \ {0}, cl: s.clients, op: s.ops, out: {"success", "failure", "preflight", "error"},
     returned: BOOLEAN, outer: BOOLEAN]
CallEventsOf(s) ==
    [on: s.clients \cup {"default"}, cl: s.clients, id: Nat \ {0}, kind: {"started", "core", "completed", "failed"}]

\* The points a call passes by the wrapper it is in, and the ones at which it may have
\* another call inside.
FrameFits(s, f) ==
    /\ f.op = "close" => f.wrap = "base" /\ f.pc \in {"lock", "close"}
    /\ f.pc = "close" => f.op = "close"
    /\ f.wrap = "derived" => s.override /\ f.pc \in {"lock", "super", "ended"}
    /\ f.wrap = "base" => f.pc # "super"
Listens(f) == f.pc \in {"began", "cored", "ended"}

\* The emitter that is bound in the first n calls of a thread.
BoundIn(q, n) == IF n = 0 THEN "default" ELSE q[n].cl

\* Only the last call of a thread is not in a listener; an overridden operation has its
\* override around it; a call past the lock remembers the emitter that was bound before.
StackFits(s, q) ==
    /\ \A i \in 1..Len(q) : FrameFits(s, q[i])
    /\ \A i \in 1..Len(q) : i < Len(q) => Listens(q[i])
    /\ \A i \in 1..Len(q) : s.override /\ q[i].wrap = "base" /\ q[i].op # "close" =>
         i > 1 /\ q[i - 1].wrap = "derived" /\ q[i - 1].cl = q[i].cl /\ q[i - 1].op = q[i].op
    /\ \A i \in 1..Len(q) : q[i].pc # "lock" => q[i].bound = BoundIn(q, i - 1)

\* No mutating call underneath another one of the client.
NothingUnder(q) ==
    \A i, j \in 1..Len(q) :
       i < j /\ q[i].cl = q[j].cl /\ q[j].op \notin {"info", "validate"} =>
         /\ q[i].op = q[j].op /\ q[i].wrap = "derived" /\ q[j].wrap = "base"
         /\ \A k \in i + 1..j - 1 : q[k].cl # q[j].cl

\* The emitter that is bound in the context of a thread with these calls.
BoundNow(q) ==
    IF q = << >> THEN "default"
    ELSE IF q[Len(q)].pc \in {"lock", "close"} THEN BoundIn(q, Len(q) - 1) ELSE q[Len(q)].cl

\* The calls on a client that a thread is in and that are past the lock.
PastLock(q, cl) == {i \in 1..Len(q) : q[i].cl = cl /\ q[i].pc # "lock"}

\* The reentrant lock counts the calls of its owner that are past it; others have none.
LockFits(s, cl, l, st) ==
    /\ (l.count = 0) = (l.owner = "no one")
    /\ \A t \in s.threads : t # l.owner => PastLock(st[t], cl) = {}
    /\ l.owner \in s.threads => l.count = Cardinality(PastLock(st[l.owner], cl))

\* The events of a call: none, begun and not ended, ended with what the call returns.
EventsIn(g, id) == {i \in 1..Len(g) : g[i].id = id}
IsEnd(e) == e.kind \in {"completed", "failed"}
NoEvents(g, id) == EventsIn(g, id) = {}
Begun(g, id) ==
    \E first \in EventsIn(g, id) :
       g[first].kind = "started" /\ \A i \in EventsIn(g, id) : first <= i /\ ~IsEnd(g[i])
Announced(g, id, op, out) ==
    \E first, last \in EventsIn(g, id) :
       /\ g[first].kind = "started" /\ IsEnd(g[last])
       /\ \A i \in EventsIn(g, id) : first <= i /\ i <= last /\ (IsEnd(g[i]) => i = last)
       /\ op # "validate" => (g[last].kind = "completed") = (out = "success")
EventsFit(g, f) ==
    IF f.wrap = "derived" \/ f.pc \in {"lock", "check", "begin", "super", "close"} THEN NoEvents(g, f.id)
    ELSE IF f.pc = "ended" THEN Announced(g, f.id, f.op, f.out)
    ELSE Begun(g, f.id)

\* The invariant, by what it is about: types, the calls of a thread, the locks, the
\* connections, the numbers of the calls, and the events.
StacksFit(s, st, ac) ==
    \A t \in s.threads : StackFits(s, st[t]) /\ NothingUnder(st[t]) /\ ac[t] = BoundNow(st[t])
LocksFit(s, lk, st) == \A cl \in s.clients : LockFits(s, cl, lk[cl], st)
ConnsFit(s, cn, st) == \A t \in s.threads : \A i \in 1..Len(st[t]) : st[t][i].pc = "cored" => cn[st[t][i].cl]
IdsFit(s, n, st, g, dn) ==
    /\ \A t \in s.threads : \A i \in 1..Len(st[t]) : st[t][i].id <= n
    /\ \A t, u \in s.threads : \A i \in 1..Len(st[t]), j \in 1..Len(st[u]) :
         st[t][i].id = st[u][j].id => t = u /\ i = j
    /\ \A d \in dn : d.id <= n
    /\ \A d \in dn : \A t \in s.threads : \A i \in 1..Len(st[t]) : st[t][i].id # d.id
    /\ \A i \in 1..Len(g) : g[i].id <= n
LogFits(s, st, g, dn) ==
    /\ \A i \in 1..Len(g) : g[i].on = g[i].cl
    /\ \A t \in s.threads : \A i \in 1..Len(st[t]) : EventsFit(g, st[t][i])
    /\ \A d \in dn : NoEvents(g, d.id) \/ Announced(g, d.id, d.op, d.out)
CallTypes(s) ==
    /\ issued \in Nat
    /\ stack \in [s.threads -> Seq(CallFrames(s))]
    /\ lock \in [s.clients -> [owner: s.threads \cup {"no one"}, count: Nat]]
    /\ active \in [s.threads -> s.clients \cup {"default"}]
    /\ conn \in [s.clients -> BOOLEAN]
    /\ log \in Seq(CallEventsOf(s)) /\ done \subseteq CallRecords(s)
CallInv(s) ==
    /\ CallTypes(s) /\ StacksFit(s, stack, active) /\ LocksFit(s, lock, stack) /\ ConnsFit(s, conn, stack)
    /\ IdsFit(s, issued, stack, log, done) /\ LogFits(s, stack, log, done)

\* A stack with one more call, with another last call, and without the last one.
IsAdded(q, r, f) ==
    /\ Len(q) \in Nat /\ Len(r) = Len(q) + 1 /\ r # << >>
    /\ r[Len(q) + 1] = f /\ \A i \in 1..Len(q) : r[i] = q[i]
IsReplaced(q, r, f) ==
    /\ Len(q) \in Nat \ {0} /\ Len(r) = Len(q) /\ q # << >> /\ r # << >>
    /\ r[Len(q)] = f /\ \A i \in 1..Len(q) : i # Len(q) => r[i] = q[i]
IsRemoved(q, r) ==
    /\ Len(q) \in Nat \ {0} /\ Len(r) = Len(q) - 1 /\ q # << >> /\ (r = << >> <=> Len(q) = 1)
    /\ \A i \in 1..Len(q) : i # Len(q) => r[i] = q[i]

\* Append adds a call.
LEMMA LastAdded ==
    ASSUME NEW S, NEW q \in Seq(S), NEW f \in S
    PROVE  Append(q, f) \in Seq(S) /\ IsAdded(q, Append(q, f), f)
<1>1. Len(q) \in Nat
  BY LenProperties
<1>2. LET r == Append(q, f)
      IN  r \in Seq(S) /\ Len(r) = Len(q) + 1 /\ r[Len(q) + 1] = f /\ \A i \in 1..Len(q) : r[i] = q[i]
  BY AppendProperties
<1> QED
  BY <1>1, <1>2, EmptySeq DEF IsAdded

\* An assignment to the last place replaces the last call.
LEMMA LastReplaced ==
    ASSUME NEW S, NEW q \in Seq(S), q # << >>, NEW f \in S
    PROVE  [q EXCEPT ![Len(q)] = f] \in Seq(S) /\ IsReplaced(q, [q EXCEPT ![Len(q)] = f], f)
<1>1. Len(q) \in Nat \ {0} /\ Len(q) \in 1..Len(q)
  BY LenProperties, EmptySeq
<1>2. LET r == [q EXCEPT ![Len(q)] = f]
      IN  r \in Seq(S) /\ Len(r) = Len(q) /\ \A i \in 1..Len(q) : r[i] = IF i = Len(q) THEN f ELSE q[i]
  BY <1>1, ExceptSeq
<1>3. [q EXCEPT ![Len(q)] = f] # << >>
  BY <1>1, <1>2, EmptySeq
<1> QED
  BY <1>1, <1>2, <1>3 DEF IsReplaced

\* The subsequence up to the last but one removes the last call.
LEMMA LastRemoved ==
    ASSUME NEW S, NEW q \in Seq(S), q # << >>
    PROVE  SubSeq(q, 1, Len(q) - 1) \in Seq(S) /\ IsRemoved(q, SubSeq(q, 1, Len(q) - 1))
<1>1. Len(q) \in Nat \ {0}
  BY LenProperties, EmptySeq
<1>2. \A i \in 1..(Len(q) - 1) : q[i] \in S
  <2> SUFFICES ASSUME NEW i \in 1..(Len(q) - 1) PROVE q[i] \in S
    OBVIOUS
  <2>1. i \in 1..Len(q)
    BY <1>1
  <2> QED
    BY <2>1, ElementOfSeq
<1>3. LET r == SubSeq(q, 1, Len(q) - 1)
      IN  /\ r \in Seq(S)
          /\ Len(r) = IF 1 <= Len(q) - 1 THEN (Len(q) - 1) - 1 + 1 ELSE 0
          /\ \A i \in 1..(Len(q) - 1) - 1 + 1 : r[i] = q[1 + i - 1]
  BY <1>1, <1>2, SubSeqProperties
<1>4. \A i \in 1..Len(q) : i # Len(q) => i \in 1..(Len(q) - 1) - 1 + 1 /\ 1 + i - 1 = i
  BY <1>1
<1>5. (IF 1 <= Len(q) - 1 THEN (Len(q) - 1) - 1 + 1 ELSE 0) = Len(q) - 1
  <2>1. \A n \in Nat \ {0} : (1 <= n - 1 => (n - 1) - 1 + 1 = n - 1) /\ (~(1 <= n - 1) => n - 1 = 0)
    OBVIOUS
  <2>2. CASE 1 <= Len(q) - 1
    BY <1>1, <2>1, <2>2
  <2>3. CASE ~(1 <= Len(q) - 1)
    BY <1>1, <2>1, <2>3
  <2> QED
    BY <2>2, <2>3
<1>6. Len(SubSeq(q, 1, Len(q) - 1)) = Len(q) - 1
  BY <1>3, <1>5
<1>7. SubSeq(q, 1, Len(q) - 1) = << >> <=> Len(q) - 1 = 0
  BY <1>3, <1>6, EmptySeq
<1>8. Len(q) - 1 = 0 <=> Len(q) = 1
  BY <1>1
<1>9. \A i \in 1..Len(q) : i # Len(q) => SubSeq(q, 1, Len(q) - 1)[i] = q[i]
  BY <1>3, <1>4
<1> QED
  BY <1>1, <1>3, <1>6, <1>7, <1>8, <1>9 DEF IsRemoved

\* A call that is added waits for the lock; nothing changes for the others.
LEMMA AddedFits ==
    ASSUME NEW s, NEW q \in Seq(CallFrames(s)), NEW r \in Seq(CallFrames(s)), NEW f \in CallFrames(s),
           IsAdded(q, r, f), StackFits(s, q), q = << >> \/ Listens(q[Len(q)]),
           FrameFits(s, f), f.pc = "lock",
           s.override /\ f.wrap = "base" /\ f.op # "close" =>
             Len(q) > 0 /\ q[Len(q)].wrap = "derived" /\ q[Len(q)].cl = f.cl /\ q[Len(q)].op = f.op
    PROVE  /\ StackFits(s, r) /\ BoundNow(r) = BoundNow(q)
           /\ \A cl : PastLock(r, cl) = PastLock(q, cl)
<1>1. /\ Len(q) \in Nat /\ Len(r) = Len(q) + 1 /\ r # << >> /\ r[Len(q) + 1] = f
      /\ \A i \in 1..Len(q) : r[i] = q[i]
  BY DEF IsAdded
<1>2. \A i \in 1..Len(r) : i \in 1..Len(q) \/ i = Len(q) + 1
  BY <1>1
<1>3. Len(q) = 0 <=> q = << >>
  BY EmptySeq
<1>4. StackFits(s, r)
  <2>1. \A i \in 1..Len(r) : FrameFits(s, r[i])
    BY <1>1, <1>2 DEF StackFits
  <2>2. \A i \in 1..Len(r) : i < Len(r) => Listens(r[i])
    <3> SUFFICES ASSUME NEW i \in 1..Len(r), i < Len(r) PROVE Listens(r[i])
      OBVIOUS
    <3>1. i \in 1..Len(q) /\ (i < Len(q) \/ i = Len(q))
      BY <1>1
    <3>2. q # << >>
      BY <1>1, <1>3, <3>1
    <3> QED
      BY <1>1, <3>1, <3>2 DEF StackFits
  <2>3. ASSUME NEW i \in 1..Len(r), s.override, r[i].wrap = "base", r[i].op # "close"
        PROVE  i > 1 /\ r[i - 1].wrap = "derived" /\ r[i - 1].cl = r[i].cl /\ r[i - 1].op = r[i].op
    <3>1. CASE i \in 1..Len(q)
      <4>1. i > 1 /\ q[i - 1].wrap = "derived" /\ q[i - 1].cl = q[i].cl /\ q[i - 1].op = q[i].op
        BY <1>1, <2>3, <3>1 DEF StackFits
      <4>2. i - 1 \in 1..Len(q)
        BY <1>1, <3>1, <4>1
      <4> QED
        BY <1>1, <3>1, <4>1, <4>2
    <3>2. CASE i = Len(q) + 1
      <4>1. Len(q) > 0 /\ q[Len(q)].wrap = "derived" /\ q[Len(q)].cl = f.cl /\ q[Len(q)].op = f.op
        BY <1>1, <2>3, <3>2
      <4>2. i - 1 = Len(q) /\ Len(q) \in 1..Len(q) /\ i > 1
        BY <1>1, <3>2, <4>1
      <4> QED
        BY <1>1, <3>2, <4>1, <4>2
    <3> QED
      BY <1>2, <3>1, <3>2
  <2>4. ASSUME NEW i \in 1..Len(r), r[i].pc # "lock"
        PROVE  r[i].bound = BoundIn(r, i - 1)
    <3>1. i \in 1..Len(q)
      BY <1>1, <1>2, <2>4
    <3>2. i - 1 # 0 => i - 1 \in 1..Len(q)
      BY <1>1, <3>1
    <3>3. q[i].bound = BoundIn(q, i - 1)
      BY <1>1, <2>4, <3>1 DEF StackFits
    <3> QED
      BY <1>1, <3>1, <3>2, <3>3 DEF BoundIn
  <2> QED
    BY <2>1, <2>2, <2>3, <2>4 DEF StackFits
<1>5. BoundNow(r) = BoundNow(q)
  <2>1. BoundNow(r) = BoundIn(r, Len(q))
    <3>1. r[Len(r)].pc = "lock" /\ Len(r) - 1 = Len(q)
      BY <1>1
    <3> QED
      BY <1>1, <3>1 DEF BoundNow
  <2>2. CASE q = << >>
    BY <1>3, <2>1, <2>2 DEF BoundNow, BoundIn
  <2>3. CASE q # << >>
    <3>1. Len(q) # 0 /\ Len(q) \in 1..Len(q)
      BY <1>1, <1>3, <2>3
    <3>2. q[Len(q)].pc \notin {"lock", "close"}
      BY <2>3 DEF Listens
    <3>3. BoundNow(q) = q[Len(q)].cl
      BY <2>3, <3>2 DEF BoundNow
    <3>4. r[Len(q)].cl = q[Len(q)].cl
      BY <1>1, <3>1
    <3> QED
      BY <2>1, <3>1, <3>3, <3>4 DEF BoundIn
  <2> QED
    BY <2>2, <2>3
<1>6. ASSUME NEW cl
      PROVE  PastLock(r, cl) = PastLock(q, cl)
  <2>1. \A i \in 1..Len(q) : i \in 1..Len(r)
    BY <1>1
  <2> QED
    BY <1>1, <1>2, <2>1 DEF PastLock
<1> QED
  BY <1>4, <1>5, <1>6

\* Nothing of the client is underneath a mutating call that is added, but its override.
LEMMA AddedUnder ==
    ASSUME NEW s, NEW q \in Seq(CallFrames(s)), NEW r \in Seq(CallFrames(s)), NEW f \in CallFrames(s),
           IsAdded(q, r, f), NothingUnder(q),
           f.op \in {"info", "validate"} \/ \A i \in 1..Len(q) : q[i].cl = f.cl =>
             /\ i = Len(q) /\ q[i].op = f.op /\ q[i].wrap = "derived" /\ f.wrap = "base"
    PROVE  NothingUnder(r)
<1>1. /\ Len(q) \in Nat /\ Len(r) = Len(q) + 1 /\ r[Len(q) + 1] = f
      /\ \A i \in 1..Len(q) : r[i] = q[i]
  BY DEF IsAdded
<1>2. SUFFICES ASSUME NEW i \in 1..Len(r), NEW j \in 1..Len(r), i < j, r[i].cl = r[j].cl,
                      r[j].op \notin {"info", "validate"}
               PROVE  /\ r[i].op = r[j].op /\ r[i].wrap = "derived" /\ r[j].wrap = "base"
                      /\ \A k \in i + 1..j - 1 : r[k].cl # r[j].cl
  BY DEF NothingUnder
<1>3. i \in 1..Len(q) /\ (j \in 1..Len(q) \/ j = Len(q) + 1)
  BY <1>1, <1>2
<1>4. CASE j \in 1..Len(q)
  <2>1. /\ q[i].op = q[j].op /\ q[i].wrap = "derived" /\ q[j].wrap = "base"
        /\ \A k \in i + 1..j - 1 : q[k].cl # q[j].cl
    BY <1>1, <1>2, <1>3, <1>4 DEF NothingUnder
  <2>2. \A k \in i + 1..j - 1 : k \in 1..Len(q)
    BY <1>1, <1>3, <1>4
  <2> QED
    BY <1>1, <1>3, <1>4, <2>1, <2>2
<1>5. CASE j = Len(q) + 1
  <2>1. r[j] = f /\ r[i] = q[i]
    BY <1>1, <1>3, <1>5
  <2>2. i = Len(q) /\ q[i].op = f.op /\ q[i].wrap = "derived" /\ f.wrap = "base"
    BY <1>2, <1>3, <2>1
  <2>3. i + 1..j - 1 = {}
    BY <1>1, <1>5, <2>2
  <2> QED
    BY <2>1, <2>2, <2>3
<1> QED
  BY <1>3, <1>4, <1>5

\* The last call goes on: it remembers what it is of, and once it is past the lock it
\* remembers the emitter that was bound before.
SameCall(f, g) == f.id = g.id /\ f.cl = g.cl /\ f.op = g.op /\ f.wrap = g.wrap

\* Changing the last call keeps the shape.
LEMMA ReplacedFits ==
    ASSUME NEW s, NEW q \in Seq(CallFrames(s)), NEW r \in Seq(CallFrames(s)), NEW f \in CallFrames(s),
           IsReplaced(q, r, f), StackFits(s, q), NothingUnder(q), SameCall(f, q[Len(q)]),
           FrameFits(s, f), f.pc # "lock", f.bound = BoundIn(q, Len(q) - 1)
    PROVE  /\ StackFits(s, r) /\ NothingUnder(r)
           /\ BoundNow(r) = IF f.pc = "close" THEN f.bound ELSE f.cl
           /\ \A cl : PastLock(r, cl) = PastLock(q, cl) \cup (IF f.cl = cl THEN {Len(q)} ELSE {})
<1>1. /\ Len(q) \in Nat \ {0} /\ Len(r) = Len(q) /\ r # << >> /\ r[Len(q)] = f
      /\ \A i \in 1..Len(q) : i # Len(q) => r[i] = q[i]
  BY DEF IsReplaced
<1>2. \A i \in 1..Len(q) : SameCall(r[i], q[i])
  BY <1>1 DEF SameCall
<1>3. \A i \in 1..Len(q) : BoundIn(r, i - 1) = BoundIn(q, i - 1)
  <2> SUFFICES ASSUME NEW i \in 1..Len(q) PROVE BoundIn(r, i - 1) = BoundIn(q, i - 1)
    OBVIOUS
  <2>1. i - 1 # 0 => i - 1 \in 1..Len(q) /\ i - 1 # Len(q)
    BY <1>1
  <2> QED
    BY <1>1, <2>1 DEF BoundIn
<1>4. StackFits(s, r)
  <2>1. \A i \in 1..Len(r) : FrameFits(s, r[i])
    BY <1>1 DEF StackFits
  <2>2. \A i \in 1..Len(r) : i < Len(r) => Listens(r[i])
    <3> SUFFICES ASSUME NEW i \in 1..Len(r), i < Len(r) PROVE Listens(r[i])
      OBVIOUS
    <3>1. i \in 1..Len(q) /\ i # Len(q) /\ i < Len(q)
      BY <1>1
    <3> QED
      BY <1>1, <3>1 DEF StackFits
  <2>3. ASSUME NEW i \in 1..Len(r), s.override, r[i].wrap = "base", r[i].op # "close"
        PROVE  i > 1 /\ r[i - 1].wrap = "derived" /\ r[i - 1].cl = r[i].cl /\ r[i - 1].op = r[i].op
    <3>1. q[i].wrap = "base" /\ q[i].op # "close"
      BY <1>1, <1>2, <2>3 DEF SameCall
    <3>2. i > 1 /\ q[i - 1].wrap = "derived" /\ q[i - 1].cl = q[i].cl /\ q[i - 1].op = q[i].op
      BY <1>1, <2>3, <3>1 DEF StackFits
    <3>3. i - 1 \in 1..Len(q) /\ i \in 1..Len(q)
      BY <1>1, <3>2
    <3> QED
      BY <1>2, <3>2, <3>3 DEF SameCall
  <2>4. ASSUME NEW i \in 1..Len(r), r[i].pc # "lock"
        PROVE  r[i].bound = BoundIn(r, i - 1)
    <3>1. CASE i = Len(q)
      BY <1>1, <1>3, <3>1
    <3>2. CASE i # Len(q)
      BY <1>1, <1>3, <2>4, <3>2 DEF StackFits
    <3> QED
      BY <3>1, <3>2
  <2> QED
    BY <2>1, <2>2, <2>3, <2>4 DEF StackFits
<1>5. NothingUnder(r)
  <2> SUFFICES ASSUME NEW i \in 1..Len(r), NEW j \in 1..Len(r), i < j, r[i].cl = r[j].cl,
                      r[j].op \notin {"info", "validate"}
               PROVE  /\ r[i].op = r[j].op /\ r[i].wrap = "derived" /\ r[j].wrap = "base"
                      /\ \A k \in i + 1..j - 1 : r[k].cl # r[j].cl
    BY DEF NothingUnder
  <2>1. i \in 1..Len(q) /\ j \in 1..Len(q) /\ \A k \in i + 1..j - 1 : k \in 1..Len(q)
    BY <1>1
  <2>2. q[i].cl = q[j].cl /\ q[j].op \notin {"info", "validate"}
    BY <1>2, <2>1 DEF SameCall
  <2>3. /\ q[i].op = q[j].op /\ q[i].wrap = "derived" /\ q[j].wrap = "base"
        /\ \A k \in i + 1..j - 1 : q[k].cl # q[j].cl
    BY <2>1, <2>2 DEF NothingUnder
  <2> QED
    BY <1>2, <2>1, <2>3 DEF SameCall
<1>6. BoundNow(r) = IF f.pc = "close" THEN f.bound ELSE f.cl
  <2>1. BoundIn(r, Len(r) - 1) = f.bound
    <3>1. Len(q) \in 1..Len(q)
      BY <1>1
    <3> QED
      BY <1>1, <1>3, <3>1
  <2> QED
    BY <1>1, <2>1 DEF BoundNow
<1>7. ASSUME NEW cl
      PROVE  PastLock(r, cl) = PastLock(q, cl) \cup (IF f.cl = cl THEN {Len(q)} ELSE {})
  <2>1. q[Len(q)].cl = f.cl /\ Len(q) \in 1..Len(q)
    BY <1>1 DEF SameCall
  <2>2. CASE f.cl = cl
    BY <1>1, <2>1, <2>2 DEF PastLock
  <2>3. CASE f.cl # cl
    BY <1>1, <2>1, <2>3 DEF PastLock
  <2> QED
    BY <2>2, <2>3
<1> QED
  BY <1>4, <1>5, <1>6, <1>7

\* The last call is over: the emitter of before is bound again.
LEMMA RemovedFits ==
    ASSUME NEW s, NEW q \in Seq(CallFrames(s)), NEW r \in Seq(CallFrames(s)),
           IsRemoved(q, r), StackFits(s, q), NothingUnder(q)
    PROVE  /\ StackFits(s, r) /\ NothingUnder(r) /\ BoundNow(r) = BoundIn(q, Len(q) - 1)
           /\ \A cl : PastLock(r, cl) = PastLock(q, cl) \ {Len(q)}
<1>1. /\ Len(q) \in Nat \ {0} /\ Len(r) = Len(q) - 1 /\ q # << >> /\ (r = << >> <=> Len(q) = 1)
      /\ \A i \in 1..Len(q) : i # Len(q) => r[i] = q[i]
  BY DEF IsRemoved
<1>2. \A i \in 1..Len(r) : i \in 1..Len(q) /\ i # Len(q) /\ i < Len(q) /\ r[i] = q[i]
  BY <1>1
<1>3. \A i \in 1..Len(r) : BoundIn(r, i - 1) = BoundIn(q, i - 1)
  <2> SUFFICES ASSUME NEW i \in 1..Len(r) PROVE BoundIn(r, i - 1) = BoundIn(q, i - 1)
    OBVIOUS
  <2>1. i - 1 # 0 => i - 1 \in 1..Len(r)
    BY <1>1
  <2> QED
    BY <1>2, <2>1 DEF BoundIn
<1>4. StackFits(s, r)
  <2>1. \A i \in 1..Len(r) : FrameFits(s, r[i])
    BY <1>2 DEF StackFits
  <2>2. \A i \in 1..Len(r) : i < Len(r) => Listens(r[i])
    BY <1>2 DEF StackFits
  <2>3. ASSUME NEW i \in 1..Len(r), s.override, r[i].wrap = "base", r[i].op # "close"
        PROVE  i > 1 /\ r[i - 1].wrap = "derived" /\ r[i - 1].cl = r[i].cl /\ r[i - 1].op = r[i].op
    <3>1. i > 1 /\ q[i - 1].wrap = "derived" /\ q[i - 1].cl = q[i].cl /\ q[i - 1].op = q[i].op
      BY <1>2, <2>3 DEF StackFits
    <3>2. i - 1 \in 1..Len(r)
      BY <1>1, <3>1
    <3> QED
      BY <1>2, <3>1, <3>2
  <2>4. ASSUME NEW i \in 1..Len(r), r[i].pc # "lock"
        PROVE  r[i].bound = BoundIn(r, i - 1)
    BY <1>2, <1>3, <2>4 DEF StackFits
  <2> QED
    BY <2>1, <2>2, <2>3, <2>4 DEF StackFits
<1>5. NothingUnder(r)
  <2> SUFFICES ASSUME NEW i \in 1..Len(r), NEW j \in 1..Len(r), i < j, r[i].cl = r[j].cl,
                      r[j].op \notin {"info", "validate"}
               PROVE  /\ r[i].op = r[j].op /\ r[i].wrap = "derived" /\ r[j].wrap = "base"
                      /\ \A k \in i + 1..j - 1 : r[k].cl # r[j].cl
    BY DEF NothingUnder
  <2>1. \A k \in i + 1..j - 1 : k \in 1..Len(r)
    BY <1>1
  <2>2. /\ q[i].op = q[j].op /\ q[i].wrap = "derived" /\ q[j].wrap = "base"
        /\ \A k \in i + 1..j - 1 : q[k].cl # q[j].cl
    BY <1>2 DEF NothingUnder
  <2> QED
    BY <1>2, <2>1, <2>2
<1>6. BoundNow(r) = BoundIn(q, Len(q) - 1)
  <2>1. CASE r = << >>
    <3>1. Len(q) - 1 = 0
      BY <1>1, <2>1
    <3> QED
      BY <2>1, <3>1 DEF BoundNow, BoundIn
  <2>2. CASE r # << >>
    <3>1. Len(r) \in 1..Len(r) /\ Len(r) # 0
      BY <1>1, <2>2
    <3>2. Listens(q[Len(r)]) /\ r[Len(r)] = q[Len(r)]
      BY <1>2, <3>1 DEF StackFits
    <3>3. r[Len(r)].pc \notin {"lock", "close"}
      BY <3>2 DEF Listens
    <3> QED
      BY <1>1, <2>2, <3>1, <3>2, <3>3 DEF BoundNow, BoundIn
  <2> QED
    BY <2>1, <2>2
<1>7. ASSUME NEW cl
      PROVE  PastLock(r, cl) = PastLock(q, cl) \ {Len(q)}
  <2>1. \A i \in 1..Len(q) : i # Len(q) => i \in 1..Len(r)
    BY <1>1
  <2> QED
    BY <1>2, <2>1 DEF PastLock
<1> QED
  BY <1>4, <1>5, <1>6, <1>7

\* The calls of all threads: t adds one, its last one goes on, or is over.
OthersStay(s, t, st, st2) == \A u \in s.threads : u # t => st2[u] = st[u]
Stacks(s) == [s.threads -> Seq(CallFrames(s))]
Adds(s, t, f, st, st2) ==
    st2 \in Stacks(s) /\ IsAdded(st[t], st2[t], f) /\ OthersStay(s, t, st, st2)
Goes(s, t, f, st, st2) ==
    /\ st2 \in Stacks(s) /\ IsReplaced(st[t], st2[t], f) /\ OthersStay(s, t, st, st2)
    /\ SameCall(f, st[t][Len(st[t])]) /\ FrameFits(s, f) /\ f.pc # "lock"
    /\ f.bound = BoundIn(st[t], Len(st[t]) - 1)
Drops(s, t, st, st2) ==
    st2 \in Stacks(s) /\ IsRemoved(st[t], st2[t]) /\ OthersStay(s, t, st, st2)

\* The places of a stack are finitely many.
LEMMA PastLockFinite ==
    ASSUME NEW s, NEW q \in Seq(CallFrames(s)), NEW cl
    PROVE  IsFiniteSet(PastLock(q, cl)) /\ Cardinality(PastLock(q, cl)) \in Nat
<1>1. IsFiniteSet(1..Len(q))
  <2>1. Len(q) \in Int /\ 1 \in Int
    BY LenProperties
  <2> QED
    BY <2>1, FS_Interval
<1>2. PastLock(q, cl) \subseteq 1..Len(q)
  BY DEF PastLock
<1>3. IsFiniteSet(PastLock(q, cl))
  BY <1>1, <1>2, FS_Subset
<1> QED
  BY <1>3, FS_CardinalityType

\* A lock fits calls that are past it as before.
LEMMA LockKept ==
    ASSUME NEW s, NEW cl, NEW l, NEW t \in s.threads, NEW st \in Stacks(s), NEW st2 \in Stacks(s),
           OthersStay(s, t, st, st2),
           PastLock(st2[t], cl) = PastLock(st[t], cl), LockFits(s, cl, l, st)
    PROVE  LockFits(s, cl, l, st2)
<1>1. \A u \in s.threads : PastLock(st2[u], cl) = PastLock(st[u], cl)
  <2> TAKE u \in s.threads
  <2>1. CASE u = t
    BY <2>1
  <2>2. CASE u # t
    BY <2>2 DEF OthersStay
  <2> QED
    BY <2>1, <2>2
<1> QED
  BY <1>1 DEF LockFits

\* Numbers one more and one less.
LEMMA OneMoreOrLess ==
    /\ \A m \in Nat : m + 1 \in Nat /\ m + 1 # 0
    /\ \A m, n \in Nat : m <= n => m <= n + 1 /\ m # n + 1
    /\ \A n \in Nat : \A m \in 1..n : m # n => m < n
    /\ \A m \in Nat \ {0} : m - 1 \in Nat /\ (m - 1 = 0 <=> m = 1)
OBVIOUS

\* The thread gets the lock, or has it once more.
LEMMA LockTaken ==
    ASSUME NEW s, NEW cl, NEW t \in s.threads, NEW st \in Stacks(s), NEW st2 \in Stacks(s),
           NEW l \in [owner: s.threads \cup {"no one"}, count: Nat], "no one" \notin s.threads,
           OthersStay(s, t, st, st2),
           NEW n, n \notin PastLock(st[t], cl), PastLock(st2[t], cl) = PastLock(st[t], cl) \cup {n},
           l.owner \in {"no one", t}, LockFits(s, cl, l, st)
    PROVE  LockFits(s, cl, [owner |-> t, count |-> l.count + 1], st2)
<1> DEFINE k == [owner |-> t, count |-> l.count + 1]
<1>1. l.count \in Nat /\ l.count = Cardinality(PastLock(st[t], cl))
  <2>1. l.count \in Nat
    OBVIOUS
  <2>2. CASE l.owner = t
    BY <2>1, <2>2 DEF LockFits
  <2>3. CASE l.owner = "no one"
    <3>1. PastLock(st[t], cl) = {} /\ l.count = 0
      BY <2>3 DEF LockFits
    <3> QED
      BY <2>1, <3>1, FS_EmptySet
  <2> QED
    BY <2>2, <2>3
<1>2. Cardinality(PastLock(st2[t], cl)) = Cardinality(PastLock(st[t], cl)) + 1
  <2>1. IsFiniteSet(PastLock(st[t], cl))
    BY PastLockFinite DEF Stacks
  <2> QED
    BY <2>1, FS_AddElement
<1>3. k.count = Cardinality(PastLock(st2[t], cl)) /\ k.owner = t /\ k.count # 0
  <2>1. k.count = l.count + 1 /\ k.owner = t
    OBVIOUS
  <2>2. l.count + 1 # 0
    BY <1>1, OneMoreOrLess
  <2> HIDE DEF k
  <2> QED
    BY <1>1, <1>2, <2>1, <2>2
<1>4. \A u \in s.threads : u # t => PastLock(st2[u], cl) = {}
  BY DEF LockFits, OthersStay
<1> QED
  BY <1>3, <1>4 DEF LockFits

\* The thread gives the lock back, or has it once less.
Released(l, t) ==
    IF l.count = 1 THEN [owner |-> "no one", count |-> 0] ELSE [owner |-> t, count |-> l.count - 1]

\* Passing the lock keeps the counts: of the thread that did, and of the others.
LEMMA LockPassed ==
    ASSUME NEW s, NEW cl, NEW t \in s.threads, NEW st \in Stacks(s), NEW st2 \in Stacks(s),
           NEW l \in [owner: s.threads \cup {"no one"}, count: Nat], "no one" \notin s.threads,
           OthersStay(s, t, st, st2),
           NEW n \in PastLock(st[t], cl), PastLock(st2[t], cl) = PastLock(st[t], cl) \ {n},
           LockFits(s, cl, l, st),
           NEW k, k = Released(l, t)
    PROVE  LockFits(s, cl, k, st2) /\ k \in [owner: s.threads \cup {"no one"}, count: Nat]
<1>1. l.owner = t
  BY DEF LockFits
<1>2. l.count \in Nat \ {0} /\ l.count = Cardinality(PastLock(st[t], cl))
  BY <1>1 DEF LockFits
<1>3. Cardinality(PastLock(st2[t], cl)) = l.count - 1 /\ IsFiniteSet(PastLock(st2[t], cl))
  <2>1. IsFiniteSet(PastLock(st[t], cl)) /\ IsFiniteSet(PastLock(st2[t], cl))
    BY PastLockFinite DEF Stacks
  <2>2. Cardinality(PastLock(st[t], cl) \ {n}) = Cardinality(PastLock(st[t], cl)) - 1
    BY <2>1, FS_RemoveElement
  <2> QED
    BY <1>2, <2>1, <2>2
<1>4. \A u \in s.threads : u # t => PastLock(st2[u], cl) = {}
  BY <1>1 DEF LockFits, OthersStay
<1>5. CASE l.count = 1
  <2>1. k.owner = "no one" /\ k.count = 0 /\ k = [owner |-> "no one", count |-> 0]
    BY <1>5 DEF Released
  <2>2. PastLock(st2[t], cl) = {}
    <3>1. Cardinality(PastLock(st2[t], cl)) = 0
      BY <1>2, <1>3, <1>5, OneMoreOrLess
    <3> QED
      BY <1>3, <3>1, FS_EmptySet
  <2>3. \A u \in s.threads : PastLock(st2[u], cl) = {}
    BY <1>4, <2>2
  <2>4. "no one" \in s.threads \cup {"no one"} /\ 0 \in Nat
    OBVIOUS
  <2>5. k \in [owner: s.threads \cup {"no one"}, count: Nat]
    BY <2>1, <2>4
  <2>6. LockFits(s, cl, k, st2)
    BY <2>1, <2>3 DEF LockFits
  <2> QED
    BY <2>5, <2>6
<1>6. CASE l.count # 1
  <2>1. k = [owner |-> t, count |-> l.count - 1]
    BY <1>6 DEF Released
  <2>2. l.count - 1 \in Nat /\ l.count - 1 # 0
    BY <1>2, <1>6, OneMoreOrLess
  <2>3. LockFits(s, cl, [owner |-> t, count |-> l.count - 1], st2)
    BY <1>3, <1>4, <2>2 DEF LockFits
  <2>4. [owner |-> t, count |-> l.count - 1] \in [owner: s.threads \cup {"no one"}, count: Nat]
    BY <2>2
  <2> QED
    BY <2>1, <2>3, <2>4
<1> QED
  BY <1>5, <1>6

\* The calls past the lock: also the last one, without the last one.
AlsoLast(q, r, f) == \A cl : PastLock(r, cl) = PastLock(q, cl) \cup (IF f.cl = cl THEN {Len(q)} ELSE {})
Rebinds(s, t, ac, ac2, b) == ac2[t] = b /\ \A u \in s.threads : u # t => ac2[u] = ac[u]
NotLast(q, r) == \A cl : PastLock(r, cl) = PastLock(q, cl) \ {Len(q)}

\* What the calls of the threads are like when one of them goes on.
LEMMA GoesStacks ==
    ASSUME NEW s, NEW t \in s.threads, NEW st \in Stacks(s), NEW st2 \in Stacks(s), NEW f \in CallFrames(s),
           NEW ac, NEW ac2, Goes(s, t, f, st, st2), StacksFit(s, st, ac),
           NEW b, Rebinds(s, t, ac, ac2, b), b = IF f.pc = "close" THEN f.bound ELSE f.cl
    PROVE  StacksFit(s, st2, ac2) /\ AlsoLast(st[t], st2[t], f)
<1>1. st[t] \in Seq(CallFrames(s)) /\ st2[t] \in Seq(CallFrames(s))
  BY DEF Stacks
<1>2. StackFits(s, st[t]) /\ NothingUnder(st[t])
  BY DEF StacksFit
<1>3. /\ StackFits(s, st2[t]) /\ NothingUnder(st2[t])
      /\ BoundNow(st2[t]) = IF f.pc = "close" THEN f.bound ELSE f.cl
      /\ \A cl : PastLock(st2[t], cl) = PastLock(st[t], cl) \cup (IF f.cl = cl THEN {Len(st[t])} ELSE {})
  BY <1>1, <1>2, ReplacedFits DEF Goes
<1>4. \A u \in s.threads : StackFits(s, st2[u]) /\ NothingUnder(st2[u]) /\ ac2[u] = BoundNow(st2[u])
  <2> TAKE u \in s.threads
  <2>1. CASE u = t
    BY <1>3, <2>1 DEF Rebinds
  <2>2. CASE u # t
    BY <2>2 DEF StacksFit, Goes, Rebinds, OthersStay
  <2> QED
    BY <2>1, <2>2
<1> QED
  BY <1>3, <1>4 DEF StacksFit, AlsoLast

\* A call of another frame is where it was; the last one is f.
LEMMA GoesWhere ==
    ASSUME NEW s, NEW t \in s.threads, NEW st, NEW st2, NEW f, Goes(s, t, f, st, st2),
           NEW u \in s.threads, NEW i \in 1..Len(st2[u])
    PROVE  /\ i \in 1..Len(st[u]) /\ SameCall(st2[u][i], st[u][i])
           /\ st2[u][i] = st[u][i] \/ (u = t /\ i = Len(st[t]) /\ st2[u][i] = f)
<1>1. CASE u = t
  <2>1. i \in 1..Len(st[u])
    BY <1>1 DEF Goes, IsReplaced
  <2>2. CASE i = Len(st[t])
    BY <1>1, <2>1, <2>2 DEF Goes, IsReplaced, SameCall
  <2>3. CASE i # Len(st[t])
    BY <1>1, <2>1, <2>3 DEF Goes, IsReplaced, SameCall
  <2> QED
    BY <2>1, <2>2, <2>3
<1>2. CASE u # t
  BY <1>2 DEF Goes, SameCall, OthersStay
<1> QED
  BY <1>1, <1>2

\* Locks, connections, numbers and events when a call goes on.
LEMMA GoesLocks ==
    ASSUME NEW s, NEW t \in s.threads, NEW st \in Stacks(s), NEW st2 \in Stacks(s), NEW f \in CallFrames(s),
           NEW lk, NEW ac, Goes(s, t, f, st, st2), StacksFit(s, st, ac), st[t][Len(st[t])].pc # "lock", LocksFit(s, lk, st)
    PROVE  LocksFit(s, lk, st2)
<1>1. st[t] \in Seq(CallFrames(s)) /\ st2[t] \in Seq(CallFrames(s)) /\ StackFits(s, st[t]) /\ NothingUnder(st[t])
  BY DEF Stacks, StacksFit
<1>2. \A cl : PastLock(st2[t], cl) = PastLock(st[t], cl) \cup (IF f.cl = cl THEN {Len(st[t])} ELSE {})
  BY <1>1, ReplacedFits DEF Goes
<1>3. \A cl : f.cl = cl => Len(st[t]) \in PastLock(st[t], cl)
  <2>1. Len(st[t]) \in Nat \ {0} /\ st[t][Len(st[t])].cl = f.cl
    BY DEF Goes, IsReplaced, SameCall
  <2>2. Len(st[t]) \in 1..Len(st[t])
    BY <2>1
  <2> QED
    BY <2>1, <2>2 DEF PastLock
<1>4. \A cl : PastLock(st2[t], cl) = PastLock(st[t], cl)
  BY <1>2, <1>3
<1> QED
  BY <1>4, LockKept DEF LocksFit, Goes

\* No connection that is used is closed.
LEMMA GoesConns ==
    ASSUME NEW s, NEW t \in s.threads, NEW st \in Stacks(s), NEW st2 \in Stacks(s), NEW f \in CallFrames(s),
           NEW cn, NEW cn2, Goes(s, t, f, st, st2), ConnsFit(s, cn, st),
           \A cl \in s.clients : cn[cl] => cn2[cl], f.pc = "cored" => cn2[f.cl]
    PROVE  ConnsFit(s, cn2, st2)
<1> SUFFICES ASSUME NEW u \in s.threads, NEW i \in 1..Len(st2[u]), st2[u][i].pc = "cored"
             PROVE  cn2[st2[u][i].cl]
  BY DEF ConnsFit
<1>1. /\ i \in 1..Len(st[u])
      /\ st2[u][i] = st[u][i] \/ (u = t /\ i = Len(st[t]) /\ st2[u][i] = f)
  BY GoesWhere
<1>2. CASE st2[u][i] = st[u][i]
  <2>1. st[u][i] \in CallFrames(s)
    <3>1. st[u] \in Seq(CallFrames(s))
      BY DEF Stacks
    <3> QED
      BY <1>1, <3>1, ElementOfSeq
  <2>2. st[u][i].cl \in s.clients
    BY <2>1 DEF CallFrames
  <2> QED
    BY <1>1, <1>2, <2>2 DEF ConnsFit
<1>3. CASE st2[u][i] = f
  BY <1>3
<1> QED
  BY <1>1, <1>2, <1>3

\* The numbers of the calls stay apart.
LEMMA GoesIds ==
    ASSUME NEW s, NEW t \in s.threads, NEW st \in Stacks(s), NEW st2 \in Stacks(s), NEW f \in CallFrames(s),
           NEW n, NEW g, NEW g2, NEW dn, Goes(s, t, f, st, st2), IdsFit(s, n, st, g, dn),
           \A i \in 1..Len(g2) : g2[i].id <= n
    PROVE  IdsFit(s, n, st2, g2, dn)
<1>1. \A u \in s.threads : \A i \in 1..Len(st2[u]) : i \in 1..Len(st[u]) /\ st2[u][i].id = st[u][i].id
  BY GoesWhere DEF SameCall
<1>2. \A u, v \in s.threads : \A i \in 1..Len(st2[u]), j \in 1..Len(st2[v]) :
         st2[u][i].id = st2[v][j].id => u = v /\ i = j
  BY <1>1 DEF IdsFit
<1>3. /\ \A u \in s.threads : \A i \in 1..Len(st2[u]) : st2[u][i].id <= n
      /\ \A d \in dn : \A u \in s.threads : \A i \in 1..Len(st2[u]) : st2[u][i].id # d.id
  BY <1>1 DEF IdsFit
<1> QED
  BY <1>2, <1>3 DEF IdsFit

\* Events fit the calls if they fit the one that goes on.
LEMMA GoesLog ==
    ASSUME NEW s, NEW t \in s.threads, NEW st \in Stacks(s), NEW st2 \in Stacks(s), NEW f \in CallFrames(s),
           NEW g, NEW dn, Goes(s, t, f, st, st2), LogFits(s, st, g, dn), EventsFit(g, f)
    PROVE  LogFits(s, st2, g, dn)
<1>1. \A u \in s.threads : \A i \in 1..Len(st2[u]) : EventsFit(g, st2[u][i])
  <2> TAKE u \in s.threads
  <2> TAKE i \in 1..Len(st2[u])
  <2>1. /\ i \in 1..Len(st[u])
        /\ st2[u][i] = st[u][i] \/ (u = t /\ i = Len(st[t]) /\ st2[u][i] = f)
    BY GoesWhere
  <2>2. CASE st2[u][i] = st[u][i]
    BY <2>1, <2>2 DEF LogFits
  <2>3. CASE st2[u][i] = f
    BY <2>3
  <2> QED
    BY <2>1, <2>2, <2>3
<1> QED
  BY <1>1 DEF LogFits

\* An event of another call changes nothing for a call.
LEMMA OthersEvents ==
    ASSUME NEW S, NEW g \in Seq(S), NEW e \in S, NEW id, e.id # id
    PROVE  /\ EventsIn(Append(g, e), id) = EventsIn(g, id)
           /\ \A i \in EventsIn(g, id) : Append(g, e)[i] = g[i]
<1>1. IsAdded(g, Append(g, e), e)
  BY LastAdded
<1>2. Len(g) \in Nat /\ Len(Append(g, e)) = Len(g) + 1 /\ Append(g, e)[Len(g) + 1] = e
      /\ \A i \in 1..Len(g) : Append(g, e)[i] = g[i]
  BY <1>1 DEF IsAdded
<1>3. \A i : i \in 1..Len(g) + 1 <=> i \in 1..Len(g) \/ i = Len(g) + 1
  BY <1>2
<1>4. EventsIn(Append(g, e), id) = EventsIn(g, id)
  BY <1>2, <1>3 DEF EventsIn
<1>5. \A i \in EventsIn(g, id) : i \in 1..Len(g)
  BY DEF EventsIn
<1> QED
  BY <1>2, <1>4, <1>5

\* An event of one call leaves what the events say of the others.
LEMMA OthersFit ==
    ASSUME NEW S, NEW g \in Seq(S), NEW e \in S
    PROVE  /\ \A f : e.id # f.id /\ EventsFit(g, f) => EventsFit(Append(g, e), f)
           /\ \A id, op, out : e.id # id /\ Announced(g, id, op, out) => Announced(Append(g, e), id, op, out)
           /\ \A id : e.id # id /\ NoEvents(g, id) => NoEvents(Append(g, e), id)
<1> DEFINE h == Append(g, e)
<1>1. \A id : e.id # id => EventsIn(h, id) = EventsIn(g, id) /\ \A i \in EventsIn(g, id) : h[i] = g[i]
  BY OthersEvents
<1> HIDE DEF h
<1>2. \A id : e.id # id /\ NoEvents(g, id) => NoEvents(h, id)
  BY <1>1 DEF NoEvents
<1>3. \A id : e.id # id /\ Begun(g, id) => Begun(h, id)
  BY <1>1 DEF Begun
<1>4. ASSUME NEW id, NEW op, NEW out, e.id # id, Announced(g, id, op, out)
      PROVE  Announced(h, id, op, out)
  <2>1. EventsIn(h, id) = EventsIn(g, id) /\ \A i \in EventsIn(g, id) : h[i] = g[i]
    BY <1>1, <1>4
  <2>2. PICK first \in EventsIn(g, id) : \E last \in EventsIn(g, id) :
           /\ g[first].kind = "started" /\ IsEnd(g[last])
           /\ \A i \in EventsIn(g, id) : first <= i /\ i <= last /\ (IsEnd(g[i]) => i = last)
           /\ op # "validate" => (g[last].kind = "completed") = (out = "success")
    BY <1>4 DEF Announced
  <2>3. PICK last \in EventsIn(g, id) :
           /\ g[first].kind = "started" /\ IsEnd(g[last])
           /\ \A i \in EventsIn(g, id) : first <= i /\ i <= last /\ (IsEnd(g[i]) => i = last)
           /\ op # "validate" => (g[last].kind = "completed") = (out = "success")
    BY <2>2
  <2>4. /\ first \in EventsIn(h, id) /\ last \in EventsIn(h, id)
        /\ h[first].kind = "started" /\ IsEnd(h[last])
        /\ \A i \in EventsIn(h, id) : first <= i /\ i <= last /\ (IsEnd(h[i]) => i = last)
        /\ op # "validate" => (h[last].kind = "completed") = (out = "success")
    BY <2>1, <2>2, <2>3
  <2> QED
    BY <2>4 DEF Announced
<1>5. \A f : e.id # f.id /\ EventsFit(g, f) => EventsFit(h, f)
  BY <1>2, <1>3, <1>4 DEF EventsFit
<1> QED
  BY <1>2, <1>4, <1>5 DEF h

\* A call that goes on and emits an event of its own.
LEMMA GoesEmits ==
    ASSUME NEW s, NEW t \in s.threads, NEW st \in Stacks(s), NEW st2 \in Stacks(s), NEW f \in CallFrames(s),
           NEW S, NEW g \in Seq(S), NEW e \in S, NEW dn, NEW n, Goes(s, t, f, st, st2), LogFits(s, st, g, dn),
           IdsFit(s, n, st, g, dn), e.id = f.id, e.on = e.cl, EventsFit(Append(g, e), f)
    PROVE  LogFits(s, st2, Append(g, e), dn)
<1> DEFINE h == Append(g, e)
<1>1. Len(g) \in Nat /\ Len(h) = Len(g) + 1 /\ h[Len(g) + 1] = e /\ \A i \in 1..Len(g) : h[i] = g[i]
  BY LastAdded DEF IsAdded
<1>2. \A i \in 1..Len(h) : i \in 1..Len(g) \/ i = Len(g) + 1
  BY <1>1
<1>3. \A i \in 1..Len(h) : h[i].on = h[i].cl
  BY <1>1, <1>2 DEF LogFits
<1>4. /\ f.id = st[t][Len(st[t])].id /\ Len(st[t]) \in 1..Len(st[t])
  BY DEF Goes, SameCall, IsReplaced
<1>5. /\ \A k : e.id # k.id /\ EventsFit(g, k) => EventsFit(h, k)
      /\ \A id, op, out : e.id # id /\ Announced(g, id, op, out) => Announced(h, id, op, out)
      /\ \A id : e.id # id /\ NoEvents(g, id) => NoEvents(h, id)
  BY OthersFit
<1>6. EventsFit(h, f)
  OBVIOUS
<1> HIDE DEF h
<1>7. ASSUME NEW u \in s.threads, NEW i \in 1..Len(st2[u])
      PROVE  EventsFit(h, st2[u][i])
  <2>1. /\ i \in 1..Len(st[u])
        /\ st2[u][i] = st[u][i] \/ (u = t /\ i = Len(st[t]) /\ st2[u][i] = f)
    BY <1>7, GoesWhere
  <2>2. CASE u = t /\ i = Len(st[t])
    <3>1. st2[u][i] = f
      BY <2>2 DEF Goes, IsReplaced
    <3> QED
      BY <1>6, <3>1
  <2>3. CASE ~(u = t /\ i = Len(st[t]))
    <3>1. st2[u][i] = st[u][i] /\ EventsFit(g, st[u][i])
      BY <2>1, <2>3 DEF LogFits
    <3>2. st[u][i].id # e.id
      BY <1>4, <2>1, <2>3 DEF IdsFit
    <3> QED
      BY <1>5, <3>1, <3>2
  <2> QED
    BY <2>2, <2>3
<1>8. ASSUME NEW d \in dn
      PROVE  NoEvents(h, d.id) \/ Announced(h, d.id, d.op, d.out)
  <2>1. d.id # e.id
    BY <1>4 DEF IdsFit
  <2> QED
    BY <1>5, <2>1 DEF LogFits
<1>9. LogFits(s, st2, h, dn)
  BY <1>3, <1>7, <1>8 DEF LogFits
<1> QED
  BY <1>9 DEF h

\* The last call of a thread has room for another one inside: it is in a listener, it is the
\* override if there is one, and no mutating call would be underneath another one.
HasRoom(s, q, f) ==
    /\ q = << >> \/ Listens(q[Len(q)])
    /\ s.override /\ f.wrap = "base" /\ f.op # "close" =>
         Len(q) > 0 /\ q[Len(q)].wrap = "derived" /\ q[Len(q)].cl = f.cl /\ q[Len(q)].op = f.op
    /\ f.op \in {"info", "validate"} \/ \A i \in 1..Len(q) : q[i].cl = f.cl =>
         /\ i = Len(q) /\ q[i].op = f.op /\ q[i].wrap = "derived" /\ f.wrap = "base"

\* A call is added, which waits for the lock.
LEMMA AddsStacks ==
    ASSUME NEW s, NEW t \in s.threads, NEW st \in Stacks(s), NEW st2 \in Stacks(s), NEW f \in CallFrames(s),
           NEW ac, Adds(s, t, f, st, st2), StacksFit(s, st, ac), FrameFits(s, f), f.pc = "lock",
           HasRoom(s, st[t], f)
    PROVE  /\ StacksFit(s, st2, ac)
           /\ \A cl : PastLock(st2[t], cl) = PastLock(st[t], cl)
<1>1. st[t] \in Seq(CallFrames(s)) /\ st2[t] \in Seq(CallFrames(s))
  BY DEF Stacks
<1>2. StackFits(s, st[t]) /\ NothingUnder(st[t]) /\ ac[t] = BoundNow(st[t]) /\ IsAdded(st[t], st2[t], f)
  BY DEF StacksFit, Adds
<1>3. NothingUnder(st2[t])
  BY <1>1, <1>2, AddedUnder DEF HasRoom
<1>4. /\ StackFits(s, st2[t]) /\ BoundNow(st2[t]) = BoundNow(st[t])
      /\ \A cl : PastLock(st2[t], cl) = PastLock(st[t], cl)
  BY <1>1, <1>2, AddedFits DEF HasRoom
<1>5. \A u \in s.threads : StackFits(s, st2[u]) /\ NothingUnder(st2[u]) /\ ac[u] = BoundNow(st2[u])
  <2> TAKE u \in s.threads
  <2>1. CASE u = t
    BY <1>2, <1>3, <1>4, <2>1
  <2>2. CASE u # t
    BY <2>2 DEF StacksFit, Adds, OthersStay
  <2> QED
    BY <2>1, <2>2
<1> QED
  BY <1>4, <1>5 DEF StacksFit

\* A call of another frame is where it was; the new one is the last.
LEMMA AddsWhere ==
    ASSUME NEW s, NEW t \in s.threads, NEW st, NEW st2, NEW f, Adds(s, t, f, st, st2),
           NEW u \in s.threads, NEW i \in 1..Len(st2[u])
    PROVE  \/ i \in 1..Len(st[u]) /\ st2[u][i] = st[u][i]
           \/ u = t /\ i = Len(st[t]) + 1 /\ st2[u][i] = f
<1>1. CASE u = t
  <2>1. Len(st[t]) \in Nat /\ Len(st2[t]) = Len(st[t]) + 1
    BY DEF Adds, IsAdded
  <2>2. i \in 1..Len(st[t]) \/ i = Len(st[t]) + 1
    BY <1>1, <2>1
  <2> QED
    BY <1>1, <2>2 DEF Adds, IsAdded
<1>2. CASE u # t
  BY <1>2 DEF Adds, OthersStay
<1> QED
  BY <1>1, <1>2

\* Connections, numbers and events when a call is added.
LEMMA AddsOthers ==
    ASSUME NEW s, NEW t \in s.threads, NEW st \in Stacks(s), NEW st2 \in Stacks(s), NEW f \in CallFrames(s),
           NEW cn, NEW n \in Nat, NEW g, NEW dn, Adds(s, t, f, st, st2), f.id = n + 1, f.pc = "lock",
           ConnsFit(s, cn, st), IdsFit(s, n, st, g, dn), LogFits(s, st, g, dn),
           g \in Seq(CallEventsOf(s)), dn \subseteq CallRecords(s)
    PROVE  ConnsFit(s, cn, st2) /\ IdsFit(s, n + 1, st2, g, dn) /\ LogFits(s, st2, g, dn)
<1>1. \A u \in s.threads : \A i \in 1..Len(st2[u]) :
         \/ i \in 1..Len(st[u]) /\ st2[u][i] = st[u][i]
         \/ u = t /\ i = Len(st[t]) + 1 /\ st2[u][i] = f
  BY AddsWhere
<1>2. ConnsFit(s, cn, st2)
  BY <1>1 DEF ConnsFit
<1>3. \A u \in s.threads : \A i \in 1..Len(st[u]) : st[u][i].id \in Nat /\ st[u][i].id <= n
  <2> TAKE u \in s.threads
  <2> TAKE i \in 1..Len(st[u])
  <2>1. st[u] \in Seq(CallFrames(s))
    BY DEF Stacks
  <2>2. st[u][i] \in CallFrames(s)
    BY <2>1, ElementOfSeq
  <2> QED
    BY <2>2 DEF CallFrames, IdsFit
<1>4. \A d \in dn : d.id \in Nat /\ d.id <= n
  BY DEF CallRecords, IdsFit
<1>5. \A i \in 1..Len(g) : g[i].id \in Nat /\ g[i].id <= n
  <2> TAKE i \in 1..Len(g)
  <2>1. g[i] \in CallEventsOf(s)
    BY ElementOfSeq
  <2> QED
    BY <2>1 DEF CallEventsOf, IdsFit
<1>6. \A m \in Nat : m <= n => m <= n + 1 /\ m # n + 1
  OBVIOUS
<1>7. IdsFit(s, n + 1, st2, g, dn)
  <2>1. \A u \in s.threads : \A i \in 1..Len(st2[u]) : st2[u][i].id <= n + 1
    BY <1>1, <1>3, <1>6
  <2>2. ASSUME NEW u \in s.threads, NEW v \in s.threads, NEW i \in 1..Len(st2[u]), NEW j \in 1..Len(st2[v]),
               st2[u][i].id = st2[v][j].id
        PROVE  u = v /\ i = j
    <3>1. CASE i \in 1..Len(st[u]) /\ st2[u][i] = st[u][i] /\ j \in 1..Len(st[v]) /\ st2[v][j] = st[v][j]
      BY <2>2, <3>1 DEF IdsFit
    <3>2. CASE u = t /\ i = Len(st[t]) + 1 /\ st2[u][i] = f
      <4>1. st2[v][j].id = n + 1
        BY <2>2, <3>2
      <4>2. ~(j \in 1..Len(st[v]) /\ st2[v][j] = st[v][j])
        BY <1>3, <1>6, <4>1
      <4>3. v = t /\ j = Len(st[t]) + 1
        BY <1>1, <4>2
      <4> QED
        BY <3>2, <4>3
    <3>3. CASE v = t /\ j = Len(st[t]) + 1 /\ st2[v][j] = f
      <4>1. st2[u][i].id = n + 1
        BY <2>2, <3>3
      <4>2. ~(i \in 1..Len(st[u]) /\ st2[u][i] = st[u][i])
        BY <1>3, <1>6, <4>1
      <4>3. u = t /\ i = Len(st[t]) + 1
        BY <1>1, <4>2
      <4> QED
        BY <3>3, <4>3
    <3> QED
      BY <1>1, <3>1, <3>2, <3>3
  <2>3. \A d \in dn : d.id <= n + 1
    BY <1>4, <1>6
  <2>4. \A d \in dn : \A u \in s.threads : \A i \in 1..Len(st2[u]) : st2[u][i].id # d.id
    <3> SUFFICES ASSUME NEW d \in dn, NEW u \in s.threads, NEW i \in 1..Len(st2[u]) PROVE st2[u][i].id # d.id
      OBVIOUS
    <3>1. CASE i \in 1..Len(st[u]) /\ st2[u][i] = st[u][i]
      BY <3>1 DEF IdsFit
    <3>2. CASE st2[u][i] = f
      BY <1>4, <1>6, <3>2
    <3> QED
      BY <1>1, <3>1, <3>2
  <2>5. \A i \in 1..Len(g) : g[i].id <= n + 1
    BY <1>5, <1>6
  <2> QED
    BY <2>1, <2>2, <2>3, <2>4, <2>5 DEF IdsFit
<1>8. LogFits(s, st2, g, dn)
  <2>1. NoEvents(g, f.id)
    BY <1>5, <1>6 DEF NoEvents, EventsIn
  <2>2. EventsFit(g, f)
    BY <2>1 DEF EventsFit
  <2>3. \A u \in s.threads : \A i \in 1..Len(st2[u]) : EventsFit(g, st2[u][i])
    BY <1>1, <2>2 DEF LogFits
  <2> QED
    BY <2>3 DEF LogFits
<1> QED
  BY <1>2, <1>7, <1>8

\* The last call of a thread is over.
LEMMA DropsStacks ==
    ASSUME NEW s, NEW t \in s.threads, NEW st \in Stacks(s), NEW st2 \in Stacks(s),
           NEW ac, NEW ac2, Drops(s, t, st, st2), StacksFit(s, st, ac),
           Rebinds(s, t, ac, ac2, BoundIn(st[t], Len(st[t]) - 1))
    PROVE  StacksFit(s, st2, ac2) /\ NotLast(st[t], st2[t])
<1>1. st[t] \in Seq(CallFrames(s)) /\ st2[t] \in Seq(CallFrames(s))
  BY DEF Stacks
<1>2. StackFits(s, st[t]) /\ NothingUnder(st[t]) /\ IsRemoved(st[t], st2[t])
  BY DEF StacksFit, Drops
<1>3. /\ StackFits(s, st2[t]) /\ NothingUnder(st2[t])
      /\ BoundNow(st2[t]) = BoundIn(st[t], Len(st[t]) - 1)
      /\ \A cl : PastLock(st2[t], cl) = PastLock(st[t], cl) \ {Len(st[t])}
  BY <1>1, <1>2, RemovedFits
<1>4. \A u \in s.threads : StackFits(s, st2[u]) /\ NothingUnder(st2[u]) /\ ac2[u] = BoundNow(st2[u])
  <2> TAKE u \in s.threads
  <2>1. CASE u = t
    BY <1>3, <2>1 DEF Rebinds
  <2>2. CASE u # t
    BY <2>2 DEF StacksFit, Drops, Rebinds, OthersStay
  <2> QED
    BY <2>1, <2>2
<1> QED
  BY <1>3, <1>4 DEF StacksFit, NotLast

\* Another call is where it was.
Remains(t, st, st2, u, i) == i \in 1..Len(st[u]) /\ st2[u][i] = st[u][i] /\ ~(u = t /\ i = Len(st[t]))

\* A call that is left after the last one of a thread returned is where it was.
LEMMA DropsWhere ==
    ASSUME NEW s, NEW t \in s.threads, NEW st, NEW st2, Drops(s, t, st, st2),
           NEW u \in s.threads, NEW i \in 1..Len(st2[u])
    PROVE  Remains(t, st, st2, u, i)
<1>1. CASE u = t
  <2>1. Len(st[t]) \in Nat \ {0} /\ Len(st2[t]) = Len(st[t]) - 1
    BY DEF Drops, IsRemoved
  <2>2. i \in 1..Len(st[t]) /\ i # Len(st[t])
    BY <1>1, <2>1
  <2> QED
    BY <1>1, <2>2 DEF Drops, IsRemoved, Remains
<1>2. CASE u # t
  BY <1>2 DEF Drops, Remains, OthersStay
<1> QED
  BY <1>1, <1>2

\* Connections, numbers and events when a call is over.
LEMMA DropsOthers ==
    ASSUME NEW s, NEW t \in s.threads, NEW st \in Stacks(s), NEW st2 \in Stacks(s),
           NEW cn, NEW cn2, NEW n, NEW g, NEW dn, NEW d, Drops(s, t, st, st2),
           ConnsFit(s, cn, st), IdsFit(s, n, st, g, dn), LogFits(s, st, g, dn),
           d.id = st[t][Len(st[t])].id, NoEvents(g, d.id) \/ Announced(g, d.id, d.op, d.out),
           \A u \in s.threads : \A i \in 1..Len(st2[u]) :
             st2[u][i].pc = "cored" => cn2[st2[u][i].cl] = cn[st2[u][i].cl]
    PROVE  ConnsFit(s, cn2, st2) /\ IdsFit(s, n, st2, g, dn \cup {d}) /\ LogFits(s, st2, g, dn \cup {d})
<1>1. \A u \in s.threads : \A i \in 1..Len(st2[u]) :
        i \in 1..Len(st[u]) /\ st2[u][i] = st[u][i] /\ ~(u = t /\ i = Len(st[t]))
  BY DropsWhere DEF Remains
<1>2. ConnsFit(s, cn2, st2)
  BY <1>1 DEF ConnsFit
<1>3. Len(st[t]) \in 1..Len(st[t])
  <2>1. Len(st[t]) \in Nat \ {0}
    BY DEF Drops, IsRemoved
  <2> QED
    BY <2>1
<1>4. d.id <= n
  BY <1>3 DEF IdsFit
<1>5. \A u \in s.threads : \A i \in 1..Len(st2[u]) : st2[u][i].id # d.id
  <2> TAKE u \in s.threads
  <2> TAKE i \in 1..Len(st2[u])
  <2>1. i \in 1..Len(st[u]) /\ st2[u][i] = st[u][i] /\ ~(u = t /\ i = Len(st[t]))
    BY <1>1
  <2>2. st[u][i].id = st[t][Len(st[t])].id => u = t /\ i = Len(st[t])
    BY <1>3, <2>1 DEF IdsFit
  <2> QED
    BY <2>1, <2>2
<1>6. IdsFit(s, n, st2, g, dn \cup {d})
  <2>1. \A u \in s.threads : \A i \in 1..Len(st2[u]) : st2[u][i].id <= n
    BY <1>1 DEF IdsFit
  <2>2. \A u, v \in s.threads : \A i \in 1..Len(st2[u]), j \in 1..Len(st2[v]) :
          st2[u][i].id = st2[v][j].id => u = v /\ i = j
    <3> SUFFICES ASSUME NEW u \in s.threads, NEW v \in s.threads, NEW i \in 1..Len(st2[u]),
                        NEW j \in 1..Len(st2[v]), st2[u][i].id = st2[v][j].id
                 PROVE  u = v /\ i = j
      OBVIOUS
    <3>1. i \in 1..Len(st[u]) /\ j \in 1..Len(st[v]) /\ st[u][i].id = st[v][j].id
      BY <1>1
    <3> QED
      BY <3>1 DEF IdsFit
  <2>3. \A k \in dn \cup {d} : k.id <= n /\ \A u \in s.threads : \A i \in 1..Len(st2[u]) : st2[u][i].id # k.id
    BY <1>1, <1>4, <1>5 DEF IdsFit
  <2> QED
    BY <2>1, <2>2, <2>3 DEF IdsFit
<1>7. LogFits(s, st2, g, dn \cup {d})
  BY <1>1 DEF LogFits
<1> QED
  BY <1>2, <1>6, <1>7

\* The last call of a thread, in the state of the invariant.
Last(q) == q[Len(q)]

\* The last call of a thread.
LEMMA LastFits ==
    ASSUME NEW s, NEW t \in s.threads, CallInv(s), stack[t] # << >>
    PROVE  /\ stack \in Stacks(s) /\ stack[t] \in Seq(CallFrames(s))
           /\ Len(stack[t]) \in Nat \ {0} /\ Len(stack[t]) \in 1..Len(stack[t])
           /\ Last(stack[t]) \in CallFrames(s) /\ FrameFits(s, Last(stack[t]))
           /\ Last(stack[t]).pc # "lock" => Last(stack[t]).bound = BoundIn(stack[t], Len(stack[t]) - 1)
           /\ EventsFit(log, Last(stack[t])) /\ active[t] = BoundNow(stack[t])
<1>1. stack \in Stacks(s) /\ stack[t] \in Seq(CallFrames(s))
  BY DEF CallInv, CallTypes, Stacks
<1>2. Len(stack[t]) \in Nat \ {0} /\ Len(stack[t]) \in 1..Len(stack[t])
  BY <1>1, LenProperties, EmptySeq
<1>3. Last(stack[t]) \in CallFrames(s)
  BY <1>1, <1>2, ElementOfSeq DEF Last
<1>4. StackFits(s, stack[t]) /\ active[t] = BoundNow(stack[t])
  BY DEF CallInv, StacksFit
<1>5. /\ FrameFits(s, Last(stack[t]))
      /\ Last(stack[t]).pc # "lock" => Last(stack[t]).bound = BoundIn(stack[t], Len(stack[t]) - 1)
  BY <1>2, <1>4 DEF StackFits, Last
<1>6. EventsFit(log, Last(stack[t]))
  BY <1>2 DEF CallInv, LogFits, Last
<1> QED
  BY <1>1, <1>2, <1>3, <1>4, <1>5, <1>6

\* An assignment to the last call of one thread.
Becomes(s, t, g, st, st2) ==
    st2 \in Stacks(s) /\ IsReplaced(st[t], st2[t], g) /\ OthersStay(s, t, st, st2)

\* Assigning the last call of a thread replaces it there only.
LEMMA LastAssigned ==
    ASSUME NEW s, NEW t \in s.threads, NEW st \in Stacks(s), st[t] # << >>, NEW g \in CallFrames(s),
           NEW st2, st2 = [st EXCEPT ![t][Len(st[t])] = g]
    PROVE  Becomes(s, t, g, st, st2)
<1>1. st[t] \in Seq(CallFrames(s))
  BY DEF Stacks
<1> DEFINE r == [st[t] EXCEPT ![Len(st[t])] = g]  Q == Seq(CallFrames(s))
<1>2. r \in Q /\ IsReplaced(st[t], r, g)
  BY <1>1, LastReplaced
<1>3. st2 = [st EXCEPT ![t] = r]
  OBVIOUS
<1> HIDE DEF r, Q
<1>4. st \in [s.threads -> Q]
  BY DEF Stacks, Q
<1>5. st2 \in [s.threads -> Q] /\ st2[t] = r /\ \A u \in s.threads : u # t => st2[u] = st[u]
  BY <1>2, <1>3, <1>4
<1> QED
  BY <1>2, <1>5 DEF Stacks, Q, Becomes, OthersStay

\* A call that is past the lock goes on, its emitter and its lock as before.
LEMMA CallTurns ==
    ASSUME NEW s, NEW t \in s.threads, CallInv(s), stack[t] # << >>,
           Last(stack[t]).pc \notin {"lock", "close"}, NEW g \in CallFrames(s),
           SameCall(g, Last(stack[t])), FrameFits(s, g), g.pc \notin {"lock", "close"},
           g.bound = Last(stack[t]).bound, NEW st2, st2 = [stack EXCEPT ![t][Len(stack[t])] = g]
    PROVE  /\ Goes(s, t, g, stack, st2) /\ st2 \in Stacks(s) /\ stack \in Stacks(s)
           /\ StacksFit(s, st2, active) /\ LocksFit(s, lock, st2)
<1>1. /\ stack \in Stacks(s) /\ stack[t] \in Seq(CallFrames(s))
      /\ Last(stack[t]).bound = BoundIn(stack[t], Len(stack[t]) - 1) /\ active[t] = BoundNow(stack[t])
  BY LastFits
<1>2. st2 \in Stacks(s) /\ IsReplaced(stack[t], st2[t], g) /\ OthersStay(s, t, stack, st2)
  <2>1. Becomes(s, t, g, stack, st2)
    BY <1>1, LastAssigned
  <2> QED
    BY <2>1 DEF Becomes
<1>3. Goes(s, t, g, stack, st2)
  BY <1>1, <1>2 DEF Goes, Last
<1>4. StacksFit(s, stack, active) /\ LocksFit(s, lock, stack)
  BY DEF CallInv
<1>5. active[t] = IF g.pc = "close" THEN g.bound ELSE g.cl
  BY <1>1 DEF BoundNow, Last, SameCall
<1>6. StacksFit(s, st2, active)
  <2>1. Rebinds(s, t, active, active, active[t])
    BY DEF Rebinds
  <2> QED
    BY <1>1, <1>2, <1>3, <1>4, <1>5, <2>1, GoesStacks
<1>7. LocksFit(s, lock, st2)
  BY <1>1, <1>2, <1>3, <1>4, GoesLocks DEF Last
<1> QED
  BY <1>1, <1>2, <1>3, <1>6, <1>7

\* A call at another point, with another outcome.
Points == {"lock", "check", "begin", "began", "core", "cored", "super", "end", "ended", "close"}

\* A call that moves to another point is still one.
LEMMA FrameTurned ==
    ASSUME NEW s, NEW f \in CallFrames(s), NEW p \in Points
    PROVE  LET g == [f EXCEPT !.pc = p]
           IN  g \in CallFrames(s) /\ SameCall(g, f) /\ g.pc = p /\ g.bound = f.bound /\ g.out = f.out
BY DEF CallFrames, SameCall, Points

\* So is one that moves with its outcome.
LEMMA FrameOver ==
    ASSUME NEW s, NEW f \in CallFrames(s), NEW out \in {"success", "failure", "preflight", "error"}
    PROVE  LET g == [f EXCEPT !.out = out]
           IN  g \in CallFrames(s) /\ SameCall(g, f) /\ g.pc = f.pc /\ g.bound = f.bound /\ g.out = out
BY DEF CallFrames, SameCall

\* A call past the lock that goes on, and emits at most one event of its own.
LEMMA CallAdvances ==
    ASSUME NEW s, NEW t \in s.threads, CallInv(s), stack[t] # << >>,
           Last(stack[t]).pc \notin {"lock", "close"}, NEW g \in CallFrames(s),
           SameCall(g, Last(stack[t])), FrameFits(s, g), g.pc \notin {"lock", "close"},
           g.bound = Last(stack[t]).bound, stack' = [stack EXCEPT ![t][Len(stack[t])] = g],
           UNCHANGED <<issued, lock, active, done>>, conn' \in [s.clients -> BOOLEAN],
           \A cl \in s.clients : conn[cl] => conn'[cl], g.pc = "cored" => conn'[g.cl],
           \/ log' = log /\ EventsFit(log, g)
           \/ \E e \in CallEventsOf(s) :
                log' = Append(log, e) /\ e.id = g.id /\ e.on = e.cl /\ EventsFit(Append(log, e), g)
    PROVE  CallInv(s)'
<1>1. /\ Goes(s, t, g, stack, stack') /\ stack' \in Stacks(s) /\ stack \in Stacks(s)
      /\ StacksFit(s, stack', active) /\ LocksFit(s, lock, stack')
  BY CallTurns
<1>2. /\ ConnsFit(s, conn, stack) /\ IdsFit(s, issued, stack, log, done) /\ LogFits(s, stack, log, done)
      /\ log \in Seq(CallEventsOf(s)) /\ CallTypes(s)
  BY DEF CallInv, CallTypes
<1>3. ConnsFit(s, conn', stack')
  BY <1>1, <1>2, GoesConns
<1>4. log' \in Seq(CallEventsOf(s)) /\ IdsFit(s, issued, stack', log', done) /\ LogFits(s, stack', log', done)
  <2>1. CASE log' = log /\ EventsFit(log, g)
    <3>1. \A i \in 1..Len(log) : log[i].id <= issued
      BY <1>2 DEF IdsFit
    <3>2. IdsFit(s, issued, stack', log, done)
      BY <1>1, <1>2, <3>1, GoesIds
    <3>3. LogFits(s, stack', log, done)
      BY <1>1, <1>2, <2>1, GoesLog
    <3> QED
      BY <1>2, <2>1, <3>2, <3>3
  <2>2. CASE \E e \in CallEventsOf(s) :
                log' = Append(log, e) /\ e.id = g.id /\ e.on = e.cl /\ EventsFit(Append(log, e), g)
    <3>1. PICK e \in CallEventsOf(s) :
                log' = Append(log, e) /\ e.id = g.id /\ e.on = e.cl /\ EventsFit(Append(log, e), g)
      BY <2>2
    <3>2. Append(log, e) \in Seq(CallEventsOf(s)) /\ IsAdded(log, Append(log, e), e)
      BY <1>2, LastAdded
    <3>3. e.id <= issued
      <4>1. Len(stack[t]) \in 1..Len(stack[t])
        BY LastFits
      <4>2. Last(stack[t]).id <= issued
        BY <1>2, <4>1 DEF IdsFit, Last
      <4> QED
        BY <3>1, <4>2 DEF SameCall
    <3>4. \A i \in 1..Len(Append(log, e)) : Append(log, e)[i].id <= issued
      <4> SUFFICES ASSUME NEW i \in 1..Len(Append(log, e)) PROVE Append(log, e)[i].id <= issued
        OBVIOUS
      <4>1. i \in 1..Len(log) \/ i = Len(log) + 1
        BY <3>2 DEF IsAdded
      <4>2. CASE i \in 1..Len(log)
        BY <1>2, <3>2, <4>2 DEF IsAdded, IdsFit
      <4>3. CASE i = Len(log) + 1
        BY <3>2, <3>3, <4>3 DEF IsAdded
      <4> QED
        BY <4>1, <4>2, <4>3
    <3>5. IdsFit(s, issued, stack', Append(log, e), done)
      BY <1>1, <1>2, <3>4, GoesIds
    <3>6. LogFits(s, stack', Append(log, e), done)
      BY <1>1, <1>2, <3>1, GoesEmits
    <3> QED
      BY <3>1, <3>2, <3>5, <3>6
  <2> QED
    BY <2>1, <2>2
<1>5. CallTypes(s)'
  BY <1>1, <1>2, <1>4 DEF CallTypes, Stacks
<1>6. issued' = issued /\ lock' = lock /\ active' = active /\ done' = done
  OBVIOUS
<1> QED
  BY <1>1, <1>3, <1>4, <1>5, <1>6 DEF CallInv

\* The events of a call with one more of its own.
GainsEvent(g, h, e) ==
    /\ Len(g) \in Nat /\ EventsIn(h, e.id) = EventsIn(g, e.id) \cup {Len(g) + 1} /\ h[Len(g) + 1] = e
    /\ \A i \in EventsIn(g, e.id) : i \in 1..Len(g) /\ h[i] = g[i] /\ i < Len(g) + 1

\* The events of a call after one more.
LEMMA OneEventMore ==
    ASSUME NEW S, NEW g \in Seq(S), NEW e \in S
    PROVE  GainsEvent(g, Append(g, e), e)
<1>1. Len(g) \in Nat /\ Len(Append(g, e)) = Len(g) + 1 /\ Append(g, e)[Len(g) + 1] = e
      /\ \A i \in 1..Len(g) : Append(g, e)[i] = g[i]
  BY LastAdded DEF IsAdded
<1>2. \A i : i \in 1..Len(g) + 1 <=> i \in 1..Len(g) \/ i = Len(g) + 1
  BY <1>1
<1>3. EventsIn(Append(g, e), e.id) = EventsIn(g, e.id) \cup {Len(g) + 1}
  BY <1>1, <1>2 DEF EventsIn
<1>4. \A i \in EventsIn(g, e.id) : i \in 1..Len(g) /\ i < Len(g) + 1
  BY <1>1 DEF EventsIn
<1> QED
  BY <1>1, <1>3, <1>4 DEF GainsEvent

\* A started event begins the events of a call.
LEMMA EventsBegin ==
    ASSUME NEW S, NEW g \in Seq(S), NEW e \in S, NoEvents(g, e.id), e.kind = "started"
    PROVE  Begun(Append(g, e), e.id)
<1>1. /\ Len(g) \in Nat /\ EventsIn(Append(g, e), e.id) = {Len(g) + 1}
      /\ Append(g, e)[Len(g) + 1] = e
  BY OneEventMore DEF NoEvents, GainsEvent
<1>2. ~IsEnd(e) /\ Len(g) + 1 <= Len(g) + 1
  BY <1>1 DEF IsEnd
<1> QED
  BY <1>1, <1>2 DEF Begun

\* A core event goes on with them.
LEMMA EventsGoOn ==
    ASSUME NEW S, NEW g \in Seq(S), NEW e \in S, Begun(g, e.id), e.kind = "core"
    PROVE  Begun(Append(g, e), e.id)
<1> DEFINE h == Append(g, e)
<1>0. GainsEvent(g, h, e)
  BY OneEventMore
<1> HIDE DEF h
<1>1. /\ Len(g) \in Nat /\ EventsIn(h, e.id) = EventsIn(g, e.id) \cup {Len(g) + 1} /\ h[Len(g) + 1] = e
      /\ \A i \in EventsIn(g, e.id) : i \in 1..Len(g) /\ h[i] = g[i] /\ i < Len(g) + 1
  BY <1>0 DEF GainsEvent
<1>2. PICK first \in EventsIn(g, e.id) :
         g[first].kind = "started" /\ \A i \in EventsIn(g, e.id) : first <= i /\ ~IsEnd(g[i])
  BY DEF Begun
<1>3. first \in EventsIn(h, e.id) /\ h[first].kind = "started" /\ first <= Len(g) + 1
  BY <1>1, <1>2
<1>4. ~IsEnd(e)
  BY DEF IsEnd
<1>5. \A i \in EventsIn(h, e.id) : first <= i /\ ~IsEnd(h[i])
  BY <1>1, <1>2, <1>3, <1>4
<1>6. Begun(h, e.id)
  BY <1>3, <1>5 DEF Begun
<1> QED
  BY <1>6 DEF h

\* A completed or failed event ends them.
LEMMA EventsEnd ==
    ASSUME NEW S, NEW g \in Seq(S), NEW e \in S, Begun(g, e.id), IsEnd(e), NEW op, NEW out,
           op # "validate" => (e.kind = "completed") = (out = "success")
    PROVE  Announced(Append(g, e), e.id, op, out)
<1> DEFINE h == Append(g, e)
<1>0. GainsEvent(g, h, e)
  BY OneEventMore
<1> HIDE DEF h
<1>1. /\ Len(g) \in Nat /\ EventsIn(h, e.id) = EventsIn(g, e.id) \cup {Len(g) + 1} /\ h[Len(g) + 1] = e
      /\ \A i \in EventsIn(g, e.id) : i \in 1..Len(g) /\ h[i] = g[i] /\ i < Len(g) + 1
  BY <1>0 DEF GainsEvent
<1>2. PICK first \in EventsIn(g, e.id) :
         g[first].kind = "started" /\ \A i \in EventsIn(g, e.id) : first <= i /\ ~IsEnd(g[i])
  BY DEF Begun
<1>3. first \in EventsIn(h, e.id) /\ h[first].kind = "started" /\ first <= Len(g) + 1 /\ Len(g) + 1 \in EventsIn(h, e.id)
  BY <1>1, <1>2
<1>4. ASSUME NEW i \in EventsIn(h, e.id)
      PROVE  first <= i /\ i <= Len(g) + 1 /\ (IsEnd(h[i]) => i = Len(g) + 1)
  <2>1. CASE i \in EventsIn(g, e.id)
    <3>1. first <= i /\ ~IsEnd(h[i])
      BY <1>1, <1>2, <2>1
    <3>2. i <= Len(g) + 1
      BY <1>1, <2>1
    <3> QED
      BY <3>1, <3>2
  <2>2. CASE i = Len(g) + 1
    BY <1>1, <1>3, <2>2
  <2> QED
    BY <1>1, <2>1, <2>2
<1>5. IsEnd(h[Len(g) + 1]) /\ (op # "validate" => (h[Len(g) + 1].kind = "completed") = (out = "success"))
  BY <1>1
<1>6. Announced(h, e.id, op, out)
  BY <1>3, <1>4, <1>5 DEF Announced
<1> QED
  BY <1>6 DEF h

\* The points of a call that emits nothing and goes on: the target version is known, the
\* listeners of an event have returned, super() is refused.
LEMMA CallGoesOnQuietly ==
    ASSUME NEW s \in Programs, NEW t \in s.threads, CallInv(s), "no one" \notin s.threads,
           s.results \subseteq Client(s)!Outcomes,
           \/ /\ Client(s)!In(t, "check") /\ Client(s)!SetTop(t, Client(s)!Goto(Client(s)!Top(t), "begin"))
              /\ UNCHANGED <<issued, lock, active, done>> /\ UNCHANGED <<conn, log>>
           \/ Client(s)!Resume(t)
           \/ /\ Client(s)!In(t, "super")
              /\ Client(s)!SetTop(t, [Client(s)!Goto(Client(s)!Top(t), "ended") EXCEPT !.out = "error"])
              /\ UNCHANGED <<issued, lock, active, conn, log, done>>
    PROVE  CallInv(s)'
<1> DEFINE f == Last(stack[t])
<1>1. stack[t] # << >> /\ Client(s)!Top(t) = f /\ f.pc \in {"check", "began", "cored", "super"}
  BY DEF Client!In, Client!Resume, Client!Top, Last
<1>2. /\ f \in CallFrames(s) /\ FrameFits(s, f) /\ EventsFit(log, f)
  BY <1>1, LastFits
<1>3. /\ conn \in [s.clients -> BOOLEAN] /\ UNCHANGED <<issued, lock, active, done>> /\ UNCHANGED <<conn, log>>
  BY DEF CallInv, CallTypes, Client!Resume
<1>4. \/ f.pc = "check" /\ stack' = [stack EXCEPT ![t][Len(stack[t])] = [f EXCEPT !.pc = "begin"]]
      \/ f.pc = "began" /\ stack' = [stack EXCEPT ![t][Len(stack[t])] = [f EXCEPT !.pc = "core"]]
      \/ f.pc = "cored" /\ \E out \in {"success", "failure", "preflight", "error"} :
           stack' = [stack EXCEPT ![t][Len(stack[t])] = [[f EXCEPT !.pc = "end"] EXCEPT !.out = out]]
      \/ f.pc = "super" /\ stack' = [stack EXCEPT ![t][Len(stack[t])] = [[f EXCEPT !.pc = "ended"] EXCEPT !.out = "error"]]
  BY <1>1 DEF Client!In, Client!Resume, Client!SetTop, Client!Goto, Client!Top, Client!Outcomes, Last
<1> HIDE DEF f
<1>5. f \in CallFrames(s)
  BY <1>2
<1>6. \E g \in CallFrames(s) :
        /\ stack' = [stack EXCEPT ![t][Len(stack[t])] = g] /\ SameCall(g, f) /\ FrameFits(s, g)
        /\ g.pc \notin {"lock", "close", "cored"} /\ g.bound = f.bound /\ EventsFit(log, g)
  <2>1. CASE f.pc = "check" /\ stack' = [stack EXCEPT ![t][Len(stack[t])] = [f EXCEPT !.pc = "begin"]]
    <3> DEFINE g == [f EXCEPT !.pc = "begin"]
    <3>1. g \in CallFrames(s) /\ SameCall(g, f) /\ g.pc = "begin" /\ g.bound = f.bound
      BY <1>5 DEF CallFrames, SameCall
    <3>2. stack' = [stack EXCEPT ![t][Len(stack[t])] = g]
      BY <2>1
    <3> HIDE DEF g
    <3>3. FrameFits(s, g) /\ EventsFit(log, g)
      BY <1>2, <2>1, <3>1 DEF FrameFits, EventsFit, SameCall
    <3> QED
      BY <3>1, <3>2, <3>3
  <2>2. CASE f.pc = "began" /\ stack' = [stack EXCEPT ![t][Len(stack[t])] = [f EXCEPT !.pc = "core"]]
    <3> DEFINE g == [f EXCEPT !.pc = "core"]
    <3>1. g \in CallFrames(s) /\ SameCall(g, f) /\ g.pc = "core" /\ g.bound = f.bound
      BY <1>5 DEF CallFrames, SameCall
    <3>2. stack' = [stack EXCEPT ![t][Len(stack[t])] = g]
      BY <2>2
    <3> HIDE DEF g
    <3>3. FrameFits(s, g) /\ EventsFit(log, g)
      BY <1>2, <2>2, <3>1 DEF FrameFits, EventsFit, SameCall
    <3> QED
      BY <3>1, <3>2, <3>3
  <2>3. CASE f.pc = "cored" /\ \E out \in {"success", "failure", "preflight", "error"} :
               stack' = [stack EXCEPT ![t][Len(stack[t])] = [[f EXCEPT !.pc = "end"] EXCEPT !.out = out]]
    <3>1. PICK out \in {"success", "failure", "preflight", "error"} :
               stack' = [stack EXCEPT ![t][Len(stack[t])] = [[f EXCEPT !.pc = "end"] EXCEPT !.out = out]]
      BY <2>3
    <3>7. out \in {"success", "failure", "preflight", "error"}
      OBVIOUS
    <3> DEFINE e == [f EXCEPT !.pc = "end"]  g == [e EXCEPT !.out = out]
    <3>2. e \in CallFrames(s) /\ SameCall(e, f) /\ e.pc = "end" /\ e.bound = f.bound
      BY <1>5 DEF CallFrames, SameCall
    <3>3. stack' = [stack EXCEPT ![t][Len(stack[t])] = g]
      BY <3>1
    <3> HIDE DEF e
    <3>4. g \in CallFrames(s) /\ SameCall(g, e) /\ g.pc = "end" /\ g.bound = e.bound
      BY <3>2, <3>7 DEF CallFrames, SameCall
    <3> HIDE DEF g
    <3>5. SameCall(g, f) /\ g.bound = f.bound
      BY <3>2, <3>4 DEF SameCall
    <3>6. FrameFits(s, g) /\ EventsFit(log, g)
      BY <1>2, <2>3, <3>4, <3>5 DEF FrameFits, EventsFit, SameCall
    <3> QED
      BY <3>3, <3>4, <3>5, <3>6
  <2>4. CASE f.pc = "super" /\ stack' = [stack EXCEPT ![t][Len(stack[t])] = [[f EXCEPT !.pc = "ended"] EXCEPT !.out = "error"]]
    <3> DEFINE e == [f EXCEPT !.pc = "ended"]  g == [e EXCEPT !.out = "error"]
    <3>2. e \in CallFrames(s) /\ SameCall(e, f) /\ e.pc = "ended" /\ e.bound = f.bound
      BY <1>5 DEF CallFrames, SameCall
    <3>3. stack' = [stack EXCEPT ![t][Len(stack[t])] = g]
      BY <2>4
    <3> HIDE DEF e
    <3>4. g \in CallFrames(s) /\ SameCall(g, e) /\ g.pc = "ended" /\ g.bound = e.bound
      BY <3>2, FrameOver
    <3> HIDE DEF g
    <3>5. SameCall(g, f) /\ g.bound = f.bound
      BY <3>2, <3>4 DEF SameCall
    <3>6. f.wrap = "derived"
      BY <1>2, <2>4 DEF FrameFits, CallFrames
    <3>7. FrameFits(s, g) /\ EventsFit(log, g)
      BY <1>2, <2>4, <3>4, <3>5, <3>6 DEF FrameFits, EventsFit, SameCall
    <3> QED
      BY <3>3, <3>4, <3>5, <3>7
  <2> QED
    BY <1>4, <2>1, <2>2, <2>3, <2>4
<1>7. PICK g \in CallFrames(s) :
        /\ stack' = [stack EXCEPT ![t][Len(stack[t])] = g] /\ SameCall(g, f) /\ FrameFits(s, g)
        /\ g.pc \notin {"lock", "close", "cored"} /\ g.bound = f.bound /\ EventsFit(log, g)
  BY <1>6
<1>8. f.pc \notin {"lock", "close"}
  BY <1>1
<1> QED
  BY <1>1, <1>3, <1>7, <1>8, CallAdvances DEF f

\* A mutating or reading operation has its events.
LEMMA OperationEvents ==
    ASSUME NEW s, Client(s)!ClientAssumption, NEW op \in s.ops, op # "close",
           NEW out \in {"success", "failure", "preflight", "error"}
    PROVE  LET kind == Client(s)!Operation[op].announces[out]
           IN  /\ kind \in {"completed", "failed"}
               /\ op # "validate" => (kind = "completed") = (out = "success")
<1>1. op \in {"info", "validate", "migrate", "undo", "clean", "baseline", "repair", "import_flyway"}
  BY DEF Client!ClientAssumption, Client!ReadOnly, Client!Mutating
<1>2. ASSUME NEW failure \in {"completed", "failed"}
      PROVE  LET kind == Client(s)!Announce(failure)[out]
             IN  /\ kind \in {"completed", "failed"}
                 /\ failure = "failed" => (kind = "completed") = (out = "success")
  BY DEF Client!Announce
<1>3. /\ op # "validate" => Client(s)!Operation[op].announces = Client(s)!Announce("failed")
      /\ op = "validate" => Client(s)!Operation[op].announces = Client(s)!Announce("completed")
  BY <1>1 DEF Client!Operation, Client!Migrate, Client!Info, Client!Validate, Client!Undo, Client!Clean,
    Client!Baseline, Client!Repair, Client!ImportFlyway
<1> QED
  BY <1>2, <1>3

\* An operation emits: it starts, its core does, it ends.
LEMMA CallEmits ==
    ASSUME NEW s \in Programs, NEW t \in s.threads, CallInv(s), Client(s)!ClientAssumption,
           Client(s)!Started(t) \/ Client(s)!Core(t) \/ Client(s)!Ended(t)
    PROVE  CallInv(s)'
<1> DEFINE f == Last(stack[t])
<1>1. stack[t] # << >> /\ Client(s)!Top(t) = f /\ f.pc \in {"begin", "core", "end"}
  BY DEF Client!In, Client!Started, Client!Core, Client!Ended, Client!Top, Last
<1>2. /\ f \in CallFrames(s) /\ FrameFits(s, f) /\ EventsFit(log, f) /\ active[t] = BoundNow(stack[t])
  BY <1>1, LastFits
<1>3. UNCHANGED <<issued, lock, active, done>> /\ log \in Seq(CallEventsOf(s)) /\ conn \in [s.clients -> BOOLEAN]
  BY DEF CallInv, CallTypes, Client!Started, Client!Core, Client!Ended
<1>4. active[t] = f.cl
  BY <1>1, <1>2 DEF BoundNow, Last
<1> DEFINE p == IF f.pc = "begin" THEN "began" ELSE IF f.pc = "core" THEN "cored" ELSE "ended"
           kind == IF f.pc = "begin" THEN "started" ELSE IF f.pc = "core" THEN "core"
                   ELSE Client(s)!Operation[f.op].announces[f.out]
           e == [on |-> f.cl, cl |-> f.cl, id |-> f.id, kind |-> kind]
           g == [f EXCEPT !.pc = p]
<1>5. stack' = [stack EXCEPT ![t][Len(stack[t])] = g] /\ log' = Append(log, e)
  <2>1. CASE f.pc = "begin"
    <3>1. Client(s)!Started(t)
      BY <1>1, <2>1 DEF Client!In, Client!Core, Client!Ended, Client!Top, Last
    <3> QED
      BY <1>1, <2>1, <3>1 DEF Client!Started, Client!Emit, Client!SetTop, Client!Goto
  <2>2. CASE f.pc = "core"
    <3>1. Client(s)!Core(t)
      BY <1>1, <2>2 DEF Client!In, Client!Started, Client!Ended, Client!Top, Last
    <3> QED
      BY <1>1, <1>4, <2>2, <3>1 DEF Client!Core, Client!Emit, Client!SetTop, Client!Goto
  <2>3. CASE f.pc = "end"
    <3>1. Client(s)!Ended(t)
      BY <1>1, <2>3 DEF Client!In, Client!Started, Client!Core, Client!Top, Last
    <3> QED
      BY <1>1, <2>3, <3>1 DEF Client!Ended, Client!Emit, Client!SetTop, Client!Goto
  <2> QED
    BY <1>1, <2>1, <2>2, <2>3
<1>6. /\ conn' \in [s.clients -> BOOLEAN] /\ \A cl \in s.clients : conn[cl] => conn'[cl]
      /\ f.pc = "core" => conn'[f.cl]
  <2>1. CASE f.pc = "core"
    <3>1. conn' = [conn EXCEPT ![f.cl] = TRUE]
      BY <1>1, <2>1 DEF Client!In, Client!Started, Client!Core, Client!Ended, Client!Top, Last
    <3>2. f.cl \in s.clients
      BY <1>2 DEF CallFrames
    <3> HIDE DEF f
    <3> QED
      BY <1>3, <2>1, <3>1, <3>2
  <2>2. CASE f.pc # "core"
    <3>1. conn' = conn
      BY <1>1, <2>2 DEF Client!In, Client!Started, Client!Core, Client!Ended, Client!Top, Last
    <3> QED
      BY <1>3, <2>2, <3>1
  <2> QED
    BY <2>1, <2>2
<1> HIDE DEF f
<1>7. g \in CallFrames(s) /\ SameCall(g, f) /\ g.pc = p /\ g.bound = f.bound /\ g.out = f.out
  <2>1. p \in Points
    BY DEF Points
  <2> HIDE DEF p
  <2> QED
    BY <1>2, <2>1, FrameTurned
<1>8. f.wrap = "base" /\ f.op # "close" /\ f.op \in s.ops /\ f.cl \in s.clients /\ f.id \in Nat \ {0}
      /\ f.out \in {"success", "failure", "preflight", "error"}
  BY <1>1, <1>2 DEF FrameFits, CallFrames
<1>9. kind \in {"started", "core", "completed", "failed"}
      /\ (f.pc = "end" => kind \in {"completed", "failed"} /\ (f.op # "validate" => (kind = "completed") = (f.out = "success")))
  <2>1. CASE f.pc = "end"
    <3>1. kind = Client(s)!Operation[f.op].announces[f.out]
      BY <2>1
    <3>2. /\ Client(s)!Operation[f.op].announces[f.out] \in {"completed", "failed"}
          /\ f.op # "validate" => (Client(s)!Operation[f.op].announces[f.out] = "completed") = (f.out = "success")
      BY <1>8, OperationEvents
    <3> QED
      BY <3>1, <3>2
  <2>2. CASE f.pc # "end"
    BY <1>1, <2>2
  <2> QED
    BY <2>1, <2>2
<1>10. e \in CallEventsOf(s) /\ e.id = f.id /\ e.on = e.cl /\ e.kind = kind
  <2> HIDE DEF kind
  <2> QED
    BY <1>8, <1>9 DEF CallEventsOf
<1>11. FrameFits(s, g) /\ g.pc \notin {"lock", "close"} /\ g.id = f.id /\ g.op = f.op /\ g.wrap = f.wrap /\ g.cl = f.cl
  <2>1. p \in {"began", "cored", "ended"}
    OBVIOUS
  <2> HIDE DEF p, g
  <2> QED
    BY <1>2, <1>7, <1>8, <2>1 DEF FrameFits, SameCall
<1>12. EventsFit(Append(log, e), g)
  <2>1. CASE f.pc = "begin"
    <3>1. NoEvents(log, f.id) /\ kind = "started" /\ g.pc = "began"
      BY <1>2, <1>7, <2>1 DEF EventsFit
    <3> HIDE DEF e, g, kind
    <3>2. Begun(Append(log, e), e.id)
      BY <1>3, <1>10, <3>1, EventsBegin
    <3> QED
      BY <1>8, <1>10, <1>11, <3>1, <3>2 DEF EventsFit
  <2>2. CASE f.pc = "core"
    <3>1. Begun(log, f.id) /\ kind = "core" /\ g.pc = "cored"
      BY <1>2, <1>7, <1>8, <2>2 DEF EventsFit
    <3> HIDE DEF e, g, kind
    <3>2. Begun(Append(log, e), e.id)
      BY <1>3, <1>10, <3>1, EventsGoOn
    <3> QED
      BY <1>8, <1>10, <1>11, <3>1, <3>2 DEF EventsFit
  <2>3. CASE f.pc = "end"
    <3>1. Begun(log, f.id) /\ g.pc = "ended"
      BY <1>2, <1>7, <1>8, <2>3 DEF EventsFit
    <3> HIDE DEF e, g, kind
    <3>2. IsEnd(e) /\ (f.op # "validate" => (e.kind = "completed") = (f.out = "success"))
      BY <1>9, <1>10, <2>3 DEF IsEnd
    <3>3. Announced(Append(log, e), e.id, f.op, f.out)
      BY <1>3, <1>10, <3>1, <3>2, EventsEnd
    <3> QED
      BY <1>7, <1>8, <1>10, <1>11, <3>1, <3>3 DEF EventsFit
  <2> QED
    BY <1>1, <2>1, <2>2, <2>3
<1>13. f.pc \notin {"lock", "close"}
  BY <1>1
<1>14. g.pc = "cored" => conn'[g.cl]
  BY <1>1, <1>6, <1>7, <1>11
<1> HIDE DEF e, g
<1> QED
  BY <1>1, <1>3, <1>5, <1>6, <1>7, <1>10, <1>11, <1>12, <1>13, <1>14, CallAdvances DEF f

\* A call gets the lock: it is one more of its thread that is past it.
LEMMA CallEnters ==
    ASSUME NEW s \in Programs, NEW t \in s.threads, CallInv(s), "no one" \notin s.threads, Client(s)!Enter(t)
    PROVE  CallInv(s)'
<1> DEFINE f == Last(stack[t])
<1>1. stack[t] # << >> /\ Client(s)!Top(t) = f /\ f.pc = "lock"
  BY DEF Client!In, Client!Enter, Client!Top, Last
<1>2. /\ stack \in Stacks(s) /\ stack[t] \in Seq(CallFrames(s))
      /\ f \in CallFrames(s) /\ FrameFits(s, f) /\ EventsFit(log, f) /\ active[t] = BoundNow(stack[t])
      /\ Len(stack[t]) \in Nat \ {0} /\ Len(stack[t]) \in 1..Len(stack[t])
  BY <1>1, LastFits
<1>3. /\ CallTypes(s) /\ StacksFit(s, stack, active) /\ LocksFit(s, lock, stack) /\ ConnsFit(s, conn, stack)
      /\ IdsFit(s, issued, stack, log, done) /\ LogFits(s, stack, log, done)
  BY DEF CallInv
<1>4. /\ active \in [s.threads -> s.clients \cup {"default"}]
      /\ lock \in [s.clients -> [owner: s.threads \cup {"no one"}, count: Nat]]
  BY <1>3 DEF CallTypes
<1>5. active[t] = BoundIn(stack[t], Len(stack[t]) - 1)
  BY <1>1, <1>2 DEF BoundNow, Last
<1> DEFINE p == IF f.op = "close" THEN "close" ELSE IF f.wrap = "derived" THEN "super" ELSE "check"
           g == [f EXCEPT !.pc = p, !.bound = active[t]]
<1>6. /\ lock[f.cl].owner \in {"no one", t} /\ UNCHANGED <<issued, conn, log, done>>
      /\ lock' = [lock EXCEPT ![f.cl] = [owner |-> t, count |-> lock[f.cl].count + 1]]
      /\ active' = [active EXCEPT ![t] = IF f.op = "close" THEN active[t] ELSE f.cl]
      /\ stack' = [stack EXCEPT ![t][Len(stack[t])] = g]
  BY <1>1 DEF Client!Enter, Client!SetTop, Client!NoOne
<1> HIDE DEF f
<1>7. g \in CallFrames(s) /\ SameCall(g, f) /\ g.pc = p /\ g.bound = active[t]
  <2>1. p \in Points /\ active[t] \in s.clients \cup {"default"}
    BY <1>4 DEF Points
  <2> HIDE DEF p
  <2> QED
    BY <1>2, <2>1 DEF CallFrames, SameCall, Points
<1>8. FrameFits(s, g) /\ g.pc \in {"close", "super", "check"} /\ EventsFit(log, g) /\ (g.pc = "close" <=> g.op = "close")
  <2>1. (g.op = "close" => g.pc = "close") /\ (g.op # "close" /\ g.wrap = "derived" => g.pc = "super")
        /\ (g.op # "close" /\ g.wrap # "derived" => g.pc = "check")
    BY <1>7 DEF SameCall
  <2>2. FrameFits(s, g)
    <3> HIDE DEF g
    <3> QED
      BY <1>1, <1>2, <1>7, <2>1 DEF FrameFits, SameCall, CallFrames
  <2>3. NoEvents(log, g.id)
    BY <1>1, <1>2, <1>7 DEF EventsFit, SameCall
  <2> HIDE DEF g
  <2>4. g.pc \in {"close", "super", "check"}
    BY <2>1
  <2>5. EventsFit(log, g)
    BY <2>3, <2>4 DEF EventsFit
  <2> QED
    BY <2>1, <2>2, <2>4, <2>5
<1> HIDE DEF g, p
<1>9. Becomes(s, t, g, stack, stack')
  BY <1>1, <1>2, <1>6, <1>7, LastAssigned
<1>10. stack' \in Stacks(s) /\ Goes(s, t, g, stack, stack') /\ OthersStay(s, t, stack, stack')
  BY <1>5, <1>7, <1>8, <1>9 DEF Becomes, Goes, f, Last
<1>11. f.cl \in s.clients /\ g.cl = f.cl /\ g.op = f.op
  BY <1>2, <1>7 DEF CallFrames, SameCall
<1> DEFINE b == IF g.pc = "close" THEN g.bound ELSE g.cl
<1>12. active' \in [s.threads -> s.clients \cup {"default"}] /\ Rebinds(s, t, active, active', b)
  <2>1. b = (IF f.op = "close" THEN active[t] ELSE f.cl) /\ b \in s.clients \cup {"default"}
    BY <1>4, <1>7, <1>8, <1>11
  <2>2. active' = [active EXCEPT ![t] = b]
    BY <1>6, <2>1
  <2> HIDE DEF b
  <2> QED
    BY <1>4, <2>1, <2>2 DEF Rebinds
<1>17. b = IF g.pc = "close" THEN g.bound ELSE g.cl
  OBVIOUS
<1> HIDE DEF b
<1>13. StacksFit(s, stack', active') /\ AlsoLast(stack[t], stack'[t], g)
  BY <1>2, <1>3, <1>7, <1>10, <1>12, <1>17, GoesStacks
<1>14. /\ lock' \in [s.clients -> [owner: s.threads \cup {"no one"}, count: Nat]]
       /\ LocksFit(s, lock', stack')
  <2>1. lock[f.cl] \in [owner: s.threads \cup {"no one"}, count: Nat] /\ LockFits(s, f.cl, lock[f.cl], stack)
    BY <1>3, <1>4, <1>11 DEF LocksFit
  <2> DEFINE k == [owner |-> t, count |-> lock[f.cl].count + 1]
  <2>2. k \in [owner: s.threads \cup {"no one"}, count: Nat]
    <3>1. lock[f.cl].count + 1 \in Nat
      BY <2>1, OneMoreOrLess
    <3> QED
      BY <3>1
  <2>3. Len(stack[t]) \notin PastLock(stack[t], f.cl)
    BY <1>1 DEF PastLock, f, Last
  <2>4. PastLock(stack'[t], f.cl) = PastLock(stack[t], f.cl) \cup {Len(stack[t])}
    BY <1>11, <1>13 DEF AlsoLast
  <2>5. LockFits(s, f.cl, k, stack')
    BY <1>2, <1>6, <1>10, <2>1, <2>3, <2>4, LockTaken
  <2>6. lock' = [lock EXCEPT ![f.cl] = k]
    BY <1>6
  <2> HIDE DEF k
  <2>7. lock' \in [s.clients -> [owner: s.threads \cup {"no one"}, count: Nat]] /\ lock'[f.cl] = k
        /\ \A cl \in s.clients : cl # f.cl => lock'[cl] = lock[cl]
    BY <1>4, <1>11, <2>2, <2>6
  <2>8. ASSUME NEW cl \in s.clients, cl # f.cl
        PROVE  LockFits(s, cl, lock'[cl], stack')
    <3>1. PastLock(stack'[t], cl) = PastLock(stack[t], cl)
      BY <1>11, <1>13, <2>8 DEF AlsoLast
    <3>2. LockFits(s, cl, lock[cl], stack)
      BY <1>3 DEF LocksFit
    <3>3. LockFits(s, cl, lock[cl], stack')
      BY <1>2, <1>10, <3>1, <3>2, LockKept
    <3> QED
      BY <2>7, <2>8, <3>3
  <2> QED
    BY <2>5, <2>7, <2>8 DEF LocksFit
<1>15. /\ ConnsFit(s, conn', stack') /\ IdsFit(s, issued', stack', log', done') /\ LogFits(s, stack', log', done')
  <2>1. g.pc # "cored"
    BY <1>8
  <2>2. ConnsFit(s, conn, stack')
    BY <1>2, <1>3, <1>7, <1>10, <2>1, GoesConns
  <2>3. \A i \in 1..Len(log) : log[i].id <= issued
    BY <1>3 DEF IdsFit
  <2>4. IdsFit(s, issued, stack', log, done)
    BY <1>2, <1>3, <1>7, <1>10, <2>3, GoesIds
  <2>5. LogFits(s, stack', log, done)
    BY <1>2, <1>3, <1>7, <1>8, <1>10, GoesLog
  <2> QED
    BY <1>6, <2>2, <2>4, <2>5
<1>16. CallTypes(s)'
  BY <1>3, <1>6, <1>10, <1>12, <1>14 DEF CallTypes, Stacks
<1> QED
  BY <1>13, <1>14, <1>15, <1>16 DEF CallInv

\* A call is over: it gives the lock and the emitter back.
LEMMA CallGivesUpLock ==
    ASSUME NEW s \in Programs, NEW t \in s.threads, CallInv(s), "no one" \notin s.threads, stack[t] # << >>,
           Last(stack[t]).pc # "lock", NEW g, Client(s)!Leave(t, g), g.id = Last(stack[t]).id,
           g.cl = Last(stack[t]).cl, g.op = Last(stack[t]).op, g.wrap = Last(stack[t]).wrap,
           g.out \in {"success", "failure", "preflight", "error"}, log' = log,
           NoEvents(log, g.id) \/ Announced(log, g.id, g.op, g.out), conn' \in [s.clients -> BOOLEAN],
           \A u \in s.threads : \A i \in 1..Len(stack[u]) :
             stack[u][i].pc = "cored" /\ ~(u = t /\ i = Len(stack[t])) =>
               conn'[stack[u][i].cl] = conn[stack[u][i].cl]
    PROVE  CallInv(s)'
<1> DEFINE f == Last(stack[t])
<1>1. /\ stack \in Stacks(s) /\ stack[t] \in Seq(CallFrames(s))
      /\ f \in CallFrames(s) /\ f.bound = BoundIn(stack[t], Len(stack[t]) - 1)
      /\ Len(stack[t]) \in Nat \ {0} /\ Len(stack[t]) \in 1..Len(stack[t])
  BY LastFits
<1>2. /\ CallTypes(s) /\ StacksFit(s, stack, active) /\ LocksFit(s, lock, stack) /\ ConnsFit(s, conn, stack)
      /\ IdsFit(s, issued, stack, log, done) /\ LogFits(s, stack, log, done)
  BY DEF CallInv
<1>3. /\ active \in [s.threads -> s.clients \cup {"default"}] /\ done \subseteq CallRecords(s)
      /\ lock \in [s.clients -> [owner: s.threads \cup {"no one"}, count: Nat]]
  BY <1>2 DEF CallTypes
<1> DEFINE r == SubSeq(stack[t], 1, Len(stack[t]) - 1)
           d == [id |-> g.id, cl |-> g.cl, op |-> g.op, out |-> g.out, returned |-> g.out # "error",
                 outer |-> g.wrap = Client(s)!Outermost]
           k == Released(lock[g.cl], t)
<1>4. /\ stack' = [stack EXCEPT ![t] = r] /\ issued' = issued /\ active' = [active EXCEPT ![t] = f.bound]
      /\ lock' = [lock EXCEPT ![g.cl] = k] /\ done' = done \cup {d}
  <2>1. stack' = [stack EXCEPT ![t] = r] /\ issued' = issued /\ active' = [active EXCEPT ![t] = f.bound]
    BY DEF Client!Leave, Client!Unbound, Client!Top, Last
  <2>2. lock' = [lock EXCEPT ![g.cl] = k]
    <3>1. lock' = [lock EXCEPT ![g.cl] = IF lock[g.cl].count = 1 THEN [owner |-> "no one", count |-> 0]
                                         ELSE [owner |-> t, count |-> lock[g.cl].count - 1]]
      BY DEF Client!Leave, Client!NoOne
    <3> QED
      BY <3>1 DEF Released
  <2>3. done' = done \cup {d}
    BY DEF Client!Leave
  <2> QED
    BY <2>1, <2>2, <2>3
<1>5. r \in Seq(CallFrames(s)) /\ IsRemoved(stack[t], r)
  BY <1>1, LastRemoved
<1>6. d \in CallRecords(s) /\ d.id = g.id /\ d.op = g.op /\ d.out = g.out
  BY <1>1 DEF CallRecords, CallFrames
<1> HIDE DEF r, d
<1>7. stack' \in Stacks(s) /\ Drops(s, t, stack, stack') /\ OthersStay(s, t, stack, stack')
  <2> DEFINE Q == Seq(CallFrames(s))
  <2>1. r \in Q /\ stack \in [s.threads -> Q]
    BY <1>1, <1>5 DEF Stacks
  <2> HIDE DEF Q
  <2>2. stack' \in [s.threads -> Q] /\ stack'[t] = r /\ \A u \in s.threads : u # t => stack'[u] = stack[u]
    BY <1>4, <2>1
  <2> QED
    BY <1>5, <2>2 DEF Stacks, Q, Drops, OthersStay
<1>8. /\ active' \in [s.threads -> s.clients \cup {"default"}]
      /\ Rebinds(s, t, active, active', BoundIn(stack[t], Len(stack[t]) - 1))
  <2>1. f.bound \in s.clients \cup {"default"}
    BY <1>1 DEF CallFrames
  <2> HIDE DEF f
  <2> QED
    BY <1>1, <1>3, <1>4, <2>1 DEF Rebinds
<1>9. StacksFit(s, stack', active') /\ NotLast(stack[t], stack'[t])
  BY <1>1, <1>2, <1>7, <1>8, DropsStacks
<1>10. g.cl \in s.clients /\ Len(stack[t]) \in PastLock(stack[t], g.cl)
       /\ \A cl : cl # g.cl => Len(stack[t]) \notin PastLock(stack[t], cl)
  BY <1>1 DEF CallFrames, PastLock, Last
<1>11. lock' \in [s.clients -> [owner: s.threads \cup {"no one"}, count: Nat]] /\ LocksFit(s, lock', stack')
  <2>1. lock[g.cl] \in [owner: s.threads \cup {"no one"}, count: Nat] /\ LockFits(s, g.cl, lock[g.cl], stack)
    BY <1>2, <1>3, <1>10 DEF LocksFit
  <2>2. PastLock(stack'[t], g.cl) = PastLock(stack[t], g.cl) \ {Len(stack[t])}
    BY <1>9 DEF NotLast
  <2>3. k = Released(lock[g.cl], t)
    OBVIOUS
  <2> HIDE DEF k
  <2>4. LockFits(s, g.cl, k, stack') /\ k \in [owner: s.threads \cup {"no one"}, count: Nat]
    BY <1>1, <1>7, <1>10, <2>1, <2>2, <2>3, LockPassed
  <2>5. lock' \in [s.clients -> [owner: s.threads \cup {"no one"}, count: Nat]] /\ lock'[g.cl] = k
        /\ \A cl \in s.clients : cl # g.cl => lock'[cl] = lock[cl]
    BY <1>3, <1>4, <1>10, <2>4
  <2>6. ASSUME NEW cl \in s.clients, cl # g.cl
        PROVE  LockFits(s, cl, lock'[cl], stack')
    <3>1. PastLock(stack'[t], cl) = PastLock(stack[t], cl)
      <4>1. PastLock(stack'[t], cl) = PastLock(stack[t], cl) \ {Len(stack[t])}
        BY <1>9 DEF NotLast
      <4>2. Len(stack[t]) \notin PastLock(stack[t], cl)
        BY <1>10, <2>6
      <4> QED
        BY <4>1, <4>2
    <3>2. LockFits(s, cl, lock[cl], stack)
      BY <1>2 DEF LocksFit
    <3>3. LockFits(s, cl, lock[cl], stack')
      BY <1>1, <1>7, <3>1, <3>2, LockKept
    <3> QED
      BY <2>5, <2>6, <3>3
  <2> QED
    BY <2>4, <2>5, <2>6 DEF LocksFit
<1>12. \A u \in s.threads : \A i \in 1..Len(stack'[u]) :
         stack'[u][i].pc = "cored" => conn'[stack'[u][i].cl] = conn[stack'[u][i].cl]
  <2> TAKE u \in s.threads
  <2> TAKE i \in 1..Len(stack'[u])
  <2>1. i \in 1..Len(stack[u]) /\ stack'[u][i] = stack[u][i] /\ ~(u = t /\ i = Len(stack[t]))
    <3>1. Remains(t, stack, stack', u, i)
      BY <1>7, DropsWhere
    <3> QED
      BY <3>1 DEF Remains
  <2> QED
    BY <2>1
<1>13. ConnsFit(s, conn', stack') /\ IdsFit(s, issued, stack', log, done \cup {d}) /\ LogFits(s, stack', log, done \cup {d})
  <2>1. d.id = stack[t][Len(stack[t])].id
    BY <1>6 DEF Last
  <2>2. NoEvents(log, d.id) \/ Announced(log, d.id, d.op, d.out)
    BY <1>6
  <2> QED
    BY <1>1, <1>2, <1>7, <1>12, <2>1, <2>2, DropsOthers
<1>14. CallTypes(s)'
  <2>1. done' \subseteq CallRecords(s)
    BY <1>3, <1>4, <1>6
  <2> QED
    BY <1>2, <1>4, <1>7, <1>8, <1>11, <2>1 DEF CallTypes, Stacks
<1> QED
  BY <1>4, <1>9, <1>11, <1>13, <1>14 DEF CallInv

\* A call that is not refused has no other of the client underneath that it may disturb.
LEMMA NotRefused ==
    ASSUME NEW s \in Programs, NEW t \in s.threads, stack[t] \in Seq(CallFrames(s)), NEW cl, NEW op, NEW wrap,
           ~Client(s)!Reentrant(t, cl, op, wrap), op \notin {"info", "validate"},
           NEW i \in 1..Len(stack[t]), stack[t][i].cl = cl
    PROVE  op # "close" /\ stack[t][i].op = op /\ stack[t][i].wrap # wrap
<1>1. stack[t][i] \in Client(s)!Own(t, cl)
  <2>1. i \in DOMAIN stack[t]
    OBVIOUS
  <2> QED
    BY <2>1 DEF Client!Own, Client!InCalls
<1>2. op \notin Client(s)!ReadOnly
  BY DEF Client!ReadOnly
<1> QED
  BY <1>1, <1>2 DEF Client!Reentrant

\* A new call.
LEMMA NewCall ==
    ASSUME NEW s \in Programs, CallTypes(s), NEW cl \in s.clients, NEW op \in s.ops, NEW wrap \in {"derived", "base"}
    PROVE  LET f == Client(s)!NewFrame(cl, op, wrap)
           IN  /\ f \in CallFrames(s) /\ f.id = issued + 1 /\ f.cl = cl /\ f.op = op /\ f.wrap = wrap /\ f.pc = "lock"
<1> DEFINE n == issued + 1
<1>1. n \in Nat \ {0} /\ n = issued + 1
  <2>1. issued \in Nat
    BY DEF CallTypes
  <2> QED
    BY <2>1, OneMoreOrLess
<1>2. Client(s)!NewFrame(cl, op, wrap) =
        [id |-> n, cl |-> cl, op |-> op, wrap |-> wrap, bound |-> "default", pc |-> "lock", out |-> "success"]
  BY DEF Client!NewFrame, Client!Default
<1> HIDE DEF n
<1> QED
  BY <1>1, <1>2 DEF CallFrames

\* The number of a new call is in nobody's use.
LEMMA NumberIsNew ==
    ASSUME NEW s, CallInv(s), NEW d, d.id = issued + 1
    PROVE  /\ NoEvents(log, d.id)
           /\ IdsFit(s, issued + 1, stack, log, done \cup {d}) /\ LogFits(s, stack, log, done \cup {d})
<1>1. /\ CallTypes(s) /\ IdsFit(s, issued, stack, log, done) /\ LogFits(s, stack, log, done)
  BY DEF CallInv
<1>2. issued \in Nat /\ \A m \in Nat : m <= issued => m <= issued + 1 /\ m # issued + 1
  <2>1. issued \in Nat
    BY <1>1 DEF CallTypes
  <2> QED
    BY <2>1, OneMoreOrLess
<1>3. \A t \in s.threads : \A i \in 1..Len(stack[t]) : stack[t][i].id \in Nat /\ stack[t][i].id <= issued
  <2> TAKE t \in s.threads
  <2> TAKE i \in 1..Len(stack[t])
  <2>1. stack[t] \in Seq(CallFrames(s))
    BY <1>1 DEF CallTypes
  <2>2. stack[t][i] \in CallFrames(s)
    BY <2>1, ElementOfSeq
  <2> QED
    BY <1>1, <2>2 DEF CallFrames, IdsFit
<1>4. \A k \in done : k.id \in Nat /\ k.id <= issued
  BY <1>1 DEF CallRecords, IdsFit, CallTypes
<1>5. \A i \in 1..Len(log) : log[i].id \in Nat /\ log[i].id <= issued
  <2> TAKE i \in 1..Len(log)
  <2>1. log[i] \in CallEventsOf(s)
    BY <1>1, ElementOfSeq DEF CallTypes
  <2> QED
    BY <1>1, <2>1 DEF CallEventsOf, IdsFit
<1>6. NoEvents(log, d.id)
  BY <1>2, <1>5 DEF NoEvents, EventsIn
<1>7. IdsFit(s, issued + 1, stack, log, done \cup {d})
  <2>1. /\ \A t \in s.threads : \A i \in 1..Len(stack[t]) : stack[t][i].id <= issued + 1
        /\ \A i \in 1..Len(log) : log[i].id <= issued + 1
    BY <1>2, <1>3, <1>5
  <2>2. \A k \in done \cup {d} : k.id <= issued + 1
    BY <1>2, <1>4
  <2>3. \A k \in done \cup {d} : \A t \in s.threads : \A i \in 1..Len(stack[t]) : stack[t][i].id # k.id
    BY <1>1, <1>2, <1>3 DEF IdsFit
  <2> QED
    BY <1>1, <2>1, <2>2, <2>3 DEF IdsFit
<1>8. LogFits(s, stack, log, done \cup {d})
  BY <1>1, <1>6 DEF LogFits
<1> QED
  BY <1>6, <1>7, <1>8

\* A thread calls an operation: it is refused, or waits for the lock.
LEMMA CallBegins ==
    ASSUME NEW s \in Programs, NEW t \in s.threads, CallInv(s), NEW cl \in s.clients, NEW op \in s.ops,
           Client(s)!Call(t, cl, op)
    PROVE  CallInv(s)'
<1> DEFINE wrap == IF op = "close" THEN "base" ELSE Client(s)!Outermost
           f == Client(s)!NewFrame(cl, op, wrap)
           q == stack[t]
           d == [id |-> issued + 1, cl |-> cl, op |-> op, out |-> "error", returned |-> FALSE, outer |-> TRUE]
<1>1. /\ CallTypes(s) /\ StacksFit(s, stack, active) /\ LocksFit(s, lock, stack) /\ ConnsFit(s, conn, stack)
      /\ IdsFit(s, issued, stack, log, done) /\ LogFits(s, stack, log, done)
      /\ stack \in Stacks(s) /\ q \in Seq(CallFrames(s)) /\ StackFits(s, q) /\ issued \in Nat
  BY DEF CallInv, CallTypes, Stacks, StacksFit
<1>2. issued' = issued + 1 /\ UNCHANGED <<lock, active, conn, log>>
  BY DEF Client!Call
<1>3. CASE Client(s)!Reentrant(t, cl, op, wrap)
  <2>1. done' = done \cup {d} /\ stack' = stack
    BY <1>3 DEF Client!Call
  <2>2. d \in CallRecords(s) /\ d.id = issued + 1
    <3>1. issued + 1 \in Nat \ {0}
      BY <1>1, OneMoreOrLess
    <3> QED
      BY <3>1 DEF CallRecords
  <2> HIDE DEF d
  <2>3. IdsFit(s, issued + 1, stack, log, done \cup {d}) /\ LogFits(s, stack, log, done \cup {d})
    BY <2>2, NumberIsNew
  <2>4. CallTypes(s)'
    <3>1. done \cup {d} \subseteq CallRecords(s)
      BY <1>1, <2>2 DEF CallTypes
    <3>2. issued + 1 \in Nat
      BY <1>1, OneMoreOrLess
    <3>3. issued' \in Nat
      BY <1>2, <3>2
    <3> QED
      BY <1>1, <1>2, <2>1, <3>1, <3>3 DEF CallTypes
  <2> QED
    BY <1>1, <1>2, <2>1, <2>3, <2>4 DEF CallInv
<1>4. CASE ~Client(s)!Reentrant(t, cl, op, wrap)
  <2>1. stack' = [stack EXCEPT ![t] = Append(q, f)] /\ done' = done
    BY <1>4 DEF Client!Call
  <2>2. wrap \in {"derived", "base"} /\ (op = "close" => wrap = "base")
        /\ (op # "close" => wrap = IF s.override THEN "derived" ELSE "base")
    BY DEF Client!Outermost
  <2>3. q = << >> \/ Listens(q[Len(q)])
    BY DEF Client!Call, Client!Listening, Client!Top, Listens
  <2>4. ASSUME op \notin {"info", "validate"}
        PROVE  \A i \in 1..Len(q) : q[i].cl # cl
    <3> SUFFICES ASSUME NEW i \in 1..Len(q), q[i].cl = cl PROVE FALSE
      OBVIOUS
    <3> HIDE DEF wrap
    <3>1. op # "close" /\ q[i].op = op /\ q[i].wrap # wrap
      BY <1>1, <1>4, <2>4, NotRefused
    <3>2. q[i] \in CallFrames(s) /\ FrameFits(s, q[i])
      BY <1>1, ElementOfSeq DEF StackFits
    <3>3. CASE s.override
      <4>1. q[i].wrap = "base" /\ q[i].op # "close"
        BY <2>2, <3>1, <3>2, <3>3 DEF CallFrames
      <4>2. i > 1 /\ q[i - 1].wrap = "derived" /\ q[i - 1].cl = cl
        BY <1>1, <3>3, <4>1 DEF StackFits
      <4>3. i - 1 \in 1..Len(q)
        <5>1. Len(q) \in Nat
          BY <1>1, LenProperties
        <5> HIDE DEF q
        <5> QED
          BY <4>2, <5>1
      <4>4. q[i - 1].wrap # wrap
        BY <1>1, <1>4, <2>4, <4>2, <4>3, NotRefused
      <4> QED
        BY <2>2, <3>1, <3>3, <4>2, <4>4
    <3>4. CASE ~s.override
      BY <2>2, <3>1, <3>2, <3>4 DEF FrameFits, CallFrames
    <3> QED
      BY <3>3, <3>4
  <2> HIDE DEF wrap
  <2>5. f \in CallFrames(s) /\ f.id = issued + 1 /\ f.cl = cl /\ f.op = op /\ f.wrap = wrap /\ f.pc = "lock"
    BY <1>1, <2>2, NewCall
  <2> HIDE DEF f
  <2>6. FrameFits(s, f) /\ ~(s.override /\ f.wrap = "base" /\ f.op # "close")
    BY <2>2, <2>5 DEF FrameFits
  <2>7. Append(q, f) \in Seq(CallFrames(s)) /\ IsAdded(q, Append(q, f), f)
    BY <1>1, <2>5, LastAdded
  <2>8. stack' \in Stacks(s) /\ Adds(s, t, f, stack, stack') /\ OthersStay(s, t, stack, stack')
    <3> DEFINE Q == Seq(CallFrames(s))  r == Append(q, f)
    <3>1. r \in Q /\ stack \in [s.threads -> Q] /\ stack' = [stack EXCEPT ![t] = r] /\ IsAdded(stack[t], r, f)
      BY <1>1, <2>1, <2>7 DEF Stacks
    <3> HIDE DEF Q, r, q
    <3>2. stack' \in [s.threads -> Q] /\ stack'[t] = r /\ \A u \in s.threads : u # t => stack'[u] = stack[u]
      BY <3>1
    <3> QED
      BY <3>1, <3>2 DEF Stacks, Q, Adds, OthersStay
  <2>9. f.op \in {"info", "validate"} \/ \A i \in 1..Len(stack[t]) : stack[t][i].cl = f.cl =>
             /\ i = Len(stack[t]) /\ stack[t][i].op = f.op /\ stack[t][i].wrap = "derived" /\ f.wrap = "base"
    BY <2>4, <2>5
  <2>10. StacksFit(s, stack', active) /\ \A c : PastLock(stack'[t], c) = PastLock(stack[t], c)
    <3>1. HasRoom(s, stack[t], f)
      BY <2>3, <2>6, <2>9 DEF HasRoom
    <3>2. stack \in Stacks(s) /\ StacksFit(s, stack, active)
      BY <1>1
    <3> QED
      BY <2>5, <2>6, <2>8, <3>1, <3>2, AddsStacks
  <2>11. LocksFit(s, lock, stack')
    BY <1>1, <2>8, <2>10, LockKept DEF LocksFit
  <2>12. ConnsFit(s, conn, stack') /\ IdsFit(s, issued + 1, stack', log, done) /\ LogFits(s, stack', log, done)
    <3>1. log \in Seq(CallEventsOf(s)) /\ done \subseteq CallRecords(s)
      BY <1>1 DEF CallTypes
    <3> QED
      BY <1>1, <2>5, <2>8, <3>1, AddsOthers
  <2>13. CallTypes(s)'
    <3>1. issued + 1 \in Nat
      BY <1>1, OneMoreOrLess
    <3>2. issued' \in Nat
      BY <1>2, <3>1
    <3> QED
      BY <1>1, <1>2, <2>1, <2>8, <3>2 DEF CallTypes, Stacks
  <2> QED
    BY <1>2, <2>1, <2>10, <2>11, <2>12, <2>13 DEF CallInv
<1> QED
  BY <1>3, <1>4

\* An override calls super(): it waits for it to return, and the base class's wrapper of the
\* same operation waits for the lock.
LEMMA CallGoesUp ==
    ASSUME NEW s \in Programs, NEW t \in s.threads, CallInv(s), Client(s)!In(t, "super"),
           ~Client(s)!Reentrant(t, Client(s)!Top(t).cl, Client(s)!Top(t).op, "base"), Client(s)!Super(t)
    PROVE  CallInv(s)'
<1> DEFINE top == Last(stack[t])
           g == [top EXCEPT !.pc = "ended"]
           f == Client(s)!NewFrame(top.cl, top.op, "base")
           st1 == [stack EXCEPT ![t][Len(stack[t])] = g]
<1>1. stack[t] # << >> /\ Client(s)!Top(t) = top /\ top.pc = "super"
  BY DEF Client!In, Client!Top, Last
<1>2. /\ stack \in Stacks(s) /\ stack[t] \in Seq(CallFrames(s))
      /\ top \in CallFrames(s) /\ FrameFits(s, top) /\ EventsFit(log, top)
      /\ Len(stack[t]) \in Nat \ {0} /\ Len(stack[t]) \in 1..Len(stack[t])
  BY <1>1, LastFits
<1>3. /\ CallTypes(s) /\ StacksFit(s, stack, active) /\ LocksFit(s, lock, stack) /\ ConnsFit(s, conn, stack)
      /\ IdsFit(s, issued, stack, log, done) /\ LogFits(s, stack, log, done) /\ issued \in Nat
      /\ NothingUnder(stack[t])
  BY DEF CallInv, CallTypes, StacksFit
<1>4. /\ issued' = issued + 1 /\ UNCHANGED <<lock, active, conn, log, done>>
      /\ stack' = [stack EXCEPT ![t] = Append([stack[t] EXCEPT ![Len(stack[t])] = g], f)]
  BY <1>1 DEF Client!Super, Client!Goto
<1>5. top.wrap = "derived" /\ top.op # "close" /\ top.cl \in s.clients /\ top.op \in s.ops /\ s.override
  BY <1>1, <1>2 DEF FrameFits, CallFrames
<1>6. ~Client(s)!Reentrant(t, top.cl, top.op, "base")
  BY <1>1
<1> HIDE DEF top
<1>7. g \in CallFrames(s) /\ SameCall(g, top) /\ g.pc = "ended" /\ g.bound = top.bound
  <2>1. top \in CallFrames(s)
    BY <1>2
  <2> QED
    BY <2>1 DEF CallFrames, SameCall
<1>8. f \in CallFrames(s) /\ f.id = issued + 1 /\ f.cl = top.cl /\ f.op = top.op /\ f.wrap = "base" /\ f.pc = "lock"
  BY <1>3, <1>5, NewCall
<1> HIDE DEF f, g
<1>9. FrameFits(s, g) /\ EventsFit(log, g) /\ FrameFits(s, f)
  <2>1. NoEvents(log, top.id)
    BY <1>1, <1>2 DEF EventsFit
  <2>2. EventsFit(log, g)
    BY <1>5, <1>7, <2>1 DEF EventsFit, SameCall
  <2>3. FrameFits(s, g)
    BY <1>5, <1>7 DEF FrameFits, SameCall
  <2>4. FrameFits(s, f)
    BY <1>5, <1>8 DEF FrameFits
  <2> QED
    BY <2>2, <2>3, <2>4
<1>10. st1 = [stack EXCEPT ![t][Len(stack[t])] = g]
  OBVIOUS
<1>11. /\ st1[t] = [stack[t] EXCEPT ![Len(stack[t])] = g]
       /\ [stack EXCEPT ![t] = Append([stack[t] EXCEPT ![Len(stack[t])] = g], f)]
          = [st1 EXCEPT ![t] = Append([stack[t] EXCEPT ![Len(stack[t])] = g], f)]
  <2> DEFINE r == [stack[t] EXCEPT ![Len(stack[t])] = g]  v == Append(r, f)
  <2>1. st1 = [stack EXCEPT ![t] = r] /\ t \in DOMAIN stack
    BY <1>2 DEF Stacks
  <2> HIDE DEF st1, r, v
  <2>2. st1[t] = r /\ [stack EXCEPT ![t] = v] = [st1 EXCEPT ![t] = v]
    BY <2>1
  <2> QED
    BY <2>2 DEF r, v
<1> HIDE DEF st1
<1>12. stack' = [st1 EXCEPT ![t] = Append(st1[t], f)]
  BY <1>4, <1>11
<1>13. /\ Goes(s, t, g, stack, st1) /\ st1 \in Stacks(s)
       /\ StacksFit(s, st1, active) /\ LocksFit(s, lock, st1)
  <2>1. Last(stack[t]).pc \notin {"lock", "close"} /\ g.pc \notin {"lock", "close"}
    BY <1>1, <1>7 DEF top
  <2>2. SameCall(g, Last(stack[t])) /\ g.bound = Last(stack[t]).bound
    BY <1>7 DEF top
  <2> QED
    BY <1>1, <1>7, <1>9, <1>10, <2>1, <2>2, CallTurns
<1>14. ConnsFit(s, conn, st1) /\ IdsFit(s, issued, st1, log, done) /\ LogFits(s, st1, log, done)
  <2>1. ConnsFit(s, conn, st1)
    BY <1>2, <1>3, <1>7, <1>13, GoesConns
  <2>2. \A i \in 1..Len(log) : log[i].id <= issued
    BY <1>3 DEF IdsFit
  <2>3. IdsFit(s, issued, st1, log, done)
    BY <1>2, <1>3, <1>7, <1>13, <2>2, GoesIds
  <2>4. LogFits(s, st1, log, done)
    BY <1>2, <1>3, <1>7, <1>9, <1>13, GoesLog
  <2> QED
    BY <2>1, <2>3, <2>4
<1>15. Len(st1[t]) = Len(stack[t]) /\ st1[t] # << >> /\ st1[t][Len(st1[t])] = g /\ st1[t] \in Seq(CallFrames(s))
  BY <1>13 DEF Goes, IsReplaced, Stacks
<1>16. Append(st1[t], f) \in Seq(CallFrames(s)) /\ IsAdded(st1[t], Append(st1[t], f), f)
  BY <1>8, <1>15, LastAdded
<1>17. stack' \in Stacks(s) /\ Adds(s, t, f, st1, stack') /\ OthersStay(s, t, st1, stack')
  <2> DEFINE Q == Seq(CallFrames(s))  r == Append(st1[t], f)
  <2>1. r \in Q /\ st1 \in [s.threads -> Q] /\ stack' = [st1 EXCEPT ![t] = r] /\ IsAdded(st1[t], r, f)
    BY <1>12, <1>13, <1>16 DEF Stacks
  <2> HIDE DEF Q, r
  <2>2. stack' \in [s.threads -> Q] /\ stack'[t] = r /\ \A u \in s.threads : u # t => stack'[u] = st1[u]
    BY <2>1
  <2> QED
    BY <2>1, <2>2 DEF Stacks, Q, Adds, OthersStay
<1>18. Listens(st1[t][Len(st1[t])])
  BY <1>7, <1>15 DEF Listens
<1>19. /\ Len(st1[t]) > 0 /\ st1[t][Len(st1[t])].wrap = "derived" /\ st1[t][Len(st1[t])].cl = f.cl
       /\ st1[t][Len(st1[t])].op = f.op
  BY <1>2, <1>5, <1>7, <1>8, <1>15 DEF SameCall
<1>20. f.op \in {"info", "validate"} \/ \A i \in 1..Len(st1[t]) : st1[t][i].cl = f.cl =>
         /\ i = Len(st1[t]) /\ st1[t][i].op = f.op /\ st1[t][i].wrap = "derived" /\ f.wrap = "base"
  <2> SUFFICES ASSUME f.op \notin {"info", "validate"}, NEW i \in 1..Len(st1[t]), st1[t][i].cl = f.cl
               PROVE  /\ i = Len(st1[t]) /\ st1[t][i].op = f.op /\ st1[t][i].wrap = "derived" /\ f.wrap = "base"
    OBVIOUS
  <2>1. i \in 1..Len(stack[t]) /\ SameCall(st1[t][i], stack[t][i])
    BY <1>13, GoesWhere
  <2>2. stack[t][i].cl = top.cl
    BY <1>8, <2>1 DEF SameCall
  <2>3. stack[t][i].op = top.op /\ stack[t][i].wrap # "base"
    BY <1>2, <1>6, <1>8, <2>1, <2>2, NotRefused
  <2>4. stack[t][i] \in CallFrames(s)
    BY <1>2, <2>1, ElementOfSeq
  <2>5. stack[t][i].wrap = "derived"
    BY <2>3, <2>4 DEF CallFrames
  <2>6. i = Len(stack[t])
    <3> SUFFICES ASSUME i # Len(stack[t]) PROVE FALSE
      OBVIOUS
    <3>1. i < Len(stack[t])
      BY <1>2, <2>1
    <3>2. stack[t][Len(stack[t])] = top
      BY DEF top, Last
    <3>3. top.wrap = "base"
      BY <1>2, <1>3, <1>8, <2>1, <2>2, <3>1, <3>2 DEF NothingUnder
    <3> QED
      BY <1>5, <3>3
  <2> QED
    BY <1>8, <1>15, <2>1, <2>3, <2>5, <2>6 DEF SameCall
<1>21. StacksFit(s, stack', active) /\ \A c : PastLock(stack'[t], c) = PastLock(st1[t], c)
  <2>1. HasRoom(s, st1[t], f)
    BY <1>18, <1>19, <1>20 DEF HasRoom
  <2> QED
    BY <1>8, <1>9, <1>13, <1>17, <2>1, AddsStacks
<1>22. LocksFit(s, lock, stack')
  BY <1>13, <1>17, <1>21, LockKept DEF LocksFit
<1>23. ConnsFit(s, conn, stack') /\ IdsFit(s, issued + 1, stack', log, done) /\ LogFits(s, stack', log, done)
  <2>1. log \in Seq(CallEventsOf(s)) /\ done \subseteq CallRecords(s)
    BY <1>3 DEF CallTypes
  <2> QED
    BY <1>3, <1>8, <1>13, <1>14, <1>17, <2>1, AddsOthers
<1>24. CallTypes(s)'
  <2>1. issued + 1 \in Nat
    BY <1>3, OneMoreOrLess
  <2>2. issued' \in Nat
    BY <1>4, <2>1
  <2> QED
    BY <1>3, <1>4, <1>17, <2>2 DEF CallTypes, Stacks
<1> QED
  BY <1>4, <1>21, <1>22, <1>23, <1>24 DEF CallInv

\* A call comes to its end: an unknown target version, the end of the operation, a close.
LEMMA CallReturns ==
    ASSUME NEW s \in Programs, NEW t \in s.threads, CallInv(s), "no one" \notin s.threads,
           \/ /\ Client(s)!In(t, "check") /\ UNCHANGED <<conn, log>>
              /\ \/ Client(s)!Leave(t, [Client(s)!Top(t) EXCEPT !.out = "error"])
                 \/ Client(s)!Leave(t, [Client(s)!Top(t) EXCEPT !.out = "preflight"])
           \/ Client(s)!Return(t)
    PROVE  CallInv(s)'
<1> DEFINE f == Last(stack[t])
<1>1. stack[t] # << >> /\ Client(s)!Top(t) = f /\ f.pc \in {"check", "ended"} /\ UNCHANGED <<conn, log>>
  BY DEF Client!In, Client!Return, Client!Top, Last
<1>2. f \in CallFrames(s) /\ EventsFit(log, f)
  BY <1>1, LastFits
<1>3. /\ conn' \in [s.clients -> BOOLEAN]
      /\ \A u \in s.threads : \A i \in 1..Len(stack[u]) :
           stack[u][i].pc = "cored" /\ ~(u = t /\ i = Len(stack[t])) =>
             conn'[stack[u][i].cl] = conn[stack[u][i].cl]
  BY <1>1 DEF CallInv, CallTypes
<1>4. \/ f.pc = "check" /\ Client(s)!Leave(t, [f EXCEPT !.out = "error"])
      \/ f.pc = "check" /\ Client(s)!Leave(t, [f EXCEPT !.out = "preflight"])
      \/ f.pc = "ended" /\ Client(s)!Leave(t, f)
  BY <1>1 DEF Client!In, Client!Return, Client!Top, Last
<1> HIDE DEF f
<1>5. \E g \in CallFrames(s) :
        Client(s)!Leave(t, g) /\ SameCall(g, f) /\ (NoEvents(log, g.id) \/ Announced(log, g.id, g.op, g.out))
  <2>1. CASE f.pc = "check" /\ Client(s)!Leave(t, [f EXCEPT !.out = "error"])
    <3> DEFINE g == [f EXCEPT !.out = "error"]
    <3>1. g \in CallFrames(s) /\ SameCall(g, f) /\ Client(s)!Leave(t, g)
      BY <1>2, <2>1, FrameOver
    <3>2. NoEvents(log, f.id)
      BY <1>2, <2>1 DEF EventsFit
    <3> HIDE DEF g
    <3> QED
      BY <3>1, <3>2 DEF SameCall
  <2>2. CASE f.pc = "check" /\ Client(s)!Leave(t, [f EXCEPT !.out = "preflight"])
    <3> DEFINE g == [f EXCEPT !.out = "preflight"]
    <3>1. g \in CallFrames(s) /\ SameCall(g, f) /\ Client(s)!Leave(t, g)
      BY <1>2, <2>2, FrameOver
    <3>2. NoEvents(log, f.id)
      BY <1>2, <2>2 DEF EventsFit
    <3> HIDE DEF g
    <3> QED
      BY <3>1, <3>2 DEF SameCall
  <2>3. CASE f.pc = "ended" /\ Client(s)!Leave(t, f)
    <3>1. NoEvents(log, f.id) \/ Announced(log, f.id, f.op, f.out)
      BY <1>2, <2>3 DEF EventsFit
    <3> QED
      BY <1>2, <2>3, <3>1 DEF SameCall
  <2> QED
    BY <1>4, <2>1, <2>2, <2>3
<1>6. PICK g \in CallFrames(s) :
        Client(s)!Leave(t, g) /\ SameCall(g, f) /\ (NoEvents(log, g.id) \/ Announced(log, g.id, g.op, g.out))
  BY <1>5
<1>7. /\ g.id = Last(stack[t]).id /\ g.cl = Last(stack[t]).cl /\ g.op = Last(stack[t]).op /\ g.wrap = Last(stack[t]).wrap
      /\ g.out \in {"success", "failure", "preflight", "error"} /\ Last(stack[t]).pc # "lock"
  BY <1>1, <1>6 DEF SameCall, CallFrames, f
<1>8. log' = log
  BY <1>1
<1> QED
  BY <1>1, <1>3, <1>6, <1>7, <1>8, CallGivesUpLock

\* A close ends the connection: no operation of the client is in its core.
LEMMA CallCloses ==
    ASSUME NEW s \in Programs, NEW t \in s.threads, CallInv(s), "no one" \notin s.threads, Client(s)!Close(t)
    PROVE  CallInv(s)'
<1> DEFINE f == Last(stack[t])
<1>1. /\ stack[t] # << >> /\ f.pc = "close" /\ Client(s)!Leave(t, f) /\ log' = log
      /\ conn' = [conn EXCEPT ![f.cl] = FALSE]
  BY DEF Client!In, Client!Close, Client!Top, Last
<1>2. /\ f \in CallFrames(s) /\ EventsFit(log, f) /\ FrameFits(s, f) /\ stack[t] \in Seq(CallFrames(s))
      /\ Len(stack[t]) \in Nat \ {0} /\ Len(stack[t]) \in 1..Len(stack[t]) /\ stack \in Stacks(s)
  BY <1>1, LastFits
<1>3. /\ StacksFit(s, stack, active) /\ LocksFit(s, lock, stack) /\ conn \in [s.clients -> BOOLEAN]
  BY DEF CallInv, CallTypes
<1>4. f.op = "close" /\ f.cl \in s.clients /\ NoEvents(log, f.id) /\ f.out \in {"success", "failure", "preflight", "error"}
  BY <1>1, <1>2 DEF FrameFits, CallFrames, EventsFit
<1>5. ASSUME NEW u \in s.threads, NEW i \in 1..Len(stack[u]), stack[u][i].pc = "cored",
             ~(u = t /\ i = Len(stack[t]))
      PROVE  stack[u][i].cl # f.cl /\ stack[u][i].cl \in s.clients
  <2>1. stack[u][i] \in CallFrames(s)
    <3>1. stack[u] \in Seq(CallFrames(s))
      BY <1>2 DEF Stacks
    <3> QED
      BY <3>1, ElementOfSeq
  <2>2. CASE u # t
    <3>1. LockFits(s, f.cl, lock[f.cl], stack)
      BY <1>3, <1>4 DEF LocksFit
    <3>2. Len(stack[t]) \in PastLock(stack[t], f.cl)
      BY <1>1, <1>2 DEF PastLock, Last
    <3>3. PastLock(stack[u], f.cl) = {}
      BY <2>2, <3>1, <3>2 DEF LockFits
    <3> QED
      BY <1>5, <2>1, <3>3 DEF PastLock, CallFrames
  <2>3. CASE u = t
    <3>1. i < Len(stack[t]) /\ i \in 1..Len(stack[t])
      <4>1. i \in 1..Len(stack[t]) /\ i # Len(stack[t])
        BY <1>5, <2>3
      <4> QED
        BY <1>2, <4>1, OneMoreOrLess
    <3>2. NothingUnder(stack[t]) /\ FrameFits(s, stack[t][i])
      BY <1>3, <3>1 DEF StacksFit, StackFits
    <3>3. stack[t][i].cl = f.cl => stack[t][i].op = "close" /\ stack[t][i].wrap = "derived"
      <4>1. f = stack[t][Len(stack[t])]
        BY DEF Last
      <4> HIDE DEF f
      <4> QED
        BY <1>2, <1>4, <3>1, <3>2, <4>1 DEF NothingUnder
    <3>4. stack[t][i].cl # f.cl
      BY <3>2, <3>3 DEF FrameFits
    <3> QED
      BY <2>1, <2>3, <3>4 DEF CallFrames
  <2> QED
    BY <2>2, <2>3
<1> HIDE DEF f
<1>6. /\ conn' \in [s.clients -> BOOLEAN]
      /\ \A u \in s.threads : \A i \in 1..Len(stack[u]) :
           stack[u][i].pc = "cored" /\ ~(u = t /\ i = Len(stack[t])) =>
             conn'[stack[u][i].cl] = conn[stack[u][i].cl]
  BY <1>1, <1>3, <1>4, <1>5
<1>7. Last(stack[t]).pc # "lock" /\ f = Last(stack[t])
  BY <1>1 DEF f
<1> QED
  BY <1>1, <1>4, <1>6, <1>7, CallGivesUpLock

\* It holds at the start.
LEMMA CallsStart ==
    ASSUME NEW s \in Programs, Client(s)!Init
    PROVE  CallInv(s)
<1>1. /\ issued = 0 /\ stack = [t \in s.threads |-> << >>]
      /\ lock = [cl \in s.clients |-> [owner |-> "no one", count |-> 0]]
      /\ active = [t \in s.threads |-> "default"]
      /\ conn = [cl \in s.clients |-> FALSE]
      /\ log = << >> /\ done = {}
  BY DEF Client!Init, Client!NoOne, Client!Default
<1>2. \A t \in s.threads : stack[t] = << >> /\ Len(stack[t]) = 0 /\ 1..Len(stack[t]) = {}
  <2>1. Len(<< >>) = 0 /\ 1..0 = {}
    BY EmptySeq
  <2> QED
    BY <1>1, <2>1
<1>3. 1..Len(log) = {}
  <2>1. Len(<< >>) = 0 /\ 1..0 = {}
    BY EmptySeq
  <2> QED
    BY <1>1, <2>1
<1>4. CallTypes(s)
  <2>1. << >> \in Seq(CallFrames(s)) /\ << >> \in Seq(CallEventsOf(s))
    BY EmptySeq
  <2> DEFINE Q == Seq(CallFrames(s))
  <2>2. << >> \in Q
    BY <2>1
  <2> HIDE DEF Q
  <2>3. stack \in [s.threads -> Q]
    BY <1>1, <2>2
  <2>4. /\ lock \in [s.clients -> [owner: s.threads \cup {"no one"}, count: Nat]]
        /\ active \in [s.threads -> s.clients \cup {"default"}] /\ conn \in [s.clients -> BOOLEAN]
    BY <1>1
  <2>5. issued \in Nat /\ log \in Seq(CallEventsOf(s)) /\ done \subseteq CallRecords(s)
    BY <1>1, <2>1
  <2> QED
    BY <2>3, <2>4, <2>5 DEF CallTypes, Q
<1>5. StacksFit(s, stack, active)
  <2> SUFFICES ASSUME NEW t \in s.threads
               PROVE  StackFits(s, stack[t]) /\ NothingUnder(stack[t]) /\ active[t] = BoundNow(stack[t])
    BY DEF StacksFit
  <2>1. StackFits(s, stack[t]) /\ NothingUnder(stack[t])
    BY <1>2 DEF StackFits, NothingUnder
  <2>2. active[t] = BoundNow(stack[t])
    BY <1>1, <1>2 DEF BoundNow
  <2> QED
    BY <2>1, <2>2
<1>6. LocksFit(s, lock, stack)
  <2>1. \A t \in s.threads : \A cl : PastLock(stack[t], cl) = {}
    BY <1>2 DEF PastLock
  <2>2. Cardinality({}) = 0
    BY FS_EmptySet
  <2>3. \A cl \in s.clients : lock[cl].owner = "no one" /\ lock[cl].count = 0
    BY <1>1
  <2> QED
    BY <2>1, <2>2, <2>3 DEF LocksFit, LockFits
<1>7. ConnsFit(s, conn, stack) /\ LogFits(s, stack, log, done)
  BY <1>1, <1>2, <1>3 DEF ConnsFit, LogFits
<1>8. IdsFit(s, issued, stack, log, done)
  BY <1>1, <1>2, <1>3 DEF IdsFit
<1> QED
  BY <1>4, <1>5, <1>6, <1>7, <1>8 DEF CallInv

\* Every step of a thread keeps it.
LEMMA CallSteps ==
    ASSUME NEW s \in Programs, CallInv(s), Client(s)!ClientAssumption, Client(s)!Next
    PROVE  CallInv(s)'
<1>1. PICK t \in s.threads : Client(s)!Step(t) \/ \E cl \in s.clients, op \in s.ops : Client(s)!Call(t, cl, op)
  BY DEF Client!Next
<1>2. "no one" \notin s.threads /\ s.results \subseteq Client(s)!Outcomes
  BY DEF Client!ClientAssumption
<1>3. CASE \E cl \in s.clients, op \in s.ops : Client(s)!Call(t, cl, op)
  BY <1>3, CallBegins
<1>4. CASE Client(s)!Enter(t)
  BY <1>2, <1>4, CallEnters
<1>5. CASE Client(s)!Super(t)
  <2>1. Client(s)!In(t, "super")
    BY <1>5 DEF Client!Super
  <2>2. CASE ~Client(s)!Reentrant(t, Client(s)!Top(t).cl, Client(s)!Top(t).op, "base")
    BY <1>5, <2>1, <2>2, CallGoesUp
  <2>3. CASE Client(s)!Reentrant(t, Client(s)!Top(t).cl, Client(s)!Top(t).op, "base")
    <3>1. /\ Client(s)!SetTop(t, [Client(s)!Goto(Client(s)!Top(t), "ended") EXCEPT !.out = "error"])
          /\ UNCHANGED <<issued, lock, active, conn, log, done>>
      BY <1>5, <2>3 DEF Client!Super
    <3> QED
      BY <1>2, <2>1, <3>1, CallGoesOnQuietly
  <2> QED
    BY <2>2, <2>3
<1>6. CASE Client(s)!CheckTargetVersion(t)
  <2>1. Client(s)!In(t, "check") /\ UNCHANGED <<conn, log>>
    BY <1>6 DEF Client!CheckTargetVersion
  <2>2. CASE /\ Client(s)!SetTop(t, Client(s)!Goto(Client(s)!Top(t), "begin"))
             /\ UNCHANGED <<issued, lock, active, done>>
    BY <1>2, <2>1, <2>2, CallGoesOnQuietly
  <2>3. CASE \/ Client(s)!Leave(t, [Client(s)!Top(t) EXCEPT !.out = "error"])
             \/ Client(s)!Leave(t, [Client(s)!Top(t) EXCEPT !.out = "preflight"])
    BY <1>2, <2>1, <2>3, CallReturns
  <2> QED
    BY <1>6, <2>2, <2>3 DEF Client!CheckTargetVersion
<1>7. CASE Client(s)!Started(t) \/ Client(s)!Core(t) \/ Client(s)!Ended(t)
  BY <1>7, CallEmits
<1>8. CASE Client(s)!Resume(t)
  BY <1>2, <1>8, CallGoesOnQuietly
<1>9. CASE Client(s)!Return(t)
  BY <1>2, <1>9, CallReturns
<1>10. CASE Client(s)!Close(t)
  BY <1>2, <1>10, CallCloses
<1> QED
  BY <1>1, <1>3, <1>4, <1>5, <1>6, <1>7, <1>8, <1>9, <1>10 DEF Client!Step

\* The invariant says what the properties of the client do.
LEMMA CallGives ==
    ASSUME NEW s \in Programs, CallInv(s), "no one" \notin s.threads
    PROVE  /\ Client(s)!TypeOK /\ Client(s)!Serialised /\ Client(s)!OpenWhileUsed /\ Client(s)!NothingUnderneath
           /\ Client(s)!AnnouncedAsReturned /\ Client(s)!EventsLandOnOwner
<1>1. /\ CallTypes(s) /\ StacksFit(s, stack, active) /\ LocksFit(s, lock, stack) /\ ConnsFit(s, conn, stack)
      /\ LogFits(s, stack, log, done)
  BY DEF CallInv
<1>2. \A t \in s.threads : /\ stack[t] \in Seq(CallFrames(s)) /\ DOMAIN stack[t] = 1..Len(stack[t])
                           /\ \A i \in 1..Len(stack[t]) : stack[t][i] \in CallFrames(s)
  <2> TAKE t \in s.threads
  <2>1. stack[t] \in Seq(CallFrames(s))
    BY <1>1 DEF CallTypes
  <2>2. \A i \in 1..Len(stack[t]) : stack[t][i] \in CallFrames(s)
    BY <2>1, ElementOfSeq
  <2>3. DOMAIN stack[t] = 1..Len(stack[t])
    BY <2>1, LenProperties
  <2> QED
    BY <2>1, <2>2, <2>3
<1>3. DOMAIN log = 1..Len(log) /\ \A i \in 1..Len(log) : log[i] \in CallEventsOf(s)
  <2>1. log \in Seq(CallEventsOf(s))
    BY <1>1 DEF CallTypes
  <2>2. DOMAIN log = 1..Len(log)
    BY <2>1, LenProperties
  <2>3. \A i \in 1..Len(log) : log[i] \in CallEventsOf(s)
    BY <2>1, ElementOfSeq
  <2> QED
    BY <2>2, <2>3
<1>4. Client(s)!TypeOK
  <2>1. CallFrames(s) = Client(s)!Frame /\ CallEventsOf(s) = Client(s)!Emitted
    BY DEF CallFrames, CallEventsOf, Client!Frame, Client!Emitted, Client!Default, Client!Outcomes
  <2>2. \A cl \in s.clients : /\ lock[cl].owner \in s.threads \cup {"no one"} /\ lock[cl].count \in Nat
                              /\ (lock[cl].count = 0) = (lock[cl].owner = "no one")
    BY <1>1 DEF CallTypes, LocksFit, LockFits
  <2>3. \A d \in done : d.out \in Client(s)!Outcomes
    BY <1>1 DEF CallTypes, CallRecords, Client!Outcomes
  <2>4. \A t \in s.threads : \A i \in 1..Len(stack[t]) : stack[t][i] \in Client(s)!Frame
    BY <1>2, <2>1
  <2>5. \A i \in 1..Len(log) : log[i] \in Client(s)!Emitted
    BY <1>3, <2>1
  <2>6. /\ issued \in Nat /\ active \in [s.threads -> s.clients \cup {Client(s)!Default}]
        /\ conn \in [s.clients -> BOOLEAN]
    BY <1>1 DEF CallTypes, Client!Default
  <2> QED
    BY <2>2, <2>3, <2>4, <2>5, <2>6 DEF Client!TypeOK, Client!NoOne
<1>5. Client(s)!Serialised
  <2> SUFFICES ASSUME NEW cl \in s.clients, NEW t \in s.threads, NEW u \in s.threads, t # u
               PROVE  Client(s)!Inside(t, cl) = {} \/ Client(s)!Inside(u, cl) = {}
    BY DEF Client!Serialised
  <2>1. LockFits(s, cl, lock[cl], stack)
    BY <1>1 DEF LocksFit
  <2>2. PastLock(stack[t], cl) = {} \/ PastLock(stack[u], cl) = {}
    BY <2>1 DEF LockFits
  <2>3. \A v \in s.threads : PastLock(stack[v], cl) = {} => Client(s)!Inside(v, cl) = {}
    BY <1>2 DEF PastLock, Client!Inside, Client!InCalls
  <2> QED
    BY <2>2, <2>3
<1>6. Client(s)!OpenWhileUsed
  <2> SUFFICES ASSUME NEW t \in s.threads, NEW f \in Client(s)!InCalls(t), f.pc = "cored"
               PROVE  conn[f.cl]
    BY DEF Client!OpenWhileUsed
  <2>1. PICK i \in 1..Len(stack[t]) : f = stack[t][i]
    BY <1>2 DEF Client!InCalls
  <2> QED
    BY <1>1, <2>1 DEF ConnsFit
<1>7. Client(s)!NothingUnderneath
  <2>1. ASSUME NEW t \in s.threads, NEW i \in DOMAIN stack[t], NEW j \in DOMAIN stack[t],
               i < j, stack[t][i].cl = stack[t][j].cl, stack[t][j].op \notin Client(s)!ReadOnly
        PROVE  /\ stack[t][i].op = stack[t][j].op /\ stack[t][i].wrap = "derived" /\ stack[t][j].wrap = "base"
               /\ \A k \in i + 1..j - 1 : stack[t][k].cl # stack[t][j].cl
    <3>1. NothingUnder(stack[t])
      BY <1>1 DEF StacksFit
    <3>2. i \in 1..Len(stack[t]) /\ j \in 1..Len(stack[t])
      BY <1>2
    <3>3. stack[t][j].op \notin {"info", "validate"}
      BY <2>1 DEF Client!ReadOnly
    <3> QED
      BY <2>1, <3>1, <3>2, <3>3 DEF NothingUnder
  <2> QED
    BY <2>1 DEF Client!NothingUnderneath
<1>8. Client(s)!AnnouncedAsReturned
  <2> SUFFICES ASSUME NEW d \in done, Client(s)!EventsOf(d.id) # {}
               PROVE  \E first, last \in Client(s)!EventsOf(d.id) :
                        /\ log[first].kind = "started" /\ Client(s)!Ends(last)
                        /\ \A i \in Client(s)!EventsOf(d.id) : first <= i /\ i <= last /\ (Client(s)!Ends(i) => i = last)
                        /\ d.op # "validate" => (log[last].kind = "completed") = (d.out = "success")
    BY DEF Client!AnnouncedAsReturned
  <2>1. Client(s)!EventsOf(d.id) = EventsIn(log, d.id)
    BY <1>3 DEF Client!EventsOf, EventsIn
  <2>2. Announced(log, d.id, d.op, d.out)
    BY <1>1, <2>1 DEF LogFits, NoEvents
  <2>3. \A i : Client(s)!Ends(i) <=> IsEnd(log[i])
    BY DEF Client!Ends, IsEnd
  <2>4. PICK first \in EventsIn(log, d.id), last \in EventsIn(log, d.id) :
           /\ log[first].kind = "started" /\ IsEnd(log[last])
           /\ \A i \in EventsIn(log, d.id) : first <= i /\ i <= last /\ (IsEnd(log[i]) => i = last)
           /\ d.op # "validate" => (log[last].kind = "completed") = (d.out = "success")
    BY <2>2 DEF Announced
  <2>5. first \in Client(s)!EventsOf(d.id) /\ last \in Client(s)!EventsOf(d.id) /\ Client(s)!Ends(last)
    BY <2>1, <2>3, <2>4
  <2>6. \A i \in Client(s)!EventsOf(d.id) : first <= i /\ i <= last /\ (Client(s)!Ends(i) => i = last)
    BY <2>1, <2>3, <2>4
  <2> QED
    BY <2>4, <2>5, <2>6
<1>9. Client(s)!EventsLandOnOwner
  <2>1. \A i \in DOMAIN log : log[i].on = log[i].cl
    BY <1>1, <1>3 DEF LogFits
  <2>2. \A t \in s.threads : stack[t] = << >> => active[t] = "default"
    BY <1>1 DEF StacksFit, BoundNow
  <2> QED
    BY <2>1, <2>2 DEF Client!EventsLandOnOwner, Client!Default
<1> QED
  BY <1>4, <1>5, <1>6, <1>7, <1>8, <1>9

\* While threads call clients, the invariant holds.
CallsHold == part = "calls" => setup \in Programs /\ \A s \in Programs : setup = s => CallInv(s)

\* A step of any part keeps it.
LEMMA CallsStay ==
    ASSUME ApiAssumption, CallsHold, [Next]_vars
    PROVE  CallsHold'
<1>1. CASE part # "calls"
  <2>1. part' = part
    BY DEF Next, CallsRun, AsyncRuns, BusRuns, LineRuns, ServerRuns, vars
  <2> QED
    BY <1>1, <2>1 DEF CallsHold
<1>2. CASE part = "calls" /\ Next
  <2>1. PICK s \in Programs : setup = s /\ Client(s)!Next
    BY <1>2 DEF Next, AsyncRuns, BusRuns, LineRuns, ServerRuns
  <2>2. CallInv(s) /\ Client(s)!ClientAssumption
    BY <1>2, <2>1 DEF CallsHold, ApiAssumption
  <2>3. CallInv(s)'
    BY <2>1, <2>2, CallSteps
  <2>4. setup' = s
    BY <1>2, <2>1 DEF Next, CallsRun, AsyncRuns, BusRuns, LineRuns, ServerRuns
  <2> QED
    BY <2>1, <2>3, <2>4 DEF CallsHold
<1>3. CASE part = "calls" /\ UNCHANGED vars
  <2>1. UNCHANGED <<part, setup>> /\ UNCHANGED callVars
    BY <1>3 DEF vars
  <2>2. UNCHANGED <<issued, stack, lock, active, conn, log, done>>
    BY <2>1 DEF callVars
  <2> SUFFICES ASSUME NEW s \in Programs, setup = s
               PROVE  CallInv(s)'
    BY <1>3, <2>1 DEF CallsHold
  <2>3. CallInv(s)
    BY <1>3 DEF CallsHold
  <2> QED
    BY <2>2, <2>3 DEF CallInv, CallTypes
<1> QED
  BY <1>1, <1>2, <1>3

-----------------------------------------------------------------------------
(* All of them                                                             *)

\* The invariants of the parts, of which one runs.
AllHold == CallsHold /\ AsyncHolds /\ BusHolds /\ LineHolds /\ ServerHolds

\* They hold at the start.
LEMMA AllStart ==
    ASSUME ApiAssumption, Init
    PROVE  AllHold
<1>1. CASE part = "calls"
  <2>1. PICK s \in Programs : setup = s /\ Client(s)!Init
    BY <1>1 DEF Init
  <2>2. CallInv(s)
    BY <2>1, CallsStart
  <2> QED
    BY <1>1, <2>1, <2>2 DEF AllHold, CallsHold, AsyncHolds, BusHolds, LineHolds, ServerHolds
<1>2. CASE part = "async"
  <2>1. PICK s \in TaskSetups : setup = s /\ Async(s)!Init
    BY <1>2 DEF Init
  <2>2. AsyncInv(s)
    BY <2>1, AsyncStarts DEF ApiAssumption
  <2> QED
    BY <1>2, <2>1, <2>2 DEF AllHold, CallsHold, AsyncHolds, BusHolds, LineHolds, ServerHolds
<1>3. CASE part = "bus"
  <2>1. PICK s \in BusSetups : setup = s /\ Bus(s)!Init
    BY <1>3 DEF Init
  <2>2. BusInv
    BY <2>1, BusStarts
  <2> QED
    BY <1>3, <2>1, <2>2 DEF AllHold, CallsHold, AsyncHolds, BusHolds, LineHolds, ServerHolds
<1>4. CASE part = "line"
  <2>1. PICK s \in LineSetups : setup = s /\ Line(s)!Init
    BY <1>4 DEF Init
  <2>2. LineInv(s)
    BY <2>1, LineStarts DEF ApiAssumption
  <2> QED
    BY <1>4, <2>1, <2>2 DEF AllHold, CallsHold, AsyncHolds, BusHolds, LineHolds, ServerHolds
<1>5. CASE part = "server"
  <2>1. PICK s \in ServerSetups : setup = s /\ Server(s)!Init
    BY <1>5 DEF Init
  <2>2. ServerInv(s)
    BY <2>1, ServerStarts DEF ApiAssumption
  <2> QED
    BY <1>5, <2>1, <2>2 DEF AllHold, CallsHold, AsyncHolds, BusHolds, LineHolds, ServerHolds
<1> QED
  BY <1>1, <1>2, <1>3, <1>4, <1>5 DEF Init

\* A step of any part keeps them.
LEMMA AllStay ==
    ASSUME ApiAssumption, AllHold, [Next]_vars
    PROVE  AllHold'
BY CallsStay, AsyncStays, BusStays, LineStays, ServerStays DEF AllHold

\* The invariants say what the properties do.
LEMMA AllGive ==
    ASSUME ApiAssumption, AllHold
    PROVE  OneUser /\ EventsAgree
<1>1. ASSUME part = "calls", NEW s \in Programs, setup = s
      PROVE  /\ Client(s)!TypeOK /\ Client(s)!Serialised /\ Client(s)!OpenWhileUsed /\ Client(s)!NothingUnderneath
             /\ Client(s)!AnnouncedAsReturned /\ Client(s)!EventsLandOnOwner
  <2>1. CallInv(s)
    BY <1>1 DEF AllHold, CallsHold
  <2>2. "no one" \notin s.threads
    BY DEF ApiAssumption, Client!ClientAssumption
  <2> QED
    BY <2>1, <2>2, CallGives
<1>2. ASSUME part = "async", NEW s \in TaskSetups, setup = s
      PROVE  Async(s)!TypeOK /\ Async(s)!WorkerUnderLock
  BY <1>2 DEF AllHold, AsyncHolds, AsyncInv, AsyncTypes, AsyncOrder, Async!WorkerUnderLock
<1>3. ASSUME part = "bus", NEW s \in BusSetups, setup = s
      PROVE  Bus(s)!TypeOK
  BY <1>3, BusGives DEF AllHold, BusHolds
<1>4. ASSUME part = "line", NEW s \in LineSetups, setup = s
      PROVE  Line(s)!StopsAtFailure /\ Line(s)!UnwindsInOrder /\ Line(s)!ExitTellsTheTruth
  BY <1>4, LineGives DEF AllHold, LineHolds
<1>5. ASSUME part = "server", NEW s \in ServerSetups, setup = s
      PROVE  Server(s)!OwnOutput /\ Server(s)!OneClient /\ Server(s)!SessionLog
  BY <1>5, ServerGives DEF AllHold, ServerHolds
<1>6. TypeOK
  BY <1>1, <1>2, <1>3 DEF TypeOK
<1>7. OneUser
  BY <1>1, <1>2, <1>4, <1>5, <1>6 DEF OneUser
<1>8. EventsAgree
  BY <1>1, <1>4, <1>5 DEF EventsAgree
<1> QED
  BY <1>7, <1>8

\* One user at a time, of a client by its lock, of the worker thread of the asynchronous
\* client, and of the one client of the MCP server; no mutating operation underneath another
\* one; the command line stops at a failure and closes its client (api/client.py,
\* api/async_client.py, cli/main.py, cli/mcp/).
THEOREM OneUserAtATime == ApiAssumption /\ Spec => []OneUser
<1> SUFFICES ASSUME ApiAssumption PROVE Spec => []OneUser
  OBVIOUS
<1>1. Init => AllHold
  BY AllStart
<1>2. AllHold /\ [Next]_vars => AllHold'
  BY AllStay
<1>3. AllHold => OneUser
  BY AllGive
<1> QED
  BY <1>1, <1>2, <1>3, PTL DEF Spec

\* Events, exit codes, reports and answers tell what happened: an operation announced as
\* started is announced once as over, as its result says and on the emitter of its client;
\* the exit code agrees with the reports, and what a command of the MCP server prints is its
\* own answer (api/client.py, cli/main.py, cli/mcp/).
THEOREM WaysInTellTheTruth == ApiAssumption /\ Spec => []EventsAgree
<1> SUFFICES ASSUME ApiAssumption PROVE Spec => []EventsAgree
  OBVIOUS
<1>1. Init => AllHold
  BY AllStart
<1>2. AllHold /\ [Next]_vars => AllHold'
  BY AllStay
<1>3. AllHold => EventsAgree
  BY AllGive
<1> QED
  BY <1>1, <1>2, <1>3, PTL DEF Spec
=============================================================================
