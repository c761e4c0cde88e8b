---------------------------- MODULE AsyncClient ----------------------------
(***************************************************************************)
(* The asyncio facade of the client (api/async_client.py) and the guard an *)
(* application puts in its startup (integrations/fastapi.py).  Tasks of    *)
(* the event loop call operations; a lock lets one through at a time, and  *)
(* a single worker thread runs it.  Any task may be cancelled at any point.*)
(***************************************************************************)
EXTENDS Naturals, Sequences

CONSTANTS
  Tasks,       \* tasks of the event loop
  Jobs,        \* of "migrate", "undo", "close", "guard": what a task does
  MaxCancels   \* bound: cancellations

AsyncClientAssumption ==
  MaxCancels \in Nat /\ Jobs \subseteq {"migrate", "undo", "close", "guard"} /\ "none" \notin Tasks

VARIABLES
  job, pc,     \* pc: "new", "lock", "thread" awaiting the worker, "done"
  queue,       \* tasks waiting for the lock, in order
  holder,      \* the task that has the lock
  worker,      \* what the worker thread does: [task, state], state "run", "ok", "error"
  asked,       \* task -> a cancellation is to be delivered at its next step
  seen,        \* task -> it was cancelled while it awaited the worker ("cancelled" in the code)
  outcome,     \* task -> how it ended
  told,        \* task -> what info said: "current", "pending", "failed"
  closed,      \* _closed
  shut,        \* the wrapped client was closed
  pending,     \* scripts are pending
  cancels

vars == <<job, pc, queue, holder, worker, asked, seen, outcome, told, closed, shut, pending, cancels>>

None == "none"
Idle == [task |-> None, state |-> "idle"]

Init ==
  /\ job \in [Tasks -> Jobs] /\ pc = [t \in Tasks |-> "new"] /\ queue = <<>> /\ holder = None /\ worker = Idle
  /\ asked = [t \in Tasks |-> FALSE] /\ seen = [t \in Tasks |-> FALSE]
  /\ outcome = [t \in Tasks |-> None] /\ told = [t \in Tasks |-> None]
  /\ closed = FALSE /\ shut = FALSE /\ pending \in BOOLEAN /\ cancels = 0

End(t, how) ==
  /\ pc' = [pc EXCEPT ![t] = "done"] /\ outcome' = [outcome EXCEPT ![t] = how]
  /\ asked' = [asked EXCEPT ![t] = FALSE]

\* Someone cancels a task; the loop delivers it when the task runs next.
Cancel(t) ==
  /\ cancels < MaxCancels /\ cancels' = cancels + 1 /\ pc[t] # "done" /\ ~asked[t]
  /\ asked' = [asked EXCEPT ![t] = TRUE]
  /\ UNCHANGED <<job, pc, queue, holder, worker, seen, outcome, told, closed, shut, pending>>

\* async with self._lock, in order of arrival.
Call(t) ==
  /\ pc[t] = "new"
  /\ IF asked[t] THEN End(t, "cancelled") /\ UNCHANGED queue
     ELSE pc' = [pc EXCEPT ![t] = "lock"] /\ queue' = Append(queue, t) /\ UNCHANGED <<outcome, asked>>
  /\ UNCHANGED <<job, holder, worker, seen, told, closed, shut, pending, cancels>>

\* Mutant: its place in the queue remains.
GiveUpQueued(t) ==
  /\ pc[t] = "lock" /\ asked[t] /\ End(t, "cancelled") /\ UNCHANGED queue
  /\ UNCHANGED <<job, holder, worker, seen, told, closed, shut, pending, cancels>>

GiveUp(t) ==
  /\ pc[t] = "lock" /\ asked[t] /\ End(t, "cancelled")
  /\ \E i \in DOMAIN queue : queue[i] = t /\ queue' = SubSeq(queue, 1, i - 1) \o SubSeq(queue, i + 1, Len(queue))
  /\ UNCHANGED <<job, holder, worker, seen, told, closed, shut, pending, cancels>>

\* Mutant: what was closed is not looked at again under the lock.
AcquireUnchecked(t) ==
  /\ pc[t] = "lock" /\ ~asked[t] /\ holder = None /\ queue # << >> /\ Head(queue) = t /\ queue' = Tail(queue)
  /\ pc' = [pc EXCEPT ![t] = "thread"] /\ holder' = t /\ worker' = [task |-> t, state |-> "run"] /\ UNCHANGED <<outcome, asked>>
  /\ UNCHANGED <<job, seen, told, closed, shut, pending, cancels>>

\* With the lock: nothing to do on a closed client, or the worker gets the job.
Acquire(t) ==
  /\ pc[t] = "lock" /\ ~asked[t] /\ holder = None /\ queue # << >> /\ Head(queue) = t /\ queue' = Tail(queue)
  /\ IF closed
     THEN End(t, IF job[t] = "close" THEN "ok" ELSE "refused") /\ UNCHANGED <<holder, worker>>
     ELSE /\ pc' = [pc EXCEPT ![t] = "thread"] /\ holder' = t /\ worker' = [task |-> t, state |-> "run"]
          /\ UNCHANGED <<outcome, asked>>
  /\ UNCHANGED <<job, seen, told, closed, shut, pending, cancels>>

\* The worker thread: the operation of the wrapped client, or its __exit__.
Work(state) ==
  /\ worker.state = "run" /\ worker' = [worker EXCEPT !.state = state]
  /\ LET j == job[worker.task]
     IN  /\ pending' = IF state = "error" THEN pending
                       ELSE IF j = "migrate" THEN FALSE ELSE IF j = "undo" THEN TRUE ELSE pending
         /\ shut' = (shut \/ j = "close")
         /\ told' = IF j # "guard" THEN told
                    ELSE [told EXCEPT ![worker.task] = IF state = "error" THEN "failed"
                                                       ELSE IF pending THEN "pending" ELSE "current"]
  /\ UNCHANGED <<job, pc, queue, holder, asked, seen, outcome, closed, cancels>>

\* migration_guard: what the application does with the answer.
Guarded(t) == IF told[t] = "current" THEN "started" ELSE "blocked"

How(t) ==
  IF seen[t] THEN "cancelled"
  ELSE IF job[t] = "guard" THEN Guarded(t)
  ELSE worker.state

\* Leaves "async with"; closing is over when the worker has ended, whatever it returned.
Leave(t, how) ==
  /\ End(t, how) /\ holder' = None /\ worker' = Idle
  /\ closed' = (closed \/ job[t] = "close")

\* A cancellation is remembered while the worker still runs; the task keeps waiting.
Interrupt(t) ==
  /\ pc[t] = "thread" /\ asked[t]
  /\ IF worker.state = "run"
     THEN /\ seen' = [seen EXCEPT ![t] = TRUE] /\ asked' = [asked EXCEPT ![t] = FALSE]
          /\ UNCHANGED <<pc, outcome, holder, worker, closed>>
     ELSE Leave(t, "cancelled") /\ UNCHANGED seen
  /\ UNCHANGED <<job, queue, told, shut, pending, cancels>>

Resume(t) ==
  /\ pc[t] = "thread" /\ ~asked[t] /\ worker.state \in {"ok", "error"} /\ Leave(t, How(t))
  /\ UNCHANGED <<job, queue, seen, told, shut, pending, cancels>>

Next ==
  \/ \E t \in Tasks : Cancel(t) \/ Call(t) \/ GiveUp(t) \/ Acquire(t) \/ Interrupt(t) \/ Resume(t)
  \/ \E s \in {"ok", "error"} : Work(s)

Run(t) == Call(t) \/ GiveUp(t) \/ Acquire(t) \/ Interrupt(t) \/ Resume(t)
Thread == \E s \in {"ok", "error"} : Work(s)

\* The loop and the worker thread go on; nobody has to cancel anything.
Spec ==
  /\ Init /\ [][Next]_vars
  /\ \A t \in Tasks : WF_vars(Run(t))
  /\ WF_vars(Thread)

-----------------------------------------------------------------------------
(* Properties.                                                             *)

TypeOK ==
  /\ pc \in [Tasks -> {"new", "lock", "thread", "done"}] /\ holder \in Tasks \cup {None}
  /\ \A i \in DOMAIN queue : queue[i] \in Tasks
  /\ worker.state \in {"idle", "run", "ok", "error"} /\ closed \in BOOLEAN /\ pending \in BOOLEAN
  /\ \A t \in Tasks : outcome[t] \in {None, "ok", "error", "refused", "cancelled", "started", "blocked"}

\* While the worker runs an operation its task holds the lock, cancelled or not: the
\* wrapped client and its connection never serve two at once.
WorkerUnderLock == worker.state # "idle" => holder = worker.task /\ pc[holder] = "thread"

\* No operation runs on the wrapped client once it is closed.
NothingAfterClose == [][worker.state # "run" /\ worker'.state = "run" => ~shut]_vars

\* The guard lets an application start only after info saw nothing pending; an info that
\* fails, and a cancelled guard, do not.
GuardBlocks == \A t \in Tasks : outcome[t] = "started" => told[t] = "current"

\* A task that was cancelled is not told of a result.
CancelledIsCancelled ==
  [][\A t \in Tasks : pc[t] # "done" /\ pc'[t] = "done" /\ (asked[t] \/ seen[t]) => outcome'[t] = "cancelled"]_vars

\* Every task ends: the lock is passed on, also by cancelled tasks.
EveryTaskEnds == \A t \in Tasks : <>(pc[t] = "done")
=============================================================================
