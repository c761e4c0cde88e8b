----------------------------- MODULE ClientCalls -----------------------------
(***************************************************************************)
(* Calls on DBLiftClient objects: several threads call operations and      *)
(* close; an operation emits events whose listeners run on the thread of   *)
(* the operation and may call a client again.  A client serialises its     *)
(* operations with a reentrant lock, refuses a mutating call or a close    *)
(* that is nested in one of its own operations, and binds its emitter for  *)
(* the time of the call, so that events of the core land on it.            *)
(*                                                                         *)
(* What an operation does is CommandRun's subject: here the executor       *)
(* returns a result, raises the preflight error, or raises another.        *)
(***************************************************************************)
EXTENDS Naturals, Sequences

CONSTANTS
  Threads, Clients,
  Ops,        \* operations the callers use
  Results,    \* bound: how an executor may end
  Override,   \* a subclass overrides the operations and calls super()
  MaxCalls,   \* bound: the last call, whose super() comes after it
  MaxDepth    \* bound: calls nested in each other

Outcomes == {"success", "failure", "preflight", "error"}
ReadOnly == {"info", "validate"}
Mutating == {"migrate", "undo", "clean", "baseline", "repair", "import_flyway"}

ClientAssumption ==
  /\ Ops \subseteq ReadOnly \cup Mutating \cup {"close"}
  /\ Results \subseteq Outcomes /\ Override \in BOOLEAN /\ MaxCalls \in Nat /\ MaxDepth \in Nat
  /\ "no one" \notin Threads

VARIABLES
  issued,  \* calls made so far; each has its number as id
  stack,   \* per thread: the calls it is in, innermost last
  lock,    \* per client: the RLock, [owner, count]
  active,  \* per thread: the emitter bound in its context
  conn,    \* per client: whether its provider is connected
  log,     \* events in the order they were emitted
  done     \* calls that are over: [id, cl, op, out, returned, outer]

vars == <<issued, stack, lock, active, conn, log, done>>

NoOne == "no one"
Default == "default"
Frame == [id: Nat \ {0}, cl: Clients, op: Ops, wrap: {"derived", "base"}, bound: Clients \cup {Default},
          pc: {"lock", "check", "begin", "began", "core", "cored", "super", "end", "ended", "close"},
          out: Outcomes]
Emitted == [on: Clients \cup {Default}, cl: Clients, id: Nat \ {0},
            kind: {"started", "core", "completed", "failed"}]

TypeOK ==
  /\ issued \in Nat
  /\ \A t \in Threads : \A i \in 1..Len(stack[t]) : stack[t][i] \in Frame
  /\ active \in [Threads -> Clients \cup {Default}]
  /\ \A cl \in Clients : /\ lock[cl].owner \in Threads \cup {NoOne}
                         /\ lock[cl].count \in Nat
                         /\ (lock[cl].count = 0) = (lock[cl].owner = NoOne)
  /\ conn \in [Clients -> BOOLEAN]
  /\ \A i \in 1..Len(log) : log[i] \in Emitted
  /\ \A d \in done : d.out \in Outcomes

Init ==
  /\ issued = 0 /\ stack = [t \in Threads |-> << >>]
  /\ lock = [cl \in Clients |-> [owner |-> NoOne, count |-> 0]]
  /\ active = [t \in Threads |-> Default]
  /\ conn = [cl \in Clients |-> FALSE]
  /\ log = << >> /\ done = {}

-----------------------------------------------------------------------------
(* Entering and leaving a call. *)

Top(t) == stack[t][Len(stack[t])]
SetTop(t, f) == stack' = [stack EXCEPT ![t][Len(stack[t])] = f]
InCalls(t) == {stack[t][i] : i \in DOMAIN stack[t]}
Goto(f, pc) == [f EXCEPT !.pc = pc]
In(t, pc) == stack[t] # << >> /\ Top(t).pc = pc

\* A caller is at the bottom, or in a listener of the call it is in.
Listening(t) == stack[t] # << >> /\ Top(t).pc \in {"began", "cored", "ended"}

\* The operations of this client that the thread is in.
Own(t, cl) == {f \in InCalls(t) : f.cl = cl}

\* Mutant: only the operation's own name is looked at.
NestsOthers(t, cl, op, wrap) ==
  \E f \in Own(t, cl) : f.op = op /\ f.wrap = wrap

\* A mutating call is refused inside another one; an override that calls super()
\* reaches the same operation through another wrapper.  A close is always refused.
Reentrant(t, cl, op, wrap) ==
  /\ Own(t, cl) # {} /\ op \notin ReadOnly
  /\ op = "close" \/ \E f \in Own(t, cl) : f.op # op \/ f.wrap = wrap

NewFrame(cl, op, wrap) ==
  [id |-> issued + 1, cl |-> cl, op |-> op, wrap |-> wrap, bound |-> Default, pc |-> "lock",
   out |-> "success"]

Outermost == IF Override THEN "derived" ELSE "base"

\* A call from the program or from a listener.  A refused one raises RuntimeError,
\* which a dispatching emitter logs.
Call(t, cl, op) ==
  /\ stack[t] = << >> \/ Listening(t)
  /\ issued < MaxCalls /\ issued' = issued + 1 /\ Len(stack[t]) < MaxDepth
  /\ LET wrap == IF op = "close" THEN "base" ELSE Outermost
     IN  IF Reentrant(t, cl, op, wrap)
         THEN /\ done' = done \cup {[id |-> issued + 1, cl |-> cl, op |-> op, out |-> "error",
                                     returned |-> FALSE, outer |-> TRUE]}
              /\ UNCHANGED stack
         ELSE stack' = [stack EXCEPT ![t] = Append(@, NewFrame(cl, op, wrap))] /\ UNCHANGED done
  /\ UNCHANGED <<lock, active, conn, log>>

\* The RLock is free or held by this thread; the client's emitter is bound.
Enter(t) ==
  LET f == Top(t)
  IN  /\ In(t, "lock") /\ lock[f.cl].owner \in {NoOne, t}
      /\ lock' = [lock EXCEPT ![f.cl] = [owner |-> t, count |-> @.count + 1]]
      /\ active' = [active EXCEPT ![t] = IF f.op = "close" THEN @ ELSE f.cl]
      /\ SetTop(t, [f EXCEPT !.pc = IF f.op = "close" THEN "close"
                                    ELSE IF f.wrap = "derived" THEN "super" ELSE "check",
                             !.bound = active[t]])
      /\ UNCHANGED <<issued, conn, log, done>>

\* The override calls super(): the base class's wrapper of the same operation.
Super(t) ==
  /\ In(t, "super")
  /\ IF Reentrant(t, Top(t).cl, Top(t).op, "base")
     THEN SetTop(t, [Goto(Top(t), "ended") EXCEPT !.out = "error"]) /\ UNCHANGED issued
     ELSE /\ stack' = [stack EXCEPT ![t] = Append([stack[t] EXCEPT ![Len(stack[t])] = Goto(Top(t), "ended")],
                                                  NewFrame(Top(t).cl, Top(t).op, "base"))]
          /\ issued' = issued + 1
  /\ UNCHANGED <<lock, active, conn, log, done>>

\* Mutant: the emitter stays bound after the call.
LeaveBound(t) == active

\* The context variable is reset to what it was before the call.
Unbound(t) == [active EXCEPT ![t] = Top(t).bound]

\* Leaving the wrapper: emitter, stack and lock are restored whatever happened.
Leave(t, f) ==
  /\ stack' = [stack EXCEPT ![t] = SubSeq(@, 1, Len(@) - 1)] /\ UNCHANGED issued
  /\ active' = Unbound(t)
  /\ lock' = [lock EXCEPT ![f.cl] = IF @.count = 1 THEN [owner |-> NoOne, count |-> 0]
                                    ELSE [owner |-> t, count |-> @.count - 1]]
  /\ done' = done \cup {[id |-> f.id, cl |-> f.cl, op |-> f.op, out |-> f.out,
                         returned |-> f.out # "error", outer |-> f.wrap = Outermost]}

-----------------------------------------------------------------------------
(* An operation. *)

Emit(t, on, kind) == log' = Append(log, [on |-> on, cl |-> Top(t).cl, id |-> Top(t).id, kind |-> kind])

\* What each method does with the outcome of its executor call, and whether it checks
\* a target version first.
Announce(failure) == [success |-> "completed", failure |-> failure, preflight |-> "failed",
                      error |-> "failed"]

Migrate == [targeted |-> TRUE, connects |-> FALSE, announces |-> Announce("failed")]
Info == [targeted |-> TRUE, connects |-> FALSE, announces |-> Announce("failed")]
\* A failed verdict is announced as completed: the validation itself ran.
Validate == [targeted |-> TRUE, connects |-> FALSE, announces |-> Announce("completed")]
\* A target that no script has may be in the history.
Undo == [targeted |-> TRUE, connects |-> TRUE, announces |-> Announce("failed")]

Clean == [targeted |-> FALSE, connects |-> FALSE, announces |-> Announce("failed")]
Baseline == [targeted |-> FALSE, connects |-> FALSE, announces |-> Announce("failed")]
Repair == [targeted |-> FALSE, connects |-> FALSE, announces |-> Announce("failed")]
ImportFlyway == [targeted |-> FALSE, connects |-> FALSE, announces |-> Announce("failed")]

Operation == [migrate |-> Migrate, info |-> Info, validate |-> Validate, undo |-> Undo,
              clean |-> Clean, baseline |-> Baseline, repair |-> Repair,
              import_flyway |-> ImportFlyway]

\* An unknown target version raises before anything is emitted; undo, which may look
\* into the history for it, returns a failed result when it cannot connect.
CheckTargetVersion(t) ==
  /\ In(t, "check")
  /\ \/ SetTop(t, Goto(Top(t), "begin")) /\ UNCHANGED <<issued, lock, active, done>>
     \/ Operation[Top(t).op].targeted /\ Leave(t, [Top(t) EXCEPT !.out = "error"])
     \/ Operation[Top(t).op].connects /\ Leave(t, [Top(t) EXCEPT !.out = "preflight"])
  /\ UNCHANGED <<conn, log>>

Started(t) ==
  /\ In(t, "begin") /\ SetTop(t, Goto(Top(t), "began")) /\ Emit(t, Top(t).cl, "started")
  /\ UNCHANGED <<issued, lock, active, conn, done>>

\* The executor connects and emits events of the core on the emitter bound to the
\* thread's context.
Core(t) ==
  /\ In(t, "core") /\ SetTop(t, Goto(Top(t), "cored"))
  /\ Emit(t, active[t], "core") /\ conn' = [conn EXCEPT ![Top(t).cl] = TRUE]
  /\ UNCHANGED <<issued, lock, active, done>>

\* The listeners of an event have returned; the executor comes to an end.
Resume(t) ==
  /\ \/ In(t, "began") /\ SetTop(t, Goto(Top(t), "core"))
     \/ In(t, "cored") /\ \E out \in Results : SetTop(t, [Goto(Top(t), "end") EXCEPT !.out = out])
  /\ UNCHANGED <<issued, lock, active, conn, log, done>>

Ended(t) ==
  /\ In(t, "end") /\ SetTop(t, Goto(Top(t), "ended")) /\ Emit(t, Top(t).cl, Operation[Top(t).op].announces[Top(t).out])
  /\ UNCHANGED <<issued, lock, active, conn, done>>

Return(t) == In(t, "ended") /\ Leave(t, Top(t)) /\ UNCHANGED <<conn, log>>

\* __exit__: a pending transaction is rolled back, the provider closed; errors of
\* both are only logged.
Close(t) ==
  /\ In(t, "close") /\ conn' = [conn EXCEPT ![Top(t).cl] = FALSE]
  /\ Leave(t, Top(t)) /\ UNCHANGED log

Step(t) ==
  \/ Enter(t) \/ Super(t) \/ CheckTargetVersion(t) \/ Started(t) \/ Core(t) \/ Resume(t)
  \/ Ended(t) \/ Return(t) \/ Close(t)

Next == \E t \in Threads : Step(t) \/ \E cl \in Clients, op \in Ops : Call(t, cl, op)

\* Threads run, and a waiting thread gets a lock that is free again and again.
Spec == Init /\ [][Next]_vars /\ \A t \in Threads : SF_vars(Step(t))

-----------------------------------------------------------------------------
(* Properties. *)

\* Calls past the lock.
Inside(t, cl) == {f \in InCalls(t) : f.cl = cl /\ f.pc # "lock"}

\* Two threads are never inside operations of one client: its connection and its
\* executor have one user at a time.
Serialised ==
  \A cl \in Clients : \A t, u \in Threads : t # u => Inside(t, cl) = {} \/ Inside(u, cl) = {}

\* No mutating operation runs underneath another operation of the same client, which
\* would make the outer one's plan stale; super() of the same operation may.
NothingUnderneath ==
  \A t \in Threads : \A i, j \in DOMAIN stack[t] :
     LET outer == stack[t][i]  inner == stack[t][j]
     IN  i < j /\ outer.cl = inner.cl /\ inner.op \notin ReadOnly =>
           outer.op = inner.op /\ outer.wrap = "derived" /\ inner.wrap = "base"
             /\ \A k \in i + 1..j - 1 : stack[t][k].cl # inner.cl

\* The connection of a client is not closed while an operation of it is past its
\* first contact with the database, whoever calls close.
OpenWhileUsed ==
  \A t \in Threads : \A f \in InCalls(t) : f.pc = "cored" => conn[f.cl]

\* Events of the core land on the emitter of the client whose operation emitted them,
\* also after a listener called another client, and the binding ends with the call.
EventsLandOnOwner ==
  /\ \A i \in DOMAIN log : log[i].on = log[i].cl
  /\ \A t \in Threads : stack[t] = << >> => active[t] = Default

\* Where the events of a call are in the log.
EventsOf(id) == {i \in DOMAIN log : log[i].id = id}
Ends(i) == log[i].kind \in {"completed", "failed"}

\* An operation that was announced as started is announced once as completed or failed
\* before it returns, and a caller that gets a failed result (of anything but
\* validate) saw the failed event.
AnnouncedAsReturned ==
  \A d \in done : EventsOf(d.id) # {} =>
    \E first, last \in EventsOf(d.id) :
      /\ log[first].kind = "started" /\ Ends(last)
      /\ \A i \in EventsOf(d.id) : first <= i /\ i <= last /\ (Ends(i) => i = last)
      /\ d.op # "validate" => (log[last].kind = "completed") = (d.out = "success")

\* Threads that wait for each other's clients: each is in a call of the client that the
\* other one's listener calls, and an RLock is waited for without a timeout.
Entangled ==
  \E S \in SUBSET Threads : S # {} /\ \A t \in S : In(t, "lock") /\ lock[Top(t).cl].owner \in S \ {t}

\* Every call returns, refused or not, however many threads wait for one client, unless
\* listeners have called each other's clients until their threads wait in a circle.
CallsReturn ==
  \A t \in Threads : stack[t] # << >> ~> stack[t] = << >> \/ Entangled
=============================================================================
