----------------------------- MODULE EventBus -----------------------------
(***************************************************************************)
(* The event emitter of the API (api/events.py).  Listeners run inside the *)
(* dispatch and may call the emitter themselves, so that the lists the     *)
(* dispatch walks, and the batch mode, change under it.  A list is a       *)
(* Python object: off() removes from an exact list in place, and puts a    *)
(* new list in the place of the wildcard one.                              *)
(***************************************************************************)
EXTENDS Naturals, Sequences

CONSTANTS
  Calls,      \* of "on", "off", "clear", "clearAll", "start", "stop", "flush": calls made besides emit
  Inside,     \* those of them that listeners make while they run
  MaxCalls,   \* bound: calls of the emitter
  MaxEmits    \* bound: events

EventBusAssumption ==
  /\ Calls \subseteq {"on", "off", "clear", "clearAll", "start", "stop", "flush"} /\ Inside \subseteq Calls
  /\ MaxCalls \in Nat /\ MaxEmits \in Nat

Types == {"a", "b"}        \* event types
Keys == Types \cup {"*"}   \* what on() is called with; "*" matches both
Callbacks == {"f", "g"}

VARIABLES
  lists,    \* the list objects: id -> sequence of registrations [cb, reg]
  exact,    \* event type -> id of its list; 0: none
  wild,     \* id of the list of wildcard listeners
  mode,     \* _batch_mode
  stopped,  \* _batch_stopped_during_flush
  batched,  \* _batched_events
  history,  \* _history
  stack,    \* dispatches and flushes under way, the innermost first
  next,     \* identifies the registrations and list objects made so far
  calls, emits,
  log,      \* what happened: deliveries [event, reg], dispatches in order
  fate,     \* event -> "batched", "dispatched", "returned" by stop_batch, or "dropped"
  present,  \* event -> registrations in place since its dispatch began
  intent    \* the last of start_batch and stop_batch called

vars == <<lists, exact, wild, mode, stopped, batched, history, stack, next, calls, emits, log, fate, present, intent>>
registry == <<lists, exact, wild>>
batch == <<mode, stopped, batched, intent>>
ghosts == <<log, fate, present>>

Init ==
  /\ lists = [i \in 1..3 |-> IF i = 3 THEN <<[cb |-> "f", reg |-> 5], [cb |-> "g", reg |-> 6]>>
                             ELSE <<[cb |-> "f", reg |-> 2 * i - 1], [cb |-> "g", reg |-> 2 * i]>>]
  /\ exact = [t \in Types |-> IF t = "a" THEN 1 ELSE 2] /\ wild = 3
  /\ mode = FALSE /\ stopped = FALSE /\ batched = <<>> /\ history = <<>> /\ stack = <<>>
  /\ next = 7 /\ calls = 0 /\ emits = 0
  /\ log = [deliveries |-> <<>>, order |-> <<>>] /\ fate = <<>> /\ present = <<>>
  /\ intent = FALSE

Top == Head(stack)
Running == stack # <<>> /\ Top.at = "callback"
\* A call comes from outside while nothing is dispatched, or from the listener that runs.
MayCall(c) == calls < MaxCalls /\ calls' = calls + 1 /\ c \in Calls /\ (stack = <<>> \/ (Running /\ c \in Inside))

Regs(l) == {lists[l][i].reg : i \in DOMAIN lists[l]}
RegsFor(t) == (IF exact[t] = 0 THEN {} ELSE Regs(exact[t])) \cup Regs(wild)
\* Registrations that a change takes away are not in place throughout any more.
Departed(gone) == present' = [e \in DOMAIN present |-> present[e] \ gone]

-----------------------------------------------------------------------------
(* Registering.                                                            *)

On(k, c) ==
  /\ MayCall("on") /\ next' = next + 1
  /\ LET r == [cb |-> c, reg |-> next]
     IN  IF k = "*"
         THEN lists' = [lists EXCEPT ![wild] = Append(@, r)] /\ UNCHANGED exact
         ELSE IF exact[k] = 0
         THEN lists' = Append(lists, <<r>>) /\ exact' = [exact EXCEPT ![k] = Len(lists) + 1]
         ELSE lists' = [lists EXCEPT ![exact[k]] = Append(@, r)] /\ UNCHANGED exact
  /\ UNCHANGED <<wild, batch, history, stack, emits, ghosts>>

\* Where callback c is in a list, and where it is first.
At(s, c) == {i \in DOMAIN s : s[i].cb = c}
First(s, c) == {i \in At(s, c) : \A j \in At(s, c) : i <= j}
RegsAt(s, I) == {s[i].reg : i \in I}

\* What remains of s (one sequence) without the indices I.
Without(s, I) ==
  {[j \in DOMAIN at |-> s[at[j]]] : at \in
     {f \in UNION {[1..n -> DOMAIN s \ I] : n \in 0..Len(s)} :
        /\ \A j, k \in DOMAIN f : j < k => f[j] < f[k]
        /\ \A i \in DOMAIN s \ I : \E j \in DOMAIN f : f[j] = i}}

\* Mutant: the wildcard listeners are removed in place as well.
OffInPlace(k, c) ==
  /\ MayCall("off")
  /\ LET l == IF k = "*" THEN wild ELSE exact[k]
     IN  IF l = 0 THEN UNCHANGED lists /\ Departed({})
         ELSE /\ \E s \in Without(lists[l], First(lists[l], c)) : lists' = [lists EXCEPT ![l] = s]
              /\ Departed(RegsAt(lists[l], At(lists[l], c)))
  /\ UNCHANGED <<exact, wild, batch, history, stack, next, emits, log, fate>>

\* The first such exact listener is removed in place; the wildcard list is made anew
\* without any such listener.
Off(k, c) ==
  /\ MayCall("off")
  /\ LET l == IF k = "*" THEN 0 ELSE exact[k]
         one == IF l = 0 THEN {} ELSE First(lists[l], c)
         all == IF k = "*" THEN At(lists[wild], c) ELSE {}
     IN  /\ \E kept \in Without(lists[wild], all) :
              \/ l = 0 /\ lists' = Append(lists, kept)
              \/ l # 0 /\ \E s \in Without(lists[l], one) : lists' = Append([lists EXCEPT ![l] = s], kept)
         /\ wild' = Len(lists) + 1
         /\ Departed(IF l = 0 THEN RegsAt(lists[wild], all) ELSE RegsAt(lists[l], one))
  /\ UNCHANGED <<exact, batch, history, stack, next, emits, log, fate>>

\* clear(event): the exact list is let go of, not emptied.
Clear(k) ==
  /\ MayCall("clear")
  /\ lists' = Append(lists, IF k = "*" THEN <<>> ELSE lists[wild]) /\ wild' = Len(lists) + 1
  /\ exact' = IF k = "*" THEN exact ELSE [exact EXCEPT ![k] = 0]
  /\ Departed(IF k = "*" THEN Regs(wild) ELSE IF exact[k] = 0 THEN {} ELSE Regs(exact[k]))
  /\ UNCHANGED <<batch, history, stack, next, emits, log, fate>>

\* clear(): the wildcard list is emptied in place.
ClearAll ==
  /\ MayCall("clearAll")
  /\ exact' = [t \in Types |-> 0] /\ lists' = [lists EXCEPT ![wild] = <<>>]
  /\ present' = [e \in DOMAIN present |-> {}]
  /\ UNCHANGED <<wild, batch, history, stack, next, emits, log, fate>>

-----------------------------------------------------------------------------
(* Emitting.                                                               *)

Frame(e, t) == [at |-> "exact", event |-> e, type |-> t, list |-> exact[t], index |-> 1]

\* Dispatching event e begins.
Dispatched(e, t) ==
  /\ log' = [log EXCEPT !.order = Append(@, e)]
  /\ present' = [i \in 1..emits' |-> IF i = e THEN RegsFor(t) ELSE IF i \in DOMAIN present THEN present[i] ELSE {}]

Emit(t) ==
  /\ stack = <<>> \/ Running
  /\ emits < MaxEmits /\ emits' = emits + 1 /\ history' = Append(history, emits')
  /\ IF mode
     THEN /\ batched' = Append(batched, [id |-> emits', type |-> t]) /\ fate' = Append(fate, "batched")
          /\ present' = Append(present, {}) /\ UNCHANGED <<stack, log>>
     ELSE /\ stack' = <<Frame(emits', t)>> \o stack /\ fate' = Append(fate, "dispatched")
          /\ Dispatched(emits', t) /\ UNCHANGED batched
  /\ UNCHANGED <<registry, mode, stopped, intent, next, calls>>

Set(f) == stack' = <<f>> \o Tail(stack)

\* The next listener of the list as it is now, then the wildcard listeners, then the end.
Step ==
  /\ stack # <<>> /\ Top.at \in {"exact", "wild"}
  /\ LET s == IF Top.list = 0 THEN <<>> ELSE lists[Top.list]
     IN  IF Top.index <= Len(s)
         THEN /\ Set([at |-> "callback", event |-> Top.event, back |-> [Top EXCEPT !.index = @ + 1]])
              /\ log' = [log EXCEPT !.deliveries = Append(@, [event |-> Top.event, reg |-> s[Top.index].reg])]
         ELSE IF Top.at = "exact"
         THEN Set([Top EXCEPT !.at = "wild", !.list = wild, !.index = 1]) /\ UNCHANGED log
         ELSE stack' = Tail(stack) /\ UNCHANGED log
  /\ UNCHANGED <<registry, batch, history, next, calls, emits, fate, present>>

\* The listener returns; whatever it raises is logged.
Return ==
  /\ Running /\ Set(Top.back)
  /\ UNCHANGED <<registry, batch, history, next, calls, emits, ghosts>>

-----------------------------------------------------------------------------
(* Batches.                                                                *)

Fated(kept, what) == [e \in DOMAIN fate |-> IF e \in kept THEN what ELSE fate[e]]
Ids(s) == {s[i].id : i \in DOMAIN s}

StartBatch ==
  /\ MayCall("start") /\ mode' = TRUE /\ batched' = <<>> /\ stopped' = FALSE /\ intent' = TRUE
  /\ fate' = Fated(Ids(batched), "dropped")
  /\ UNCHANGED <<registry, history, stack, next, emits, log, present>>

StopBatch ==
  /\ MayCall("stop") /\ mode' = FALSE /\ batched' = <<>> /\ stopped' = TRUE /\ intent' = FALSE
  /\ fate' = Fated(Ids(batched), "returned")
  /\ UNCHANGED <<registry, history, stack, next, emits, log, present>>

FlushBatch ==
  /\ MayCall("flush")
  /\ IF mode
     THEN /\ batched' = <<>> /\ mode' = FALSE /\ stopped' = FALSE
          /\ stack' = <<[at |-> "flush", rest |-> batched]>> \o stack
     ELSE UNCHANGED <<batched, mode, stopped, stack>>
  /\ UNCHANGED <<registry, history, intent, next, emits, ghosts>>

FlushNext ==
  /\ stack # <<>> /\ Top.at = "flush" /\ Top.rest # <<>> /\ UNCHANGED emits
  /\ LET e == Head(Top.rest)
     IN  /\ stack' = <<Frame(e.id, e.type), [at |-> "flush", rest |-> Tail(Top.rest)]>> \o Tail(stack)
         /\ fate' = Fated({e.id}, "dispatched") /\ Dispatched(e.id, e.type)
  /\ UNCHANGED <<registry, batch, history, next, calls>>

FlushEnd ==
  /\ stack # <<>> /\ Top.at = "flush" /\ Top.rest = <<>> /\ stack' = Tail(stack)
  /\ mode' = (mode \/ ~stopped)
  /\ UNCHANGED <<registry, stopped, batched, intent, history, next, calls, emits, ghosts>>

Next ==
  \/ \E k \in Keys, c \in Callbacks : On(k, c) \/ Off(k, c)
  \/ \E k \in Keys : Clear(k)
  \/ \E t \in Types : Emit(t)
  \/ ClearAll \/ Step \/ Return \/ StartBatch \/ StopBatch \/ FlushBatch \/ FlushNext \/ FlushEnd

Spec == Init /\ [][Next]_vars

-----------------------------------------------------------------------------
(* Properties.                                                             *)

TypeOK ==
  /\ wild \in DOMAIN lists /\ \A t \in Types : exact[t] \in 0..Len(lists)
  /\ mode \in BOOLEAN /\ stopped \in BOOLEAN /\ Ids(batched) \subseteq 1..emits
  /\ Len(history) = emits /\ Len(fate) = emits /\ Len(present) = emits
  /\ \A i \in DOMAIN stack : stack[i].at \in {"exact", "wild", "callback", "flush"}
  /\ \A i \in DOMAIN stack : stack[i].at = "callback" => i = 1 \/ stack[i].back.at \in {"exact", "wild"}

Heard(e, r) == {i \in DOMAIN log.deliveries : log.deliveries[i] = [event |-> e, reg |-> r]}

\* No registration hears of an event twice, whatever listeners do to the lists meanwhile.
NotTwice == \A e \in 1..emits, r \in 1..next - 1 : \A i, j \in Heard(e, r) : i = j

\* Dispatches of e that are over.
Over(e) ==
  /\ fate[e] = "dispatched"
  /\ \A i \in DOMAIN stack : stack[i].at # "flush" => stack[i].event # e

\* A wildcard listener registered before the dispatch of an event began, and not removed
\* before it ended, hears of it, even if others are removed while it is under way.
WildcardListenersHear ==
  \A e \in 1..emits : Over(e) => \A r \in present[e] \cap Regs(wild) : Heard(e, r) # {}

\* A batched event is still batched, or waits in a flush under way, until it is dispatched
\* or returned by stop_batch, or start_batch begins a new batch.
NothingLost ==
  \A e \in 1..emits : fate[e] = "batched" =>
    \/ e \in Ids(batched)
    \/ \E i \in DOMAIN stack : stack[i].at = "flush" /\ e \in Ids(stack[i].rest)

\* Between calls, batch mode is what the last start_batch or stop_batch asked for, also
\* when it was called by a listener in the middle of a flush.
LastIntentWins == stack = <<>> => mode = intent
=============================================================================
