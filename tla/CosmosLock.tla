----------------------------- MODULE CosmosLock -----------------------------
(***************************************************************************)
(* The migration lock of Cosmos DB: one document, created to take the      *)
(* lock and deleted to free it, that expires a fixed time after it was     *)
(* created.  A waiter first deletes an expired document on the condition   *)
(* that it is still the one it read, and when that phase fails or times    *)
(* out, without the condition.                                             *)
(***************************************************************************)
EXTENDS Naturals, FiniteSets

CONSTANTS
  Procs,
  Expiry,       \* ticks after which a lock document expires (5 minutes)
  Timeout,      \* ticks a phase of the acquisition waits (60 seconds)
  LongestHold,  \* bound: ticks a migration takes
  LatestStart,  \* bound: tick by which every process has started
  MaxTime,      \* bound: ticks
  MaxErrors,    \* bound: requests that fail
  MaxDeaths     \* bound: processes killed

CosmosLockAssumption ==
  /\ IsFiniteSet(Procs) /\ "no one" \notin Procs
  /\ Expiry \in Nat \ {0} /\ Timeout \in Nat \ {0} /\ LongestHold \in Nat
  /\ LatestStart \in Nat /\ MaxTime \in Nat /\ MaxErrors \in Nat /\ MaxDeaths \in Nat

VARIABLES
  doc,     \* the lock document, [etag, owner, expires]; owner is not in the code's document
  etags,   \* etags handed out
  now,
  proc,    \* per process: [pc, since, seen, asleep, failed]; failed: its last request of
           \* the second phase failed, which the code only logs
  errors

vars == <<doc, etags, now, proc, errors>>

None == [etag |-> 0, owner |-> "no one", expires |-> 0]
PCs == {"start", "read", "create", "delete", "make", "check", "drop", "held", "released", "refused", "dead"}

Process == [pc: PCs, since: Nat, seen: Nat, asleep: BOOLEAN, failed: BOOLEAN]

TypeOK ==
  /\ doc = None \/ doc \in [etag: Nat \ {0}, owner: Procs, expires: Nat]
  /\ doc.etag <= etags /\ doc.expires <= now + Expiry
  /\ etags \in Nat /\ now \in 0..MaxTime /\ errors \in 0..MaxErrors
  /\ proc \in [Procs -> Process]
  /\ \A p \in Procs : proc[p].since <= now /\ proc[p].seen <= etags

Init ==
  /\ doc = None /\ etags = 0 /\ now = 0 /\ errors = 0
  /\ proc = [p \in Procs |-> [pc |-> "start", since |-> 0, seen |-> 0, asleep |-> FALSE, failed |-> FALSE]]

At(p, pc) == proc[p].pc = pc
Goto(p, pc) == proc' = [proc EXCEPT ![p].pc = pc, ![p].failed = FALSE]
Enter(p, pc) ==
  proc' = [proc EXCEPT ![p] = [pc |-> pc, since |-> now, seen |-> 0, asleep |-> FALSE, failed |-> FALSE]]
Sleep(p, pc, failed) == proc' = [proc EXCEPT ![p].pc = pc, ![p].asleep = TRUE, ![p].failed = failed]
Awake(p, pc) == proc[p].pc = pc /\ ~proc[p].asleep
Waiting(p) == now - proc[p].since < Timeout
Expired == doc # None /\ now > doc.expires

\* The container is created or found.
CreateContainer(p) ==
  /\ At(p, "start") /\ Enter(p, "read") /\ UNCHANGED <<doc, etags, now, errors>>

\* The lock container cannot be had: the lock counts as not acquired.
ContainerFails(p) ==
  /\ At(p, "start") /\ errors < MaxErrors /\ errors' = errors + 1 /\ Enter(p, "refused")
  /\ UNCHANGED <<doc, etags, now>>

Document(p) == [etag |-> etags + 1, owner |-> p, expires |-> now + Expiry]

\* create_item: the lock is this process's, unless a document is there.
CreateLockDocument(p, otherwise) ==
  IF doc = None
  THEN doc' = Document(p) /\ etags' = etags + 1 /\ Enter(p, "held")
  ELSE Goto(p, otherwise) /\ UNCHANGED <<doc, etags>>

-----------------------------------------------------------------------------
(* _try_native_lock_acquire *)

NativeRead(p) ==
  /\ Awake(p, "read") /\ Waiting(p)
  /\ \/ doc = None /\ Goto(p, "create")
     \/ doc # None /\ ~Expired /\ Sleep(p, "read", FALSE)
     \/ Expired /\ proc' = [proc EXCEPT ![p].pc = "delete", ![p].seen = doc.etag]
  /\ UNCHANGED <<doc, etags, now, errors>>

NativeCreate(p) ==
  At(p, "create") /\ CreateLockDocument(p, "read") /\ UNCHANGED <<now, errors>>

\* Mutant: the etag is not sent.
DeleteAny(p) ==
  At(p, "delete") /\ doc' = None /\ Goto(p, "read") /\ UNCHANGED <<etags, now, errors>>

\* Only the document that was read is deleted (412 otherwise).
NativeDelete(p) ==
  /\ At(p, "delete") /\ doc' = IF doc.etag = proc[p].seen THEN None ELSE doc
  /\ Goto(p, "read") /\ UNCHANGED <<etags, now, errors>>

\* The request to delete fails, or its answer is lost: the document is read again.
NativeDeleteFails(p) ==
  /\ At(p, "delete") /\ errors < MaxErrors /\ errors' = errors + 1
  /\ doc' \in {doc, IF doc.etag = proc[p].seen THEN None ELSE doc}
  /\ Sleep(p, "read", FALSE) /\ UNCHANGED <<etags, now>>

\* The phase is over: its time is, or a request fails in a way that is not understood.
\* The answer to a create may be lost after the document was written.
NativeTimeout(p) ==
  Awake(p, "read") /\ ~Waiting(p) /\ Enter(p, "make") /\ UNCHANGED <<doc, etags, now, errors>>

NativeError(p) ==
  /\ proc[p].pc \in {"read", "create"} /\ errors < MaxErrors /\ errors' = errors + 1
  /\ Enter(p, "make")
  /\ \/ At(p, "create") /\ doc = None /\ doc' = Document(p) /\ etags' = etags + 1
     \/ UNCHANGED <<doc, etags>>
  /\ UNCHANGED now

-----------------------------------------------------------------------------
(* _acquire_document_based_lock *)

FallbackCreate(p) ==
  Awake(p, "make") /\ Waiting(p) /\ CreateLockDocument(p, "check") /\ UNCHANGED <<now, errors>>

FallbackRead(p) ==
  /\ At(p, "check")
  /\ IF Expired THEN Goto(p, "drop")
     ELSE IF doc = None THEN Goto(p, "make") ELSE Sleep(p, "make", FALSE)
  /\ UNCHANGED <<doc, etags, now, errors>>

\* Whatever document is there now is deleted.
FallbackDelete(p) ==
  At(p, "drop") /\ doc' = None /\ Goto(p, "make") /\ UNCHANGED <<etags, now, errors>>

\* A request of this phase fails: the round is over, and the next one creates again.  A
\* create or delete whose answer is lost has been done.
FallbackFails(p) ==
  /\ (Awake(p, "make") /\ Waiting(p)) \/ proc[p].pc \in {"check", "drop"}
  /\ errors < MaxErrors /\ errors' = errors + 1 /\ Sleep(p, "make", TRUE)
  /\ \/ UNCHANGED <<doc, etags>>
     \/ At(p, "make") /\ doc = None /\ doc' = Document(p) /\ etags' = etags + 1
     \/ At(p, "drop") /\ doc' = None /\ UNCHANGED etags
  /\ UNCHANGED now

FallbackTimeout(p) ==
  Awake(p, "make") /\ ~Waiting(p) /\ Enter(p, "refused") /\ UNCHANGED <<doc, etags, now, errors>>

-----------------------------------------------------------------------------

\* delete_item of the lock's id, whoever made the document; one that is gone is fine.
Release(p) ==
  At(p, "held") /\ doc' = None /\ Enter(p, "released") /\ UNCHANGED <<etags, now, errors>>

\* A release that fails is logged; the document stays until it expires.
ReleaseFails(p) ==
  /\ At(p, "held") /\ errors < MaxErrors /\ errors' = errors + 1
  /\ Enter(p, "released") /\ UNCHANGED <<doc, etags, now>>

Die(p) ==
  /\ proc[p].pc \notin {"released", "refused", "dead"}
  /\ Cardinality({q \in Procs : At(q, "dead")}) < MaxDeaths
  /\ Enter(p, "dead") /\ UNCHANGED <<doc, etags, now, errors>>

\* Requests are quick: time passes while waiters sleep and holders migrate.
Tick ==
  /\ now < MaxTime /\ now' = now + 1
  /\ \A p \in Procs :
       /\ At(p, "start") => now < LatestStart
       /\ At(p, "held") => now - proc[p].since < LongestHold
       /\ proc[p].pc \notin {"create", "delete", "check", "drop"}
       /\ proc[p].pc \in {"read", "make"} => proc[p].asleep
  /\ proc' = [p \in Procs |-> [proc[p] EXCEPT !.asleep = FALSE]]
  /\ UNCHANGED <<doc, etags, errors>>

Step(p) ==
  \/ CreateContainer(p) \/ NativeRead(p) \/ NativeCreate(p) \/ NativeDelete(p) \/ NativeTimeout(p)
  \/ FallbackCreate(p) \/ FallbackRead(p) \/ FallbackDelete(p) \/ FallbackTimeout(p) \/ Release(p)

\* A request fails, or the process is killed.
Fault(p) ==
  \/ ContainerFails(p) \/ NativeError(p) \/ NativeDeleteFails(p) \/ FallbackFails(p) \/ ReleaseFails(p)
  \/ Die(p)

Next == Tick \/ \E p \in Procs : Step(p) \/ Fault(p)

\* Threads are scheduled and time passes.
Spec == Init /\ [][Next]_vars /\ WF_vars(Tick) /\ \A p \in Procs : WF_vars(Step(p))

-----------------------------------------------------------------------------
(* Properties. *)

\* What the troubleshooting guide says of a running holder: the lock is its own for as
\* long as it runs, however long its migrations take.
HolderKeepsLock == \A p \in Procs : At(p, "held") => doc.owner = p

\* A document that expired longer ago than the pause between two looks turns nobody away
\* whose last look succeeded: a run that died locks nobody out for longer than the expiry.
RefusalIsJustified ==
  [][\A p \in Procs : proc'[p].pc = "refused" /\ proc[p].pc = "make" =>
        doc = None \/ now <= doc.expires + 1 \/ proc[p].failed]_vars

\* When nobody holds the lock, no document of a process that released it is left, unless
\* the delete failed.
NothingLeft ==
  errors = 0 /\ doc # None => proc[doc.owner].pc \in {"held", "dead"}

\* The document is its holder's for as long as it runs, and nobody's when it is gone.
DocumentIsTheHolders == HolderKeepsLock /\ NothingLeft

\* acquire_migration_lock returns, with the lock or without it.
AcquireReturns ==
  \A p \in Procs : <>(proc[p].pc \in {"held", "released", "refused", "dead"})
=============================================================================
