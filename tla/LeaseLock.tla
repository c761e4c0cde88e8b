------------------------------ MODULE LeaseLock ------------------------------
(***************************************************************************)
(* The migration lock held as a lease: dblift/db/plugins/lease_lock.py     *)
(* (the acquire loop, the heartbeat thread, release) over the lock row of  *)
(* dblift/db/plugins/sql_lease_store.py.                                   *)
(*                                                                         *)
(* Time is counted in polls (POLL_INTERVAL_SECONDS).  Clocks are kept as   *)
(* saturating ages: the age of the row on the server's clock, and what     *)
(* time.monotonic() says on each process has passed since an event.        *)
(*                                                                         *)
(* A process in Unreliable may be paused, or cut off from the database,    *)
(* for any time: Tick does not wait for it.  The other processes do what   *)
(* is due before the next poll (Timely).  Any process may be killed.       *)
(***************************************************************************)
EXTENDS Integers

CONSTANTS
    Procs,              \* processes that run a dblift command
    Unreliable,         \* those that may be paused or cut off
    NoProc,
    Tokens,             \* owner tokens; each acquisition takes a new one
    UnrefreshedTokens,  \* tokens with UNREFRESHED_TOKEN_PREFIX (no heartbeat)
    NoToken,
    Ownerless,          \* owner of a row written before the lease (NULL)
    HeartbeatInterval,
    BeatSlack,          \* how late a beat of a timely process may be
    Expiry,             \* LEASE_EXPIRY_SECONDS
    LegacyExpiry,       \* LEGACY_LEASE_EXPIRY_SECONDS
    WaitTimeout,        \* wait_timeout_seconds of acquire
    StoreLocks          \* an open write transaction locks the store (SQLite)

ASSUME ProcAssumption == NoProc \notin Procs /\ Unreliable \subseteq Procs
ASSUME TokenAssumption ==
    /\ NoToken \notin Tokens
    /\ Ownerless \in Tokens
    /\ UnrefreshedTokens \subseteq Tokens \ {Ownerless}
\* _heartbeat_interval is a third of the expiry; two missed beats of slack.
ASSUME TimeAssumption ==
    /\ HeartbeatInterval \in Nat \ {0}
    /\ Expiry = 3 * HeartbeatInterval
    /\ BeatSlack \in Nat
    /\ HeartbeatInterval + BeatSlack < Expiry
    /\ LegacyExpiry \in Nat /\ LegacyExpiry >= Expiry
    /\ WaitTimeout \in Nat
ASSUME StoreAssumption == StoreLocks \in BOOLEAN

VARIABLES
    owner,      \* owner_token of the lock row, NoToken when there is no row
    age,        \* server clock minus the row's timestamp (0 without a row)
    used,       \* tokens handed out so far
    pc,         \* where each process is in acquire / hold
    token,      \* LeaseLock.token
    quiet,      \* time since last_busy (Expiry: long ago, or None)
    left,       \* time to the acquire deadline
    nap,        \* time left in the sleep between two attempts
    hb,         \* the heartbeat thread runs
    beat,       \* time since the heartbeat last woke
    retry,      \* its last refresh found the store busy
    alive,      \* time since last_alive
    lost,       \* LeaseLock.lost
    writer      \* the holder whose migration transaction is open

rowVars  == <<owner, age>>
waitVars == <<quiet, left, nap>>
beatVars == <<hb, beat, retry, alive, lost>>
vars == <<owner, age, used, pc, token, quiet, left, nap, hb, beat, retry,
          alive, lost, writer>>

Reliable == Procs \ Unreliable
Gone == {"idle", "dead"}
Waiting == {"reclaim", "insert", "sleep"}
Holding == {"inserted", "held"}
Cap(n, limit) == IF n > limit THEN limit ELSE n

TypeOK ==
    /\ owner \in Tokens \cup {NoToken}
    /\ age \in 0 .. LegacyExpiry + 1
    /\ used \subseteq Tokens
    /\ pc \in [Procs -> Gone \cup Waiting \cup Holding]
    /\ token \in [Procs -> Tokens \cup {NoToken}]
    /\ quiet \in [Procs -> 0 .. Expiry]
    /\ left \in [Procs -> 0 .. WaitTimeout]
    /\ nap \in [Procs -> 0 .. 1]
    /\ hb \in [Procs -> BOOLEAN]
    /\ beat \in [Procs -> 0 .. HeartbeatInterval + BeatSlack]
    /\ retry \in [Procs -> BOOLEAN]
    /\ alive \in [Procs -> 0 .. Expiry]
    /\ lost \in [Procs -> BOOLEAN]
    /\ writer \in Procs \cup {NoProc}

\* The lock table is empty, or holds the row of an older version.
Init ==
    /\ owner \in {NoToken, Ownerless}
    /\ age = 0
    /\ used = {Ownerless}
    /\ pc = [p \in Procs |-> "idle"]
    /\ token = [p \in Procs |-> NoToken]
    /\ quiet = [p \in Procs |-> Expiry]
    /\ left = [p \in Procs |-> 0]
    /\ nap = [p \in Procs |-> 0]
    /\ hb = [p \in Procs |-> FALSE]
    /\ beat = [p \in Procs |-> 0]
    /\ retry = [p \in Procs |-> FALSE]
    /\ alive = [p \in Procs |-> 0]
    /\ lost = [p \in Procs |-> FALSE]
    /\ writer = NoProc

-----------------------------------------------------------------------------
(* The store: one row, each statement atomic and committed on its own.     *)

Busy == writer # NoProc

\* How old the row has to be for reclaim_expired to free it.
Limit(t) == IF t \in UnrefreshedTokens \cup {Ownerless}
            THEN LegacyExpiry ELSE Expiry

Expired == owner # NoToken /\ age > Limit(owner)

Free == owner' = NoToken /\ age' = 0

\* Mutant of FreeOwn: the DELETE lacks the owner condition.
FreeAny(t) == IF owner # NoToken /\ ~Busy THEN Free ELSE UNCHANGED rowVars

\* release(token): only the caller's own row goes.
FreeOwn(t) ==
    IF owner = t /\ ~Busy THEN Free ELSE UNCHANGED rowVars

-----------------------------------------------------------------------------
(* acquire                                                                 *)

\* Mutant of Start: the deadline is one poll late.
StartLate(p, t) ==
    /\ pc[p] \in Gone
    /\ t \in Tokens \ used
    /\ used' = used \cup {t}
    /\ token' = [token EXCEPT ![p] = t]
    /\ pc' = [pc EXCEPT ![p] = "insert"]
    /\ quiet' = [quiet EXCEPT ![p] = Expiry]
    /\ left' = [left EXCEPT ![p] = WaitTimeout + 1]
    /\ UNCHANGED <<rowVars, nap, beatVars, writer>>

\* The first attempt never reclaims.
Start(p, t) ==
    /\ pc[p] \in Gone
    /\ t \in Tokens \ used
    /\ used' = used \cup {t}
    /\ token' = [token EXCEPT ![p] = t]
    /\ pc' = [pc EXCEPT ![p] = "insert"]
    /\ quiet' = [quiet EXCEPT ![p] = Expiry]
    /\ left' = [left EXCEPT ![p] = WaitTimeout]
    /\ UNCHANGED <<rowVars, nap, beatVars, writer>>

\* Mutant of GiveUpOrSleep: the deadline is not looked at.
AlwaysSleep(p) ==
    /\ pc' = [pc EXCEPT ![p] = "sleep"]
    /\ nap' = [nap EXCEPT ![p] = 1]

\* The end of an unsuccessful attempt: sleep, or give up at the deadline.
GiveUpOrSleep(p) ==
    /\ pc' = [pc EXCEPT ![p] = IF left[p] = 0 THEN "idle" ELSE "sleep"]
    /\ nap' = [nap EXCEPT ![p] = IF left[p] = 0 THEN 0 ELSE 1]

SawBusy(p) ==
    /\ Busy
    /\ quiet' = [quiet EXCEPT ![p] = 0]
    /\ GiveUpOrSleep(p)
    /\ UNCHANGED <<rowVars, used, token, left, beatVars, writer>>

\* Mutant of MayReclaim: a busy store is no evidence of a live holder.
MayAlwaysReclaim(p) == TRUE

MayReclaim(p) == quiet[p] = Expiry

Wake(p) ==
    /\ pc[p] = "sleep"
    /\ nap[p] = 0
    /\ pc' = [pc EXCEPT ![p] = IF MayReclaim(p) THEN "reclaim" ELSE "insert"]
    /\ UNCHANGED <<rowVars, used, token, waitVars, beatVars, writer>>

ReclaimExpired(p) ==
    /\ pc[p] = "reclaim"
    /\ ~Busy
    /\ IF Expired THEN Free ELSE UNCHANGED rowVars
    /\ pc' = [pc EXCEPT ![p] = "insert"]
    /\ UNCHANGED <<used, token, waitVars, beatVars, writer>>

ReclaimBusy(p) == pc[p] = "reclaim" /\ SawBusy(p)

TryAcquire(p) ==
    /\ pc[p] = "insert"
    /\ ~Busy
    /\ owner = NoToken
    /\ owner' = token[p]
    /\ age' = 0
    /\ pc' = [pc EXCEPT ![p] = "inserted"]
    /\ UNCHANGED <<used, token, waitVars, beatVars, writer>>

TryAcquireHeld(p) ==
    /\ pc[p] = "insert"
    /\ ~Busy
    /\ owner # NoToken
    /\ GiveUpOrSleep(p)
    /\ UNCHANGED <<rowVars, used, token, quiet, left, beatVars, writer>>

TryAcquireBusy(p) == pc[p] = "insert" /\ SawBusy(p)

OnAcquired(p) ==
    /\ pc[p] = "inserted"
    /\ pc' = [pc EXCEPT ![p] = "held"]
    /\ hb' = [hb EXCEPT ![p] = token[p] \notin UnrefreshedTokens]
    /\ beat' = [beat EXCEPT ![p] = 0]
    /\ retry' = [retry EXCEPT ![p] = FALSE]
    /\ alive' = [alive EXCEPT ![p] = 0]
    /\ lost' = [lost EXCEPT ![p] = FALSE]
    /\ UNCHANGED <<rowVars, used, token, waitVars, writer>>

\* Mutant of Interrupt: the store is closed, the row is not released.
InterruptCloses(p) ==
    /\ pc[p] \in Waiting \cup {"inserted"}
    /\ pc' = [pc EXCEPT ![p] = "idle"]
    /\ nap' = [nap EXCEPT ![p] = 0]
    /\ UNCHANGED <<rowVars, used, token, quiet, left, beatVars, writer>>

\* KeyboardInterrupt or SystemExit in the loop, or an error once the row is
\* in: the lease is marked held and released, then the error goes on.
Interrupt(p) ==
    /\ pc[p] \in Waiting \cup {"inserted"}
    /\ FreeOwn(token[p])
    /\ pc' = [pc EXCEPT ![p] = "idle"]
    /\ nap' = [nap EXCEPT ![p] = 0]
    /\ UNCHANGED <<used, token, quiet, left, beatVars, writer>>

\* Any other error of a statement closes the store and goes on.  Whether the
\* statement was committed before the connection broke is not known.
StoreError(p) ==
    /\ p \in Unreliable
    /\ pc[p] \in {"reclaim", "insert"}
    /\ \/ UNCHANGED rowVars
       \/ pc[p] = "insert" /\ ~Busy /\ owner = NoToken
          /\ owner' = token[p] /\ age' = 0
       \/ pc[p] = "reclaim" /\ ~Busy /\ Expired /\ Free
    /\ pc' = [pc EXCEPT ![p] = "idle"]
    /\ UNCHANGED <<used, token, waitVars, beatVars, writer>>

-----------------------------------------------------------------------------
(* The heartbeat thread                                                    *)

Due(p) ==
    /\ pc[p] = "held"
    /\ hb[p]
    /\ retry[p] \/ beat[p] >= HeartbeatInterval

\* Mutant of BeatRefreshes: a refresh puts a missing row back.
BeatReinserts(p) ==
    /\ Due(p)
    /\ ~Busy
    /\ owner \in {token[p], NoToken}
    /\ owner' = token[p]
    /\ age' = 0
    /\ beat' = [beat EXCEPT ![p] = 0]
    /\ retry' = [retry EXCEPT ![p] = FALSE]
    /\ alive' = [alive EXCEPT ![p] = 0]
    /\ UNCHANGED <<used, pc, token, waitVars, hb, lost, writer>>

BeatRefreshes(p) ==
    /\ Due(p)
    /\ ~Busy
    /\ owner = token[p]
    /\ age' = 0
    /\ beat' = [beat EXCEPT ![p] = 0]
    /\ retry' = [retry EXCEPT ![p] = FALSE]
    /\ alive' = [alive EXCEPT ![p] = 0]
    /\ UNCHANGED <<owner, used, pc, token, waitVars, hb, lost, writer>>

\* Mutant of BeatFindsLoss: the answer of refresh is ignored.
BeatIgnoresLoss(p) ==
    /\ Due(p)
    /\ ~Busy
    /\ owner # token[p]
    /\ beat' = [beat EXCEPT ![p] = 0]
    /\ retry' = [retry EXCEPT ![p] = FALSE]
    /\ alive' = [alive EXCEPT ![p] = 0]
    /\ UNCHANGED <<rowVars, used, pc, token, waitVars, hb, lost, writer>>

BeatFindsLoss(p) ==
    /\ Due(p)
    /\ ~Busy
    /\ owner # token[p]
    /\ lost' = [lost EXCEPT ![p] = TRUE]
    /\ hb' = [hb EXCEPT ![p] = FALSE]
    /\ UNCHANGED <<rowVars, used, pc, token, waitVars, beat, retry, alive,
                   writer>>

BeatBusy(p) ==
    /\ Due(p)
    /\ Busy
    /\ beat' = [beat EXCEPT ![p] = 0]
    /\ retry' = [retry EXCEPT ![p] = TRUE]
    /\ alive' = [alive EXCEPT ![p] = 0]
    /\ UNCHANGED <<rowVars, used, pc, token, waitVars, hb, lost, writer>>

\* Mutant of BeatFails: the first failed refresh gives the lease up.
BeatFailsOnce(p) ==
    /\ p \in Unreliable
    /\ Due(p)
    /\ beat' = [beat EXCEPT ![p] = 0]
    /\ retry' = [retry EXCEPT ![p] = FALSE]
    /\ lost' = [lost EXCEPT ![p] = TRUE]
    /\ hb' = [hb EXCEPT ![p] = FALSE]
    /\ UNCHANGED <<rowVars, used, pc, token, waitVars, alive, writer>>

\* refresh raised: the lease is given up after a whole window of failures.
BeatFails(p) ==
    /\ p \in Unreliable
    /\ Due(p)
    /\ beat' = [beat EXCEPT ![p] = 0]
    /\ retry' = [retry EXCEPT ![p] = FALSE]
    /\ lost' = [lost EXCEPT ![p] = alive[p] = Expiry]
    /\ hb' = [hb EXCEPT ![p] = alive[p] # Expiry]
    /\ UNCHANGED <<rowVars, used, pc, token, waitVars, alive, writer>>

-----------------------------------------------------------------------------
(* While held: migration transactions, then release                        *)

\* The gap between two transactions is long enough for the heartbeat's
\* _busy_retry_delay (a tenth of a poll).
BeginWrite(p) ==
    /\ StoreLocks
    /\ pc[p] = "held"
    /\ ~Busy
    /\ \A q \in Reliable : pc[q] = "held" /\ hb[q] => ~retry[q]
    /\ writer' = p
    /\ UNCHANGED <<rowVars, used, pc, token, waitVars, beatVars>>

EndWrite(p) ==
    /\ writer = p
    /\ writer' = NoProc
    /\ UNCHANGED <<rowVars, used, pc, token, waitVars, beatVars>>

\* The heartbeat is stopped first; a release that fails is only logged.
Release(p) ==
    /\ pc[p] = "held"
    /\ writer # p
    /\ \/ FreeOwn(token[p])
       \/ p \in Unreliable /\ UNCHANGED rowVars
    /\ pc' = [pc EXCEPT ![p] = "idle"]
    /\ hb' = [hb EXCEPT ![p] = FALSE]
    /\ UNCHANGED <<used, token, waitVars, beat, retry, alive, lost, writer>>

\* SIGKILL: nothing is released, the database rolls the transaction back.
Crash(p) ==
    /\ pc[p] \notin Gone
    /\ pc' = [pc EXCEPT ![p] = "dead"]
    /\ hb' = [hb EXCEPT ![p] = FALSE]
    /\ nap' = [nap EXCEPT ![p] = 0]
    /\ writer' = IF writer = p THEN NoProc ELSE writer
    /\ UNCHANGED <<rowVars, used, token, quiet, left, beat, retry, alive,
                   lost>>

-----------------------------------------------------------------------------
(* Time                                                                    *)

\* A reliable process has done what was due before the next poll.
Timely(p) ==
    /\ pc[p] \notin {"reclaim", "insert", "inserted"}
    /\ pc[p] = "sleep" => nap[p] > 0
    /\ pc[p] = "held" /\ hb[p] =>
         /\ beat[p] < HeartbeatInterval + BeatSlack
         /\ retry[p] => beat[p] = 0 /\ Busy

Tick ==
    /\ \A p \in Reliable : Timely(p)
    /\ age' = IF owner = NoToken THEN 0 ELSE Cap(age + 1, LegacyExpiry + 1)
    /\ quiet' = [p \in Procs |-> Cap(quiet[p] + 1, Expiry)]
    /\ left' = [p \in Procs |-> IF left[p] = 0 THEN 0 ELSE left[p] - 1]
    /\ nap' = [p \in Procs |-> 0]
    /\ beat' = [p \in Procs |->
                  Cap(beat[p] + 1, HeartbeatInterval + BeatSlack)]
    /\ alive' = [p \in Procs |-> Cap(alive[p] + 1, Expiry)]
    /\ UNCHANGED <<owner, used, pc, token, hb, retry, lost, writer>>

Acquiring(p) ==
    \/ Wake(p)
    \/ ReclaimExpired(p) \/ ReclaimBusy(p)
    \/ TryAcquire(p) \/ TryAcquireHeld(p) \/ TryAcquireBusy(p)
    \/ OnAcquired(p)

Beating(p) == BeatRefreshes(p) \/ BeatFindsLoss(p) \/ BeatBusy(p)

Next ==
    \/ \E p \in Procs, t \in Tokens : Start(p, t)
    \/ \E p \in Procs :
         \/ Acquiring(p) \/ Interrupt(p) \/ StoreError(p)
         \/ Beating(p) \/ BeatFails(p)
         \/ BeginWrite(p) \/ EndWrite(p)
         \/ Release(p) \/ Crash(p)
    \/ Tick

Spec == Init /\ [][Next]_vars

\* Time passes, threads are scheduled, and a transaction ends.
Fairness ==
    /\ WF_vars(Tick)
    /\ \A p \in Procs : WF_vars(Acquiring(p)) /\ WF_vars(Beating(p))
    /\ \A p \in Procs : WF_vars(EndWrite(p))

FairSpec == Spec /\ Fairness
-----------------------------------------------------------------------------
(* Properties                                                              *)

\* "a live holder never lets it go stale" (lease_lock.py): while a process
\* that is not paused holds a refreshed lease, the row stays its own, however
\* its beats, the waiters' polls and its write transactions interleave.
HolderOwnsLease ==
    \A p \in Reliable :
        pc[p] \in Holding /\ token[p] \notin UnrefreshedTokens
            => owner = token[p]

\* A holder that is told its lease is lost has lost the row, or has left it
\* unrefreshed for a whole window: no run is stopped on a late beat alone.
LossIsReal ==
    \A p \in Procs :
        pc[p] = "held" /\ lost[p] => owner # token[p] \/ age >= Expiry

\* A row is only ever taken out by its own process, on its way out, or when
\* nothing refreshed it for its whole window: neither a stale holder's
\* release nor a waiter frees a lease in use.
NoTheft ==
    [][ owner # NoToken /\ owner' # owner =>
          \/ Expired
          \/ \E p \in Procs : token[p] = owner /\ pc'[p] = "idle" ]_vars

\* A timely waiter turned away at its deadline is turned away by a row that
\* may still be alive: one that has not expired, or that it saw in use within
\* the window.  A single attempt (no waiting) never looks at the age.
RefusalIsJustified ==
    [][ \A p \in Reliable :
          TryAcquireHeld(p) /\ pc'[p] = "idle" =>
            \/ ~Expired
            \/ ~MayReclaim(p)
            \/ WaitTimeout = 0 ]_vars

\* A process that is not killed leaves no row behind: not when it is
\* interrupted between the committed insert and the return of acquire, not
\* when its lease went to another holder and back, and not at its deadline.
NoRowLeftBehind ==
    \A p \in Reliable : pc[p] = "idle" /\ token[p] # NoToken =>
        owner # token[p]

\* acquire returns or raises: the deadline bounds the wait whatever the
\* other processes do, paused ones included.
AcquireReturns ==
    \A p \in Procs : (pc[p] \in Waiting) ~> (pc[p] \notin Waiting)

\* A holder whose row was reclaimed while it was paused learns of it.
LossNoticed ==
    \A p \in Procs :
        (pc[p] = "held" /\ hb[p] /\ owner # token[p])
            ~> (lost[p] \/ pc[p] # "held")

\* Both sides learn how they stand: a waiter gets its answer, and the right one, and a
\* holder is told of its loss.
EveryoneLearns == AcquireReturns /\ LossNoticed /\ RefusalIsJustified

\* The lease implements the lock: a token that left the row never returns.
Lock == INSTANCE MigrationLock WITH
            lease <- owner,
            spent <- used \ {token[p] : p \in {q \in Procs : pc[q] \in Waiting}}
LockSpec == Lock!LockSpec
=============================================================================
