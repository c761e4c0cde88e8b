---------------------------- MODULE MigrationLock ----------------------------
(***************************************************************************)
(* What the migration lock promises the commands that take it: at most one *)
(* owner token holds it at a time, a token is granted at most once, and a  *)
(* token that left the lock never comes back.                              *)
(***************************************************************************)
CONSTANTS
    Tokens,     \* owner tokens, one per acquisition
    NoToken,    \* no owner
    Ownerless   \* the owner of a row written before the lease

VARIABLES
    lease,      \* the token that holds the lock
    spent       \* tokens that were granted, or whose acquisition gave up

lockVars == <<lease, spent>>

LockInit == lease \in {NoToken, Ownerless} /\ spent = {Ownerless}

Grant(t) ==
    /\ lease = NoToken
    /\ t \notin spent
    /\ lease' = t
    /\ spent' = spent \cup {t}

\* Released, or reclaimed; the one who asks may give up in the same step.
Vacate(t) ==
    /\ lease # NoToken
    /\ lease' = NoToken
    /\ spent' \in {spent, spent \cup {t}}

\* An acquisition gives up without the lock.
Abandon(t) ==
    /\ t \notin spent
    /\ spent' = spent \cup {t}
    /\ UNCHANGED lease

LockNext == \E t \in Tokens : Grant(t) \/ Vacate(t) \/ Abandon(t)

LockSpec == LockInit /\ [][LockNext]_lockVars
=============================================================================
