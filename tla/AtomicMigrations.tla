--------------------------- MODULE AtomicMigrations ---------------------------
(***************************************************************************)
(* What `migrate` and `repair` promise a team whose scripts all run in a   *)
(* transaction: the versions are applied one by one, in order, each in one *)
(* indivisible step with its history row; a failed version leaves nothing  *)
(* but its FAILED row, and nothing is applied past it until it is repaired.*)
(***************************************************************************)
EXTENDS Integers

CONSTANTS
    Versions,   \* how many versioned scripts there are, numbered from 1
    Size        \* Size[v]: the number of statements of script v

VARIABLES
    current,    \* the highest version applied, 0 before the first
    failed,     \* the versions with a FAILED row
    effects     \* effects[v]: committed executions of statements of v

promiseVars == <<current, failed, effects>>

PromiseInit ==
    /\ current = 0
    /\ failed = {}
    /\ effects = [v \in 1 .. Versions |-> 0]

Apply ==
    /\ current < Versions
    /\ failed = {}
    /\ current' = current + 1
    /\ effects' = [effects EXCEPT ![current + 1] = Size[current + 1]]
    /\ UNCHANGED failed

\* --mark-as-executed: recorded as applied without being run.
Mark ==
    /\ current < Versions
    /\ failed = {}
    /\ current' = current + 1
    /\ UNCHANGED <<failed, effects>>

Fail ==
    /\ current < Versions
    /\ failed' = failed \cup {current + 1}
    /\ UNCHANGED <<current, effects>>

Repair ==
    /\ failed' = {}
    /\ UNCHANGED <<current, effects>>

PromiseNext == Apply \/ Mark \/ Fail \/ Repair

PromiseSpec == PromiseInit /\ [][PromiseNext]_promiseVars
=============================================================================
