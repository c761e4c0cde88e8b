---------------------------- MODULE MCLeaseLock ----------------------------
(* Small instances of LeaseLock for TLC.                                   *)
EXTENDS LeaseLock, TLC

CONSTANTS p1, p2, t1, t2, t3, u1

\* Fresh tokens are interchangeable.
TokenSymmetry == Permutations({t1, t2, t3})
=============================================================================
