---------------------------- MODULE MCMigrateRun ----------------------------
(* Small instances of MigrateRun for TLC.                                  *)
EXTENDS MigrateRun, TLC

CONSTANTS p1, p2, t1, t2, t3

\* Two scripts; the first has a statement after which it can still fail.
TwoScripts == <<2, 1>>
AllTransactional == <<"transactional", "transactional">>
FirstAutocommit == <<"autocommit", "transactional">>

\* Fresh tokens are interchangeable.
TokenSymmetry == Permutations({t1, t2, t3})
\* So are processes that are all reliable.
RunSymmetry == TokenSymmetry \cup Permutations({p1, p2})
=============================================================================
