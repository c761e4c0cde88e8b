----------------------------- MODULE MCCommandRun ----------------------------
(* Model-checking instance of CommandRun: every command, twice. *)
EXTENDS CommandRun
=============================================================================
