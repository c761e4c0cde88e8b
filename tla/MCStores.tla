------------------------------ MODULE MCStores ------------------------------
(* Stores for TLC: two migrates and a baseline that all find an empty      *)
(* database, and the waiters of the Cosmos DB lock.                        *)
EXTENDS Stores

MCLockSetups == {
  \* Migrations shorter than the expiry, nobody patient enough for the second phase.
  [procs |-> {"p1", "p2", "p3"}, expiry |-> 2, timeout |-> 11, hold |-> 2, start |-> 1, time |-> 10,
   errors |-> 0, deaths |-> 1],
  \* Two processes and both phases.
  [procs |-> {"p1", "p2"}, expiry |-> 3, timeout |-> 2, hold |-> 3, start |-> 5, time |-> 15,
   errors |-> 0, deaths |-> 1],
  \* Requests that fail, and migrations that outlast the expiry.
  [procs |-> {"p1", "p2"}, expiry |-> 3, timeout |-> 2, hold |-> 5, start |-> 5, time |-> 15,
   errors |-> 1, deaths |-> 1]}
=============================================================================
