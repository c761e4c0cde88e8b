-------------------------------- MODULE Stores --------------------------------
(***************************************************************************)
(* What the providers keep in the database: the history table and its rows *)
(* on every dialect, and the lock document of Cosmos DB.  A behaviour is   *)
(* one of these systems, named by part; the variables of the other are     *)
(* parked.  setup says which processes take the Cosmos DB lock and how     *)
(* long they wait and work.                                                *)
(***************************************************************************)
EXTENDS HistoryStore

CONSTANT LockSetups  \* [procs, expiry, timeout, hold, start, time, errors, deaths], see Cosmos

VARIABLES
  part, setup,
  doc, etags, now, runner, errors   \* CosmosLock

lockVars == <<doc, etags, now, runner, errors>>
storesVars == <<part, setup, vars, lockVars>>

Cosmos(s) == INSTANCE CosmosLock WITH
  Procs <- s.procs, Expiry <- s.expiry, Timeout <- s.timeout, LongestHold <- s.hold,
  LatestStart <- s.start, MaxTime <- s.time, MaxErrors <- s.errors, MaxDeaths <- s.deaths,
  proc <- runner

StoresAssumption ==
  HistoryStoreAssumption /\ \A s \in LockSetups : Cosmos(s)!CosmosLockAssumption

ASSUME StoresAssumption

\* The parts that do not run.
NoHistory == Init /\ dialect = "sqlite"
Parked == "parked"
NoLock ==
  setup = Parked /\ doc = Parked /\ etags = Parked /\ now = Parked /\ runner = Parked /\ errors = Parked

StoresInit ==
  \/ part = "history" /\ Init /\ NoLock
  \/ part = "lock" /\ NoHistory /\ \E s \in LockSetups : setup = s /\ Cosmos(s)!Init

StoresNext ==
  \/ part = "history" /\ Next /\ UNCHANGED <<part, setup, lockVars>>
  \/ part = "lock" /\ UNCHANGED <<part, setup, vars>> /\ \E s \in LockSetups : setup = s /\ Cosmos(s)!Next

HistoryStep(p) == part = "history" /\ Step(p) /\ UNCHANGED <<part, setup, lockVars>>
LockTick ==
  part = "lock" /\ UNCHANGED <<part, setup, vars>> /\ \E s \in LockSetups : setup = s /\ Cosmos(s)!Tick
LockStep(p) ==
  /\ part = "lock" /\ UNCHANGED <<part, setup, vars>>
  /\ \E s \in LockSetups : setup = s /\ p \in s.procs /\ Cosmos(s)!Step(p)

LockProcs == UNION {s.procs : s \in LockSetups}

\* The fairness of HistoryStore and CosmosLock.
StoresSpec ==
  /\ StoresInit /\ [][StoresNext]_storesVars
  /\ \A p \in Procs : SF_storesVars(HistoryStep(p))
  /\ WF_storesVars(LockTick) /\ \A p \in LockProcs : WF_storesVars(LockStep(p))

-----------------------------------------------------------------------------
(* Properties: HistoryAgrees and RowsOnce of HistoryStore, which also hold  *)
(* where the history is parked, and those of CosmosLock for its part.       *)

\* At most one waiter can take a holder's document for the expired one it read: nobody is
\* killed holding the lock, or nobody waits for the second phase, or there are two processes.
OneFallback(s) ==
  \/ s.deaths = 0
  \/ s.time < s.timeout
  \/ \A p, q, r \in s.procs : p = q \/ q = r \/ p = r

\* No request fails, and migrations are shorter than the expiry.
Careful(s) == s.errors = 0 /\ s.hold <= s.expiry /\ OneFallback(s)

\* The lock document of Cosmos DB is its holder's for as long as it runs, while no request
\* fails, migrations are shorter than the expiry and only one of two waiters finds a dead
\* holder's document expired; and unless a request failed no document of a process that
\* released it is left.  The variables of the lock have their types.
DocumentIsTheHolders ==
  part = "lock" =>
    \A s \in LockSetups : setup = s =>
      /\ Cosmos(s)!TypeOK /\ Cosmos(s)!NothingLeft
      /\ Careful(s) => Cosmos(s)!DocumentIsTheHolders

\* A document that expired longer ago than the pause between two looks turns nobody away
\* whose last request did not fail (_acquire_document_based_lock logs a failed one and goes
\* on, so that a run whose last look failed may be turned away by an expired document).
RefusalIsJustified ==
  [][part = "lock" => \A p \in setup.procs : runner'[p].pc = "refused" /\ runner[p].pc = "make" =>
        doc.etag = 0 \/ now <= doc.expires + 1 \/ runner[p].failed]_storesVars

\* Every process that lives comes to an end, and acquire_migration_lock returns, with the
\* lock or without it; after waiting for it in vain only if a document was there that had
\* not expired, or could not be looked at the last time.
EveryoneEnds ==
  /\ <>(/\ part = "history" => \A p \in Procs : proc[p].pc \in {"done", "failed", "dead"}
        /\ part = "lock" => \A p \in setup.procs : runner[p].pc \in {"held", "released", "refused", "dead"})
  /\ RefusalIsJustified
=============================================================================
