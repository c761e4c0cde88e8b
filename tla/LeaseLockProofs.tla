--------------------------- MODULE LeaseLockProofs ---------------------------
(***************************************************************************)
(* Proofs about LeaseLock for every set of processes and tokens and every  *)
(* choice of the time constants that satisfies the module's assumptions.   *)
(***************************************************************************)
EXTENDS LeaseLock, TLAPS

-----------------------------------------------------------------------------
(* Types                                                                   *)

\* Every step keeps every variable in its type.
LEMMA TypeStep == TypeOK /\ [Next]_vars => TypeOK'
<1> SUFFICES ASSUME TypeOK, [Next]_vars PROVE TypeOK'
    OBVIOUS
<1> USE ProcAssumption, TokenAssumption, TimeAssumption DEF Gone
<1>1. ASSUME NEW p \in Procs, NEW t \in Tokens, Start(p, t) PROVE TypeOK'
    BY <1>1 DEF TypeOK, Start, rowVars, beatVars, Gone, Waiting, Holding
<1>2. ASSUME NEW p \in Procs, Acquiring(p) PROVE TypeOK'
  <2>1. CASE Wake(p)
      BY <2>1 DEF TypeOK, Wake, rowVars, waitVars, beatVars, Gone, Waiting,
                  Holding
  <2>2. CASE ReclaimExpired(p)
      BY <2>2 DEF TypeOK, ReclaimExpired, Free, rowVars, waitVars, beatVars,
                  Gone, Waiting, Holding
  <2>3. CASE ReclaimBusy(p)
      BY <2>3 DEF TypeOK, ReclaimBusy, SawBusy, GiveUpOrSleep, rowVars,
                  beatVars, Gone, Waiting, Holding
  <2>4. CASE TryAcquire(p)
      BY <2>4 DEF TypeOK, TryAcquire, waitVars, beatVars, Gone, Waiting,
                  Holding
  <2>5. CASE TryAcquireHeld(p)
      BY <2>5 DEF TypeOK, TryAcquireHeld, GiveUpOrSleep, rowVars, beatVars,
                  Gone, Waiting, Holding
  <2>6. CASE TryAcquireBusy(p)
      BY <2>6 DEF TypeOK, TryAcquireBusy, SawBusy, GiveUpOrSleep, rowVars,
                  beatVars, Gone, Waiting, Holding
  <2>7. CASE OnAcquired(p)
      BY <2>7 DEF TypeOK, OnAcquired, rowVars, waitVars, Gone, Waiting,
                  Holding
  <2> QED BY <1>2, <2>1, <2>2, <2>3, <2>4, <2>5, <2>6, <2>7 DEF Acquiring
<1>3. ASSUME NEW p \in Procs, Interrupt(p) PROVE TypeOK'
    BY <1>3 DEF TypeOK, Interrupt, FreeOwn, Free, rowVars, beatVars, Gone,
                Waiting,
                Holding
<1>4. ASSUME NEW p \in Procs, StoreError(p) PROVE TypeOK'
    BY <1>4 DEF TypeOK, StoreError, Free, rowVars, waitVars, beatVars,
                Gone, Waiting, Holding
<1>5. ASSUME NEW p \in Procs, Beating(p) PROVE TypeOK'
  <2>1. CASE BeatRefreshes(p)
      BY <2>1 DEF TypeOK, BeatRefreshes, waitVars
  <2>2. CASE BeatFindsLoss(p)
      BY <2>2 DEF TypeOK, BeatFindsLoss, rowVars, waitVars
  <2>3. CASE BeatBusy(p)
      BY <2>3 DEF TypeOK, BeatBusy, rowVars, waitVars
  <2> QED BY <1>5, <2>1, <2>2, <2>3 DEF Beating
<1>6. ASSUME NEW p \in Procs, BeatFails(p) PROVE TypeOK'
    BY <1>6 DEF TypeOK, BeatFails, rowVars, waitVars
<1>7. ASSUME NEW p \in Procs, BeginWrite(p) \/ EndWrite(p) PROVE TypeOK'
    BY <1>7 DEF TypeOK, BeginWrite, EndWrite, rowVars, waitVars, beatVars
<1>8. ASSUME NEW p \in Procs, Release(p) PROVE TypeOK'
    BY <1>8 DEF TypeOK, Release, FreeOwn, Free, rowVars, waitVars, Gone,
                Waiting,
                Holding
<1>9. ASSUME NEW p \in Procs, Crash(p) PROVE TypeOK'
    BY <1>9 DEF TypeOK, Crash, rowVars, Gone, Waiting, Holding
<1>10. ASSUME Tick PROVE TypeOK'
  <2>1. age' \in 0 .. LegacyExpiry + 1
      BY <1>10 DEF TypeOK, Tick, Cap
  <2>2. ASSUME NEW p \in Procs
        PROVE  /\ Cap(quiet[p] + 1, Expiry) \in 0 .. Expiry
               /\ Cap(alive[p] + 1, Expiry) \in 0 .. Expiry
               /\ Cap(beat[p] + 1, HeartbeatInterval + BeatSlack)
                    \in 0 .. HeartbeatInterval + BeatSlack
      BY DEF TypeOK, Cap
  <2>3. /\ quiet' \in [Procs -> 0 .. Expiry]
        /\ alive' \in [Procs -> 0 .. Expiry]
        /\ beat' \in [Procs -> 0 .. HeartbeatInterval + BeatSlack]
      BY <1>10, <2>2, Zenon DEF Tick
  <2>4. left' \in [Procs -> 0 .. WaitTimeout] /\ nap' \in [Procs -> 0 .. 1]
      BY <1>10 DEF TypeOK, Tick
  <2> QED BY <1>10, <2>1, <2>3, <2>4 DEF TypeOK, Tick
<1>11. CASE UNCHANGED vars
    BY <1>11 DEF TypeOK, vars
<1> QED BY <1>1, <1>2, <1>3, <1>4, <1>5, <1>6, <1>7, <1>8, <1>9, <1>10, <1>11
        DEF Next

\* The types hold in every reachable state, for every value of the constants.
THEOREM Typing == Spec => []TypeOK
<1>1. Init => TypeOK
    BY ProcAssumption, TokenAssumption, TimeAssumption
    DEF Init, TypeOK, Gone, Waiting, Holding
<1> QED BY <1>1, TypeStep, PTL DEF Spec
-----------------------------------------------------------------------------
(* Owner tokens                                                            *)

\* A token is handed out once, to one process, and the row's owner was.
TokenInv ==
    /\ Ownerless \in used
    /\ owner \in used \cup {NoToken}
    /\ \A p \in Procs : token[p] \in used \cup {NoToken}
    /\ \A p \in Procs : pc[p] \notin Gone => token[p] \in used \ {Ownerless}
    /\ \A p, q \in Procs : token[p] = token[q] /\ token[p] # NoToken => p = q

\* Every step keeps the tokens apart.
LEMMA TokenStep == TypeOK /\ TokenInv /\ [Next]_vars => TokenInv'
<1> SUFFICES ASSUME TypeOK, TokenInv, [Next]_vars PROVE TokenInv'
    OBVIOUS
<1> USE TokenAssumption DEF Gone
<1>1. ASSUME NEW r \in Procs, NEW t \in Tokens, Start(r, t) PROVE TokenInv'
    BY <1>1 DEF TypeOK, TokenInv, Start, rowVars, beatVars
<1>2. ASSUME NEW r \in Procs, Acquiring(r) PROVE TokenInv'
  <2>1. CASE Wake(r)
      BY <2>1 DEF TypeOK, TokenInv, Wake, rowVars, waitVars, beatVars
  <2>2. CASE ReclaimExpired(r)
      BY <2>2 DEF TypeOK, TokenInv, ReclaimExpired, Free, rowVars, waitVars,
                  beatVars
  <2>3. CASE ReclaimBusy(r)
      BY <2>3 DEF TypeOK, TokenInv, ReclaimBusy, SawBusy, GiveUpOrSleep,
                  rowVars, beatVars
  <2>4. CASE TryAcquire(r)
      BY <2>4 DEF TypeOK, TokenInv, TryAcquire, waitVars, beatVars
  <2>5. CASE TryAcquireHeld(r)
      BY <2>5 DEF TypeOK, TokenInv, TryAcquireHeld, GiveUpOrSleep, rowVars,
                  beatVars
  <2>6. CASE TryAcquireBusy(r)
      BY <2>6 DEF TypeOK, TokenInv, TryAcquireBusy, SawBusy, GiveUpOrSleep,
                  rowVars, beatVars
  <2>7. CASE OnAcquired(r)
      BY <2>7 DEF TypeOK, TokenInv, OnAcquired, rowVars, waitVars
  <2> QED BY <1>2, <2>1, <2>2, <2>3, <2>4, <2>5, <2>6, <2>7 DEF Acquiring
<1>3. ASSUME NEW r \in Procs, Interrupt(r) PROVE TokenInv'
    BY <1>3 DEF TypeOK, TokenInv, Interrupt, FreeOwn, Free, rowVars, beatVars
<1>4. ASSUME NEW r \in Procs, StoreError(r) PROVE TokenInv'
    BY <1>4 DEF TypeOK, TokenInv, StoreError, Free, rowVars, waitVars,
                beatVars
<1>5. ASSUME NEW r \in Procs, Beating(r) PROVE TokenInv'
  <2>1. CASE BeatRefreshes(r)
      BY <2>1 DEF TypeOK, TokenInv, BeatRefreshes, waitVars
  <2>2. CASE BeatFindsLoss(r)
      BY <2>2 DEF TypeOK, TokenInv, BeatFindsLoss, rowVars, waitVars
  <2>3. CASE BeatBusy(r)
      BY <2>3 DEF TypeOK, TokenInv, BeatBusy, rowVars, waitVars
  <2> QED BY <1>5, <2>1, <2>2, <2>3 DEF Beating
<1>6. ASSUME NEW r \in Procs, BeatFails(r) PROVE TokenInv'
    BY <1>6 DEF TypeOK, TokenInv, BeatFails, rowVars, waitVars
<1>7. ASSUME NEW r \in Procs, BeginWrite(r) \/ EndWrite(r) PROVE TokenInv'
    BY <1>7 DEF TypeOK, TokenInv, BeginWrite, EndWrite, rowVars, waitVars,
                beatVars
<1>8. ASSUME NEW r \in Procs, Release(r) PROVE TokenInv'
    BY <1>8 DEF TypeOK, TokenInv, Release, FreeOwn, Free, rowVars, waitVars
<1>9. ASSUME NEW r \in Procs, Crash(r) PROVE TokenInv'
    BY <1>9 DEF TypeOK, TokenInv, Crash, rowVars
<1>10. ASSUME Tick PROVE TokenInv'
    BY <1>10 DEF TypeOK, TokenInv, Tick
<1>11. CASE UNCHANGED vars
    BY <1>11 DEF TypeOK, TokenInv, vars
<1> QED BY <1>1, <1>2, <1>3, <1>4, <1>5, <1>6, <1>7, <1>8, <1>9, <1>10, <1>11
        DEF Next

-----------------------------------------------------------------------------
(* LossIsReal                                                              *)

\* The row of a holder is at least as old as its last sign of life, and a
\* holder that gave up its lease stops refreshing it.
LossInv ==
    \A p \in Procs : pc[p] = "held" =>
        /\ owner = token[p] => age >= alive[p]
        /\ lost[p] => ~hb[p] /\ (owner # token[p] \/ age >= Expiry)

\* Every step keeps LossInv.
LEMMA LossStep ==
    TypeOK /\ TokenInv /\ LossInv /\ [Next]_vars => LossInv'
<1> SUFFICES ASSUME TypeOK, TokenInv, LossInv, [Next]_vars PROVE LossInv'
    OBVIOUS
<1> USE TokenAssumption, TimeAssumption DEF Gone
<1>1. ASSUME NEW r \in Procs, NEW t \in Tokens, Start(r, t) PROVE LossInv'
    BY <1>1 DEF TypeOK, TokenInv, LossInv, Start, rowVars, beatVars
<1>2. ASSUME NEW r \in Procs, Acquiring(r) PROVE LossInv'
  <2>1. CASE Wake(r)
      BY <2>1 DEF TypeOK, TokenInv, LossInv, Wake, rowVars, waitVars, beatVars
  <2>2. CASE ReclaimExpired(r)
      BY <2>2 DEF TypeOK, TokenInv, LossInv, ReclaimExpired, Free, rowVars,
                  waitVars, beatVars
  <2>3. CASE ReclaimBusy(r)
      BY <2>3 DEF TypeOK, TokenInv, LossInv, ReclaimBusy, SawBusy,
                  GiveUpOrSleep, rowVars, beatVars
  <2>4. CASE TryAcquire(r)
      BY <2>4 DEF TypeOK, TokenInv, LossInv, TryAcquire, waitVars, beatVars
  <2>5. CASE TryAcquireHeld(r)
      BY <2>5 DEF TypeOK, TokenInv, LossInv, TryAcquireHeld, GiveUpOrSleep,
                  rowVars, beatVars
  <2>6. CASE TryAcquireBusy(r)
      BY <2>6 DEF TypeOK, TokenInv, LossInv, TryAcquireBusy, SawBusy,
                  GiveUpOrSleep, rowVars, beatVars
  <2>7. CASE OnAcquired(r)
      BY <2>7 DEF TypeOK, TokenInv, LossInv, OnAcquired, rowVars, waitVars
  <2> QED BY <1>2, <2>1, <2>2, <2>3, <2>4, <2>5, <2>6, <2>7 DEF Acquiring
<1>3. ASSUME NEW r \in Procs, Interrupt(r) PROVE LossInv'
    BY <1>3 DEF TypeOK, TokenInv, LossInv, Interrupt, FreeOwn, Free, rowVars,
                beatVars
<1>4. ASSUME NEW r \in Procs, StoreError(r) PROVE LossInv'
    BY <1>4 DEF TypeOK, TokenInv, LossInv, StoreError, Free, rowVars,
                waitVars, beatVars
<1>5. ASSUME NEW r \in Procs, Beating(r) PROVE LossInv'
  <2>1. CASE BeatRefreshes(r)
      BY <2>1 DEF TypeOK, TokenInv, LossInv, BeatRefreshes, Due, waitVars
  <2>2. CASE BeatFindsLoss(r)
      BY <2>2 DEF TypeOK, TokenInv, LossInv, BeatFindsLoss, rowVars, waitVars
  <2>3. CASE BeatBusy(r)
      BY <2>3 DEF TypeOK, TokenInv, LossInv, BeatBusy, rowVars, waitVars
  <2> QED BY <1>5, <2>1, <2>2, <2>3 DEF Beating
<1>6. ASSUME NEW r \in Procs, BeatFails(r) PROVE LossInv'
    BY <1>6 DEF TypeOK, TokenInv, LossInv, BeatFails, rowVars, waitVars
<1>7. ASSUME NEW r \in Procs, BeginWrite(r) \/ EndWrite(r) PROVE LossInv'
    BY <1>7 DEF TypeOK, TokenInv, LossInv, BeginWrite, EndWrite, rowVars,
                waitVars, beatVars
<1>8. ASSUME NEW r \in Procs, Release(r) PROVE LossInv'
    BY <1>8 DEF TypeOK, TokenInv, LossInv, Release, FreeOwn, Free, rowVars,
                waitVars
<1>9. ASSUME NEW r \in Procs, Crash(r) PROVE LossInv'
    BY <1>9 DEF TypeOK, TokenInv, LossInv, Crash, rowVars
<1>10. ASSUME Tick PROVE LossInv'
    BY <1>10 DEF TypeOK, TokenInv, LossInv, Tick, Cap
<1>11. CASE UNCHANGED vars
    BY <1>11 DEF TypeOK, TokenInv, LossInv, vars
<1> QED BY <1>1, <1>2, <1>3, <1>4, <1>5, <1>6, <1>7, <1>8, <1>9, <1>10, <1>11
        DEF Next
-----------------------------------------------------------------------------
(* HolderOwnsLease on a store that no transaction locks                    *)

NoWriter == writer = NoProc

\* A timely holder's row is its own and no older than its last beat, which
\* is due before the row expires.
FreshInv ==
    \A p \in Reliable : token[p] \notin UnrefreshedTokens =>
        /\ pc[p] = "inserted" => owner = token[p] /\ age = 0
        /\ pc[p] = "held" =>
             owner = token[p] /\ hb[p] /\ ~retry[p] /\ age <= beat[p]

\* Without StoreLocks no transaction ever locks the store.
LEMMA NoWriterStep == ~StoreLocks /\ NoWriter /\ [Next]_vars => NoWriter'
BY ProcAssumption DEF NoWriter, Next, vars, Start, Acquiring, Wake,
   ReclaimExpired, ReclaimBusy, TryAcquire, TryAcquireHeld, TryAcquireBusy,
   SawBusy, OnAcquired, Interrupt, StoreError, Beating, BeatRefreshes,
   BeatFindsLoss, BeatBusy, BeatFails, BeginWrite, EndWrite, Release, Crash,
   Tick

\* Every step keeps FreshInv.
LEMMA FreshStep ==
    TypeOK /\ TokenInv /\ NoWriter /\ FreshInv /\ [Next]_vars => FreshInv'
<1> SUFFICES ASSUME TypeOK, TokenInv, NoWriter, FreshInv, [Next]_vars
             PROVE  FreshInv'
    OBVIOUS
<1> USE ProcAssumption, TokenAssumption, TimeAssumption DEF Gone
<1>0. ASSUME NEW p \in Reliable, pc[p] \in Holding,
             token[p] \notin UnrefreshedTokens
      PROVE  owner = token[p] /\ ~Expired
    BY <1>0 DEF FreshInv, Expired, Limit, Holding, TypeOK, TokenInv, Reliable
<1>1. ASSUME NEW r \in Procs, NEW t \in Tokens, Start(r, t) PROVE FreshInv'
    BY <1>1 DEF TypeOK, TokenInv, NoWriter, FreshInv, Reliable, Start,
                rowVars, beatVars
<1>2. ASSUME NEW r \in Procs, Acquiring(r) PROVE FreshInv'
  <2>1. CASE Wake(r)
      BY <2>1 DEF TypeOK, TokenInv, NoWriter, FreshInv, Reliable, Wake,
                  rowVars, waitVars, beatVars
  <2>2. CASE ReclaimExpired(r)
      BY <2>2, <1>0 DEF Holding, TypeOK, TokenInv, NoWriter, FreshInv,
                        Reliable, ReclaimExpired, Free, rowVars, waitVars,
                        beatVars
  <2>3. CASE ReclaimBusy(r)
      BY <2>3 DEF TypeOK, TokenInv, NoWriter, FreshInv, Reliable,
                  ReclaimBusy, SawBusy, GiveUpOrSleep, rowVars, beatVars
  <2>4. CASE TryAcquire(r)
      BY <2>4 DEF TypeOK, TokenInv, NoWriter, FreshInv, Reliable, TryAcquire,
                  waitVars, beatVars
  <2>5. CASE TryAcquireHeld(r)
      BY <2>5 DEF TypeOK, TokenInv, NoWriter, FreshInv, Reliable,
                  TryAcquireHeld, GiveUpOrSleep, rowVars, beatVars
  <2>6. CASE TryAcquireBusy(r)
      BY <2>6 DEF TypeOK, TokenInv, NoWriter, FreshInv, Reliable,
                  TryAcquireBusy, SawBusy, GiveUpOrSleep, rowVars, beatVars
  <2>7. CASE OnAcquired(r)
    <3>1. \A p \in Procs : p # r =>
            /\ pc'[p] = pc[p] /\ hb'[p] = hb[p] /\ retry'[p] = retry[p]
            /\ beat'[p] = beat[p]
        BY <2>7 DEF TypeOK, OnAcquired
    <3>2. /\ pc[r] = "inserted" /\ pc'[r] = "held" /\ beat'[r] = 0 /\ ~retry'[r]
          /\ token[r] \notin UnrefreshedTokens => hb'[r]
        BY <2>7, Zenon DEF TypeOK, OnAcquired
    <3>3. UNCHANGED <<owner, age, token>>
        BY <2>7 DEF OnAcquired, rowVars
    <3> QED BY <3>1, <3>2, <3>3 DEF FreshInv, Reliable, TypeOK
  <2> QED BY <1>2, <2>1, <2>2, <2>3, <2>4, <2>5, <2>6, <2>7 DEF Acquiring
<1>3. ASSUME NEW r \in Procs, Interrupt(r) PROVE FreshInv'
    BY <1>3 DEF TypeOK, TokenInv, NoWriter, FreshInv, Reliable, Interrupt,
                FreeOwn, Free, rowVars, beatVars
<1>4. ASSUME NEW r \in Procs, StoreError(r) PROVE FreshInv'
    BY <1>4, <1>0 DEF Holding, TypeOK, TokenInv, NoWriter, FreshInv,
                      Reliable, StoreError, Free, rowVars, waitVars, beatVars
<1>5. ASSUME NEW r \in Procs, Beating(r) PROVE FreshInv'
  <2>1. CASE BeatRefreshes(r)
      BY <2>1 DEF TypeOK, TokenInv, NoWriter, FreshInv, Reliable,
                  BeatRefreshes, waitVars
  <2>2. CASE BeatFindsLoss(r)
      BY <2>2 DEF TypeOK, TokenInv, NoWriter, FreshInv, Reliable,
                  BeatFindsLoss, rowVars, waitVars
  <2>3. CASE BeatBusy(r)
      BY <2>3 DEF NoWriter, BeatBusy, Busy
  <2> QED BY <1>5, <2>1, <2>2, <2>3 DEF Beating
<1>6. ASSUME NEW r \in Procs, BeatFails(r) PROVE FreshInv'
    BY <1>6 DEF TypeOK, TokenInv, NoWriter, FreshInv, Reliable, BeatFails,
                rowVars, waitVars
<1>7. ASSUME NEW r \in Procs, BeginWrite(r) \/ EndWrite(r) PROVE FreshInv'
    BY <1>7 DEF TypeOK, TokenInv, NoWriter, FreshInv, Reliable, BeginWrite,
                EndWrite, rowVars, waitVars, beatVars
<1>8. ASSUME NEW r \in Procs, Release(r) PROVE FreshInv'
    BY <1>8 DEF TypeOK, TokenInv, NoWriter, FreshInv, Reliable, Release,
                FreeOwn, Free, rowVars, waitVars
<1>9. ASSUME NEW r \in Procs, Crash(r) PROVE FreshInv'
    BY <1>9 DEF TypeOK, TokenInv, NoWriter, FreshInv, Reliable, Crash, rowVars
<1>10. ASSUME Tick PROVE FreshInv'
    BY <1>10 DEF TypeOK, TokenInv, NoWriter, FreshInv, Reliable, Tick,
                 Timely, Cap
<1>11. CASE UNCHANGED vars
    BY <1>11 DEF TypeOK, TokenInv, NoWriter, FreshInv, Reliable, vars
<1> QED BY <1>1, <1>2, <1>3, <1>4, <1>5, <1>6, <1>7, <1>8, <1>9, <1>10, <1>11
        DEF Next
\* HolderOwnsLease for every instance on a store that a migration does not
\* lock: a process that is not paused keeps its row, whatever paused or
\* killed processes do around it.
THEOREM HolderKeepsLease ==
    ASSUME ~StoreLocks
    PROVE  Spec => []HolderOwnsLease
<1> DEFINE IInv == TypeOK /\ TokenInv /\ NoWriter /\ FreshInv
<1>1. Init => IInv
    BY ProcAssumption, TokenAssumption, TimeAssumption
    DEF Init, TypeOK, TokenInv, NoWriter, FreshInv, Reliable, Gone, Waiting, Holding
<1>2. IInv /\ [Next]_vars => IInv'
    BY TypeStep, TokenStep, NoWriterStep, FreshStep
<1>3. IInv => HolderOwnsLease
    BY DEF FreshInv, HolderOwnsLease, Holding
<1> QED BY <1>1, <1>2, <1>3, PTL DEF Spec

\* LossIsReal for every instance, SQLite's locked store included.
THEOREM LossIsAlwaysReal == Spec => []LossIsReal
<1> DEFINE IInv == TypeOK /\ TokenInv /\ LossInv
<1>1. Init => IInv
    BY ProcAssumption, TokenAssumption, TimeAssumption
    DEF Init, TypeOK, TokenInv, LossInv, Gone, Waiting, Holding
<1>2. IInv /\ [Next]_vars => IInv'
    BY TypeStep, TokenStep, LossStep
<1>3. IInv => LossIsReal
    BY DEF LossInv, LossIsReal
<1> QED BY <1>1, <1>2, <1>3, PTL DEF Spec

-----------------------------------------------------------------------------
(* NoTheft and the refinement of MigrationLock                             *)

\* What NoTheft and the refinement of MigrationLock ask of a step.
NoTheftStep ==
    owner # NoToken /\ owner' # owner =>
        \/ Expired
        \/ \E p \in Procs : token[p] = owner /\ pc'[p] = "idle"

\* No action frees a row that is neither expired nor its own process's.
LEMMA TheftStep == TypeOK /\ [Next]_vars => [NoTheftStep]_vars
<1> SUFFICES ASSUME TypeOK, Next, owner # NoToken, owner' # owner
             PROVE  \/ Expired
                    \/ \E p \in Procs : token[p] = owner /\ pc'[p] = "idle"
    BY DEF NoTheftStep
<1> USE DEF TypeOK, rowVars, Free, FreeOwn
<1>1. ASSUME NEW p \in Procs, Acquiring(p) PROVE Expired
    BY <1>1 DEF Acquiring, Wake, ReclaimExpired, ReclaimBusy, TryAcquire,
                TryAcquireHeld, TryAcquireBusy, SawBusy, OnAcquired
<1>2. ASSUME NEW p \in Procs, Interrupt(p) \/ Release(p)
      PROVE  token[p] = owner /\ pc'[p] = "idle"
    BY <1>2 DEF Interrupt, Release
<1>3. ASSUME NEW p \in Procs, StoreError(p) PROVE Expired
    BY <1>3 DEF StoreError
<1>4. ASSUME NEW p \in Procs PROVE ~Beating(p) /\ ~BeatFails(p)
    BY DEF Beating, BeatRefreshes, BeatFindsLoss, BeatBusy, BeatFails
<1>5. ASSUME NEW p \in Procs
      PROVE  ~BeginWrite(p) /\ ~EndWrite(p) /\ ~Crash(p)
    BY DEF BeginWrite, EndWrite, Crash
<1>6. ~Tick /\ \A p \in Procs, t \in Tokens : ~Start(p, t)
    BY DEF Tick, Start
<1> QED BY <1>1, <1>2, <1>3, <1>4, <1>5, <1>6 DEF Next

\* NoTheft for every instance.
THEOREM NoTheftEver == Spec => NoTheft
<1>1. Init => TypeOK
    BY ProcAssumption, TokenAssumption, TimeAssumption
    DEF Init, TypeOK, Gone, Waiting, Holding
<1>2. [NoTheftStep]_vars =>
        [owner # NoToken /\ owner' # owner =>
          \/ Expired
          \/ \E p \in Procs : token[p] = owner /\ pc'[p] = "idle"]_vars
    BY DEF NoTheftStep
<1> QED BY <1>1, <1>2, TypeStep, TheftStep, PTL DEF Spec, NoTheft
\* The tokens MigrationLock counts as spent: handed out and no longer waited
\* with.
Spent == used \ {token[p] : p \in {q \in Procs : pc[q] \in Waiting}}

\* Membership in Spent, without the set of images.
LEMMA SpentFact ==
    \A t : t \in Spent <=>
        t \in used /\ \A p \in Procs : pc[p] \in Waiting => token[p] # t
BY DEF Spent

\* A step that changes no token and nobody's waiting leaves Spent alone.
LEMMA SpentStays ==
    ASSUME UNCHANGED <<used, token>>,
           \A p \in Procs : pc'[p] \in Waiting <=> pc[p] \in Waiting
    PROVE  Spent' = Spent
<1>1. \A t : t \in Spent' <=> t \in Spent
    BY DEF Spent
<1> QED BY <1>1

\* A process that stops waiting adds its own token to Spent.
LEMMA SpentGrows ==
    ASSUME TypeOK, TokenInv, UNCHANGED <<used, token>>, NEW r \in Procs,
           pc[r] \in Waiting, pc'[r] \notin Waiting,
           \A p \in Procs \ {r} : pc'[p] = pc[p]
    PROVE  Spent' = Spent \cup {token[r]} /\ token[r] \notin Spent
<1>1. token[r] \in used /\ token[r] # NoToken
    BY TokenAssumption DEF TokenInv, TypeOK, Gone, Waiting
<1>2. \A p \in Procs \ {r} : token[p] # token[r]
    BY <1>1 DEF TokenInv
<1>3. \A t : t \in Spent' <=>
          t \in used /\ \A p \in Procs : pc'[p] \in Waiting => token[p] # t
    BY DEF Spent
<1>4. \A t : t \in Spent' <=> t \in Spent \cup {token[r]}
    BY <1>1, <1>2, <1>3, SpentFact
<1>5. token[r] \notin Spent
    BY SpentFact
<1> QED BY <1>4, <1>5

\* A step of the lease is a step of the lock or leaves it alone.
LEMMA LockStep ==
    TypeOK /\ TokenInv /\ [Next]_vars => [Lock!LockNext]_(Lock!lockVars)
<1> SUFFICES ASSUME TypeOK, TokenInv, [Next]_vars
             PROVE  [Lock!LockNext]_(Lock!lockVars)
    OBVIOUS
<1> USE TokenAssumption DEF Gone
<1> DEFINE Stays == owner' = owner /\ Spent' = Spent
<1>a. Stays => [Lock!LockNext]_(Lock!lockVars)
    BY DEF Lock!lockVars, Spent
<1>b. ASSUME NEW t \in Tokens, owner = NoToken, t \notin Spent, owner' = t,
             Spent' = Spent \cup {t}
      PROVE  [Lock!LockNext]_(Lock!lockVars)
    BY <1>b DEF Lock!LockNext, Lock!Grant, Spent
<1>c. ASSUME NEW t \in Tokens, owner # NoToken, owner' = NoToken,
             Spent' \in {Spent, Spent \cup {t}}
      PROVE  [Lock!LockNext]_(Lock!lockVars)
    BY <1>c DEF Lock!LockNext, Lock!Vacate, Spent
<1>d. ASSUME NEW t \in Tokens, owner' = owner, t \notin Spent,
             Spent' = Spent \cup {t}
      PROVE  [Lock!LockNext]_(Lock!lockVars)
    BY <1>d DEF Lock!LockNext, Lock!Abandon, Spent
<1>1. ASSUME NEW r \in Procs, NEW t \in Tokens, Start(r, t)
      PROVE  Stays
  <2>1. \A u : u \in Spent' <=>
          u \in used' /\ \A p \in Procs : pc'[p] \in Waiting => token'[p] # u
      BY DEF Spent
  <2>2. \A u : u \in Spent' <=> u \in Spent
      BY <1>1, <2>1, SpentFact DEF Start, TypeOK, TokenInv, Waiting
  <2> QED BY <1>1, <2>2 DEF Start, rowVars
<1>2. ASSUME NEW r \in Procs, Wake(r) \/ OnAcquired(r)
      PROVE  Stays
    BY <1>2, SpentStays DEF Wake, OnAcquired, rowVars, TypeOK, Waiting
<1>3. ASSUME NEW r \in Procs, ReclaimExpired(r)
      PROVE  [Lock!LockNext]_(Lock!lockVars)
  <2>1. Spent' = Spent
      BY <1>3, SpentStays DEF ReclaimExpired, TypeOK, Waiting
  <2>2. CASE Expired
      BY <1>3, <2>1, <2>2, <1>c DEF ReclaimExpired, Free, Expired
  <2>3. CASE ~Expired
      BY <1>3, <2>1, <2>3, <1>a DEF ReclaimExpired, rowVars
  <2> QED BY <2>2, <2>3
<1>4. ASSUME NEW r \in Procs, UNCHANGED <<used, token, owner>>,
             pc[r] \in Waiting, GiveUpOrSleep(r)
      PROVE  [Lock!LockNext]_(Lock!lockVars)
  <2>1. CASE left[r] = 0
    <3>1. Spent' = Spent \cup {token[r]} /\ token[r] \notin Spent
        BY <1>4, <2>1, SpentGrows DEF GiveUpOrSleep, TypeOK, Waiting
    <3>2. token[r] \in Tokens
        BY <1>4 DEF TokenInv, TypeOK, Waiting
    <3> QED BY <1>4, <3>1, <3>2, <1>d
  <2>2. CASE left[r] # 0
    <3>1. Spent' = Spent
        BY <1>4, <2>2, SpentStays DEF GiveUpOrSleep, TypeOK, Waiting
    <3> QED BY <1>4, <3>1, <1>a
  <2> QED BY <2>1, <2>2
<1>5. ASSUME NEW r \in Procs,
             ReclaimBusy(r) \/ TryAcquireHeld(r) \/ TryAcquireBusy(r)
      PROVE  [Lock!LockNext]_(Lock!lockVars)
    BY <1>5, <1>4 DEF ReclaimBusy, TryAcquireHeld, TryAcquireBusy, SawBusy,
                      rowVars, Waiting
<1>6. ASSUME NEW r \in Procs, UNCHANGED <<used, token>>,
             pc[r] \in Waiting,
             \E c \in Gone \cup Holding : pc' = [pc EXCEPT ![r] = c]
      PROVE  /\ Spent' = Spent \cup {token[r]} /\ token[r] \notin Spent
             /\ token[r] \in Tokens
  <2>1. pc'[r] \notin Waiting /\ \A p \in Procs \ {r} : pc'[p] = pc[p]
      BY <1>6 DEF TypeOK, Waiting, Holding
  <2>2. token[r] \in Tokens
      BY <1>6 DEF TokenInv, TypeOK, Waiting
  <2> QED BY <1>6, <2>1, <2>2, SpentGrows
<1>7. ASSUME NEW r \in Procs, TryAcquire(r)
      PROVE  [Lock!LockNext]_(Lock!lockVars)
    BY <1>7, <1>6, <1>b DEF TryAcquire, Waiting, Holding
<1>8. ASSUME NEW r \in Procs, Interrupt(r) \/ StoreError(r) \/ Crash(r),
             pc[r] \in Waiting
      PROVE  [Lock!LockNext]_(Lock!lockVars)
  <2>1. /\ Spent' = Spent \cup {token[r]} /\ token[r] \notin Spent
        /\ token[r] \in Tokens
      BY <1>8, <1>6 DEF Interrupt, StoreError, Crash, Holding
  <2>2. \/ owner' = owner
        \/ owner # NoToken /\ owner' = NoToken
        \/ owner = NoToken /\ owner' = token[r]
      BY <1>8, <2>1 DEF Interrupt, StoreError, Crash, FreeOwn, Free, Expired,
                        rowVars
  <2> QED BY <2>1, <2>2, <1>b, <1>c, <1>d
<1>9. ASSUME NEW r \in Procs, Interrupt(r) \/ Release(r) \/ Crash(r),
             pc[r] \notin Waiting
      PROVE  [Lock!LockNext]_(Lock!lockVars)
  <2>1. Spent' = Spent
      BY <1>9, SpentStays DEF Interrupt, Release, Crash, TypeOK, Waiting
  <2>2. \/ owner' = owner
        \/ owner # NoToken /\ owner' = NoToken
      BY <1>9 DEF Interrupt, Release, Crash, FreeOwn, Free, rowVars
  <2> QED BY <2>1, <2>2, <1>a, <1>c
<1>10. ASSUME NEW r \in Procs,
              \/ Beating(r) \/ BeatFails(r) \/ BeginWrite(r) \/ EndWrite(r)
       PROVE  Stays
  <2>1. UNCHANGED <<owner, used, token, pc>>
      BY <1>10 DEF Beating, BeatRefreshes, BeatFindsLoss, BeatBusy, BeatFails,
                   BeginWrite, EndWrite, rowVars
  <2> QED BY <2>1, SpentStays
<1>11. CASE Tick \/ UNCHANGED vars
  <2>1. UNCHANGED <<owner, used, token, pc>>
      BY <1>11 DEF Tick, vars
  <2>2. Stays
      BY <2>1, SpentStays
  <2> QED BY <2>2, <1>a
<1>12. ASSUME NEW r \in Procs, Acquiring(r)
       PROVE  [Lock!LockNext]_(Lock!lockVars)
    BY <1>12, <1>2, <1>3, <1>5, <1>7, <1>a DEF Acquiring
<1>13. ASSUME NEW r \in Procs,
              Interrupt(r) \/ StoreError(r) \/ Release(r) \/ Crash(r)
       PROVE  [Lock!LockNext]_(Lock!lockVars)
  <2>1. StoreError(r) => pc[r] \in Waiting
      BY DEF StoreError, Waiting
  <2>2. Release(r) => pc[r] \notin Waiting
      BY DEF Release, Waiting
  <2>3. CASE pc[r] \in Waiting
    <3>1. Interrupt(r) \/ StoreError(r) \/ Crash(r)
        BY <1>13, <2>2, <2>3
    <3> QED BY <2>3, <3>1, <1>8
  <2>4. CASE pc[r] \notin Waiting
    <3>1. Interrupt(r) \/ Release(r) \/ Crash(r)
        BY <1>13, <2>1, <2>4
    <3> QED BY <2>4, <3>1, <1>9
  <2> QED BY <2>3, <2>4
<1> QED BY <1>1, <1>10, <1>11, <1>12, <1>13, <1>a DEF Next

\* The lease implements MigrationLock for every instance.
THEOREM LeaseImplementsLock == Spec => LockSpec
<1> DEFINE IInv == TypeOK /\ TokenInv
<1>1. Init => IInv
    BY ProcAssumption, TokenAssumption, TimeAssumption
    DEF Init, TypeOK, TokenInv, Gone, Waiting, Holding
<1>2. IInv /\ [Next]_vars => IInv'
    BY TypeStep, TokenStep
<1>3. Init => Lock!LockInit
    BY DEF Init, Lock!LockInit, Waiting
<1> QED BY <1>1, <1>2, <1>3, LockStep, PTL DEF Spec, LockSpec, Lock!LockSpec

\* The lock starts typed, and no process starts with a token.
LEMMA LeaseAtFirst == Init => TypeOK /\ TokenInv
BY ProcAssumption, TokenAssumption, TimeAssumption
DEF Init, TypeOK, TokenInv, Gone, Waiting, Holding

-----------------------------------------------------------------------------
(* HolderOwnsLease on a store that a migration's transaction locks         *)

\* The longest a timely holder goes without a refresh while the store is free.
Late == HeartbeatInterval + BeatSlack

\* What a waiter may know of a holder that the busy store keeps from
\* refreshing: either the row is still young, or the waiter was turned away
\* by the same transaction less than a window ago.
Warned(w) ==
    /\ pc[w] = "reclaim" => age <= Late + 1
    /\ pc[w] = "sleep" /\ nap[w] = 0 => age <= Late + 1 \/ quiet[w] # Expiry
    /\ pc[w] = "sleep" /\ nap[w] # 0 /\ Busy => age <= Late \/ quiet[w] = 0

\* A holder's row is its own, and is no older than its last beat, or every
\* waiter is warned off it.
LockedInv ==
    \A p \in Procs : token[p] \notin UnrefreshedTokens =>
        /\ pc[p] = "inserted" => owner = token[p] /\ age = 0
        /\ pc[p] = "held" =>
             /\ owner = token[p] /\ hb[p]
             /\ ~retry[p] => age <= beat[p]
             /\ retry[p] => \A w \in Procs : Warned(w)

\* Every step of processes that are never paused keeps LockedInv.
LEMMA LockedStep ==
    ASSUME Unreliable = {}
    PROVE  TypeOK /\ TokenInv /\ LockedInv /\ [Next]_vars => LockedInv'
<1> SUFFICES ASSUME TypeOK, TokenInv, LockedInv, [Next]_vars
             PROVE  LockedInv'
    OBVIOUS
<1> USE ProcAssumption, TokenAssumption, TimeAssumption DEF Gone
<1>0. ASSUME NEW p \in Procs, pc[p] \in Holding,
             token[p] \notin UnrefreshedTokens,
             NEW r \in Procs, pc[r] = "reclaim"
      PROVE  owner = token[p] /\ ~Expired
  <2>1. owner = token[p] /\ token[p] # Ownerless
      BY <1>0 DEF LockedInv, Holding, TokenInv
  <2>2. age <= Expiry
      BY <1>0 DEF LockedInv, Holding, TypeOK, Warned, Late
  <2> QED BY <1>0, <2>1, <2>2 DEF Expired, Limit, TypeOK
<1>1. ASSUME NEW r \in Procs, NEW t \in Tokens, Start(r, t) PROVE LockedInv'
    BY <1>1 DEF TypeOK, TokenInv, LockedInv, Warned, Busy, Start, rowVars,
                beatVars
<1>2. ASSUME NEW r \in Procs, Acquiring(r) PROVE LockedInv'
  <2>1. CASE Wake(r)
      BY <2>1 DEF TypeOK, TokenInv, LockedInv, Warned, Busy, Wake, MayReclaim,
                  rowVars, waitVars, beatVars
  <2>2. CASE ReclaimExpired(r)
      BY <2>2, <1>0 DEF Holding, TypeOK, TokenInv, LockedInv, Warned, Busy,
                        ReclaimExpired, Free, rowVars, waitVars, beatVars
  <2>3. CASE ReclaimBusy(r)
      BY <2>3 DEF TypeOK, TokenInv, LockedInv, Warned, Busy, ReclaimBusy,
                  SawBusy, GiveUpOrSleep, rowVars, beatVars
  <2>4. CASE TryAcquire(r)
      BY <2>4 DEF TypeOK, TokenInv, LockedInv, Warned, Busy, TryAcquire,
                  waitVars, beatVars
  <2>5. CASE TryAcquireHeld(r)
      BY <2>5 DEF TypeOK, TokenInv, LockedInv, Warned, Busy, TryAcquireHeld,
                  GiveUpOrSleep, rowVars, beatVars
  <2>6. CASE TryAcquireBusy(r)
      BY <2>6 DEF TypeOK, TokenInv, LockedInv, Warned, Busy, TryAcquireBusy,
                  SawBusy, GiveUpOrSleep, rowVars, beatVars
  <2>7. CASE OnAcquired(r)
    <3>1. \A p \in Procs : p # r =>
            /\ pc'[p] = pc[p] /\ hb'[p] = hb[p] /\ retry'[p] = retry[p]
            /\ beat'[p] = beat[p]
        BY <2>7 DEF TypeOK, OnAcquired
    <3>2. /\ pc[r] = "inserted" /\ pc'[r] = "held" /\ beat'[r] = 0 /\ ~retry'[r]
          /\ token[r] \notin UnrefreshedTokens => hb'[r]
        BY <2>7, Zenon DEF TypeOK, OnAcquired
    <3>3. UNCHANGED <<owner, age, token, quiet, nap, writer>>
        BY <2>7 DEF OnAcquired, rowVars, waitVars
    <3>4. \A w \in Procs : Warned(w) => Warned(w)'
        BY <3>1, <3>2, <3>3 DEF Warned, Busy
    <3> QED BY <3>1, <3>2, <3>3, <3>4 DEF LockedInv, TypeOK
  <2> QED BY <1>2, <2>1, <2>2, <2>3, <2>4, <2>5, <2>6, <2>7 DEF Acquiring
<1>3. ASSUME NEW r \in Procs, Interrupt(r) PROVE LockedInv'
    BY <1>3 DEF TypeOK, TokenInv, LockedInv, Warned, Busy, Interrupt, FreeOwn,
                Free, rowVars, beatVars
<1>4. ASSUME NEW r \in Procs PROVE ~StoreError(r) /\ ~BeatFails(r)
    BY DEF StoreError, BeatFails
<1>5. ASSUME NEW r \in Procs, Beating(r) PROVE LockedInv'
  <2>1. CASE BeatRefreshes(r)
      BY <2>1 DEF TypeOK, TokenInv, LockedInv, Warned, Busy, BeatRefreshes,
                  Due, waitVars
  <2>2. CASE BeatFindsLoss(r)
      BY <2>2 DEF TypeOK, TokenInv, LockedInv, Warned, Busy, BeatFindsLoss,
                  Due, rowVars, waitVars
  <2>3. CASE BeatBusy(r)
      BY <2>3 DEF TypeOK, TokenInv, LockedInv, Warned, Late, Busy, BeatBusy,
                  Due, rowVars, waitVars
  <2> QED BY <1>5, <2>1, <2>2, <2>3 DEF Beating
<1>7. ASSUME NEW r \in Procs, BeginWrite(r) PROVE LockedInv'
    BY <1>7 DEF TypeOK, TokenInv, LockedInv, Warned, Busy, BeginWrite,
                Reliable, rowVars, waitVars, beatVars
<1>8. ASSUME NEW r \in Procs, EndWrite(r) PROVE LockedInv'
    BY <1>8 DEF TypeOK, TokenInv, LockedInv, Warned, Busy, EndWrite, rowVars,
                waitVars, beatVars
<1>9. ASSUME NEW r \in Procs, Release(r) PROVE LockedInv'
    BY <1>9 DEF TypeOK, TokenInv, LockedInv, Warned, Busy, Release, FreeOwn,
                Free, rowVars, waitVars
<1>10. ASSUME NEW r \in Procs, Crash(r) PROVE LockedInv'
    BY <1>10 DEF TypeOK, TokenInv, LockedInv, Warned, Busy, Crash, rowVars
<1>11. ASSUME Tick PROVE LockedInv'
    BY <1>11 DEF TypeOK, TokenInv, LockedInv, Warned, Late, Busy, Reliable,
                 Tick, Timely, Cap
<1>12. CASE UNCHANGED vars
    BY <1>12 DEF TypeOK, TokenInv, LockedInv, Warned, Busy, vars
<1> QED BY <1>1, <1>2, <1>3, <1>4, <1>5, <1>7, <1>8, <1>9, <1>10, <1>11, <1>12
        DEF Next

\* HolderOwnsLease for every instance whose processes are not paused, on a
\* store that migrations lock too: a transaction may keep the heartbeat off
\* the row for as long as it takes, and no waiter takes the lease when it
\* ends.  With a paused waiter this fails on such a store: it may find its
\* window over before the pause and look at the row's age after it.
THEOREM TimelyHolderKeepsLease ==
    ASSUME Unreliable = {}
    PROVE  Spec => []HolderOwnsLease
<1> DEFINE IInv == TypeOK /\ TokenInv /\ LockedInv
<1>1. Init => IInv
    BY LeaseAtFirst DEF Init, LockedInv
<1>2. IInv /\ [Next]_vars => IInv'
    BY TypeStep, TokenStep, LockedStep
<1>3. IInv => HolderOwnsLease
    BY DEF LockedInv, HolderOwnsLease, Holding, Reliable
<1> QED BY <1>1, <1>2, <1>3, PTL DEF Spec

-----------------------------------------------------------------------------
(* NoRowLeftBehind                                                         *)

\* An open transaction is one of a process that holds.
WriterInv ==
    /\ Busy => pc[writer] = "held"
    /\ ~StoreLocks => ~Busy

\* Every step keeps WriterInv.
LEMMA WriterStep == TypeOK /\ WriterInv /\ [Next]_vars => WriterInv'
<1> SUFFICES ASSUME TypeOK, WriterInv, [Next]_vars PROVE WriterInv'
    OBVIOUS
<1> USE ProcAssumption DEF TypeOK, WriterInv, Busy
<1>1. ASSUME NEW r \in Procs, NEW t \in Tokens, Start(r, t) PROVE WriterInv'
    BY <1>1 DEF Start, Gone
<1>2. ASSUME NEW r \in Procs, Acquiring(r) PROVE WriterInv'
    BY <1>2 DEF Acquiring, Wake, ReclaimExpired, ReclaimBusy, TryAcquire,
                TryAcquireHeld, TryAcquireBusy, SawBusy, GiveUpOrSleep,
                OnAcquired
<1>3. ASSUME NEW r \in Procs, Interrupt(r) \/ StoreError(r) PROVE WriterInv'
    BY <1>3 DEF Interrupt, StoreError, Waiting
<1>4. ASSUME NEW r \in Procs, Beating(r) \/ BeatFails(r) PROVE WriterInv'
    BY <1>4 DEF Beating, BeatRefreshes, BeatFindsLoss, BeatBusy, BeatFails
<1>5. ASSUME NEW r \in Procs, BeginWrite(r) \/ EndWrite(r) PROVE WriterInv'
    BY <1>5 DEF BeginWrite, EndWrite
<1>6. ASSUME NEW r \in Procs, Release(r) \/ Crash(r) PROVE WriterInv'
    BY <1>6 DEF Release, Crash
<1>7. CASE Tick \/ UNCHANGED vars
    BY <1>7 DEF Tick, vars
<1> QED BY <1>1, <1>2, <1>3, <1>4, <1>5, <1>6, <1>7 DEF Next

\* A process that is not paused and not at work does not own the row: before
\* its insert, and once it is through.
ThroughInv ==
    \A p \in Reliable :
        pc[p] \in Waiting \cup {"idle"} /\ token[p] # NoToken => owner # token[p]

\* Every step keeps ThroughInv: no release meets a busy store.
LEMMA ThroughStep ==
    TypeOK /\ TokenInv /\ ThroughInv
      /\ (Busy => owner = token[writer] /\ pc[writer] = "held")
      /\ [Next]_vars => ThroughInv'
<1> SUFFICES ASSUME TypeOK, TokenInv, ThroughInv, [Next]_vars,
                    Busy => owner = token[writer] /\ pc[writer] = "held"
             PROVE  ThroughInv'
    OBVIOUS
<1> USE ProcAssumption, TokenAssumption DEF Gone, Reliable, Waiting
<1>1. ASSUME NEW r \in Procs, NEW t \in Tokens, Start(r, t) PROVE ThroughInv'
    BY <1>1 DEF TypeOK, TokenInv, ThroughInv, Start, rowVars
<1>2. ASSUME NEW r \in Procs, Acquiring(r) PROVE ThroughInv'
  <2>1. CASE Wake(r)
      BY <2>1 DEF TypeOK, TokenInv, ThroughInv, Wake, rowVars
  <2>2. CASE ReclaimExpired(r)
      BY <2>2 DEF TypeOK, TokenInv, ThroughInv, ReclaimExpired, Free, rowVars
  <2>3. CASE ReclaimBusy(r)
      BY <2>3 DEF TypeOK, TokenInv, ThroughInv, ReclaimBusy, SawBusy,
                  GiveUpOrSleep, rowVars
  <2>4. CASE TryAcquire(r)
      BY <2>4 DEF TypeOK, TokenInv, ThroughInv, TryAcquire
  <2>5. CASE TryAcquireHeld(r)
      BY <2>5 DEF TypeOK, TokenInv, ThroughInv, TryAcquireHeld, GiveUpOrSleep,
                  rowVars
  <2>6. CASE TryAcquireBusy(r)
      BY <2>6 DEF TypeOK, TokenInv, ThroughInv, TryAcquireBusy, SawBusy,
                  GiveUpOrSleep, rowVars
  <2>7. CASE OnAcquired(r)
      BY <2>7 DEF TypeOK, TokenInv, ThroughInv, OnAcquired, rowVars
  <2> QED BY <1>2, <2>1, <2>2, <2>3, <2>4, <2>5, <2>6, <2>7 DEF Acquiring
<1>3. ASSUME NEW r \in Procs, Interrupt(r) PROVE ThroughInv'
    BY <1>3 DEF TypeOK, TokenInv, ThroughInv, Interrupt, FreeOwn, Free, Busy,
                rowVars
<1>4. ASSUME NEW r \in Procs, StoreError(r) PROVE ThroughInv'
    BY <1>4 DEF TypeOK, TokenInv, ThroughInv, StoreError, Free, rowVars
<1>5. ASSUME NEW r \in Procs, Beating(r) \/ BeatFails(r) PROVE ThroughInv'
    BY <1>5 DEF ThroughInv, Beating, BeatRefreshes, BeatFindsLoss, BeatBusy,
                BeatFails, rowVars
<1>6. ASSUME NEW r \in Procs, BeginWrite(r) \/ EndWrite(r) PROVE ThroughInv'
    BY <1>6 DEF ThroughInv, BeginWrite, EndWrite, rowVars
<1>7. ASSUME NEW r \in Procs, Release(r) PROVE ThroughInv'
    BY <1>7 DEF TypeOK, TokenInv, ThroughInv, Release, FreeOwn, Free, Busy,
                rowVars
<1>8. ASSUME NEW r \in Procs, Crash(r) PROVE ThroughInv'
    BY <1>8 DEF TypeOK, ThroughInv, Crash, rowVars
<1>9. CASE Tick \/ UNCHANGED vars
    BY <1>9 DEF ThroughInv, Tick, vars
<1> QED BY <1>1, <1>2, <1>3, <1>4, <1>5, <1>6, <1>7, <1>8, <1>9 DEF Next

\* NoRowLeftBehind for every instance on a store that no migration locks, and
\* for those on a locked store whose processes are not paused and all refresh
\* their leases: there the writer is the owner, and nobody else releases.
THEOREM NoRowEverLeft ==
    ASSUME ~StoreLocks \/ (Unreliable = {} /\ UnrefreshedTokens = {})
    PROVE  Spec => []NoRowLeftBehind
<1> DEFINE Timed == ~StoreLocks \/ LockedInv
           IInv == TypeOK /\ TokenInv /\ WriterInv /\ Timed /\ ThroughInv
<1>1. Init => IInv
  <2>1. Init => TypeOK /\ TokenInv
      BY LeaseAtFirst
  <2>2. Init => WriterInv /\ ThroughInv
      BY DEF Init, WriterInv, ThroughInv, Busy, Reliable
  <2>3. Init => LockedInv
      BY DEF Init, LockedInv
  <2> QED BY <2>1, <2>2, <2>3
<1>2. TypeOK /\ TokenInv /\ [Next]_vars => TypeOK' /\ TokenInv'
    BY TypeStep, TokenStep
<1>3. TypeOK /\ WriterInv /\ [Next]_vars => WriterInv'
    BY WriterStep
<1>4. TypeOK /\ TokenInv /\ Timed /\ [Next]_vars => Timed'
    BY LockedStep
<1>5. TypeOK /\ WriterInv /\ Timed /\ Busy =>
        owner = token[writer] /\ pc[writer] = "held"
    BY DEF TypeOK, WriterInv, LockedInv, Busy
<1>6. IInv /\ [Next]_vars => ThroughInv'
    BY <1>5, ThroughStep
<1>7. IInv /\ [Next]_vars => IInv'
    BY <1>2, <1>3, <1>4, <1>6
<1>8. IInv => NoRowLeftBehind
    BY DEF ThroughInv, NoRowLeftBehind
<1> QED BY <1>1, <1>7, <1>8, PTL DEF Spec

-----------------------------------------------------------------------------
(* RefusalIsJustified                                                      *)

\* A waiter about to insert is on its first attempt, was turned away by a
\* busy store within the window, or has just looked at the age of the row.
LookedInv ==
    \A p \in Reliable : pc[p] = "insert" =>
        left[p] = WaitTimeout \/ ~Expired \/ ~MayReclaim(p)

\* Every step keeps LookedInv: no time passes between the look and the insert.
LEMMA LookedStep == TypeOK /\ LookedInv /\ [Next]_vars => LookedInv'
<1> SUFFICES ASSUME TypeOK, LookedInv, [Next]_vars PROVE LookedInv'
    OBVIOUS
<1> USE ProcAssumption, TokenAssumption, TimeAssumption
        DEF TypeOK, LookedInv, Reliable, MayReclaim, rowVars
<1>0. age' = 0 => ~Expired'
    BY DEF Expired, Limit
<1>a. UNCHANGED rowVars => Expired' = Expired
    BY DEF Expired, Limit
<1>1. ASSUME NEW r \in Procs, NEW t \in Tokens, Start(r, t) PROVE LookedInv'
    BY <1>1, <1>a DEF Start
<1>2. ASSUME NEW r \in Procs, Acquiring(r) PROVE LookedInv'
  <2>1. CASE Wake(r)
      BY <2>1, <1>a DEF Wake, waitVars
  <2>2. CASE ReclaimExpired(r)
      BY <2>2, <1>a, <1>0 DEF ReclaimExpired, Free, waitVars
  <2>3. CASE ReclaimBusy(r) \/ TryAcquireBusy(r)
      BY <2>3, <1>a DEF ReclaimBusy, TryAcquireBusy, SawBusy, GiveUpOrSleep
  <2>4. CASE TryAcquire(r)
      BY <2>4, <1>0 DEF TryAcquire, waitVars
  <2>5. CASE TryAcquireHeld(r)
      BY <2>5, <1>a DEF TryAcquireHeld, GiveUpOrSleep
  <2>7. CASE OnAcquired(r)
      BY <2>7, <1>a DEF OnAcquired, waitVars
  <2> QED BY <1>2, <2>1, <2>2, <2>3, <2>4, <2>5, <2>7 DEF Acquiring
<1>3. ASSUME NEW r \in Procs, Interrupt(r) PROVE LookedInv'
    BY <1>3, <1>a, <1>0 DEF Interrupt, FreeOwn, Free
<1>4. ASSUME NEW r \in Procs, StoreError(r) PROVE LookedInv'
    BY <1>4, <1>a, <1>0 DEF StoreError, Free, waitVars
<1>5. ASSUME NEW r \in Procs, Beating(r) \/ BeatFails(r) PROVE LookedInv'
    BY <1>5, <1>a, <1>0 DEF Beating, BeatRefreshes, BeatFindsLoss, BeatBusy,
                            BeatFails, waitVars
<1>6. ASSUME NEW r \in Procs, BeginWrite(r) \/ EndWrite(r) PROVE LookedInv'
    BY <1>6, <1>a DEF BeginWrite, EndWrite, waitVars
<1>7. ASSUME NEW r \in Procs, Release(r) PROVE LookedInv'
    BY <1>7, <1>a, <1>0 DEF Release, FreeOwn, Free, waitVars
<1>8. ASSUME NEW r \in Procs, Crash(r) PROVE LookedInv'
    BY <1>8, <1>a DEF Crash
<1>9. CASE Tick
    BY <1>9 DEF Tick, Timely
<1>10. CASE UNCHANGED vars
    BY <1>10, <1>a DEF vars
<1> QED BY <1>1, <1>2, <1>3, <1>4, <1>5, <1>6, <1>7, <1>8, <1>9, <1>10
        DEF Next

\* What RefusalIsJustified asks of a step.
JustifiedStep ==
    \A p \in Reliable :
        TryAcquireHeld(p) /\ pc'[p] = "idle" =>
            ~Expired \/ ~MayReclaim(p) \/ WaitTimeout = 0

\* RefusalIsJustified for every instance, the safety part of EveryoneLearns:
\* the waiter that gives up at its deadline looked at the row on its last
\* attempt, whatever paused or killed processes do around it.
THEOREM RefusalsAreJustified == Spec => RefusalIsJustified
<1> DEFINE IInv == TypeOK /\ LookedInv
<1>1. Init => IInv
    BY LeaseAtFirst DEF Init, LookedInv, Reliable
<1>2. IInv /\ [Next]_vars => IInv'
    BY TypeStep, LookedStep
<1>3. IInv /\ [Next]_vars => JustifiedStep
    BY DEF TypeOK, LookedInv, JustifiedStep, TryAcquireHeld, GiveUpOrSleep,
           Reliable
<1>4. JustifiedStep =>
        [\A p \in Reliable :
            TryAcquireHeld(p) /\ pc'[p] = "idle" =>
              \/ ~Expired
              \/ ~MayReclaim(p)
              \/ WaitTimeout = 0]_vars
    BY DEF JustifiedStep
<1> QED BY <1>1, <1>2, <1>3, <1>4, PTL DEF Spec, RefusalIsJustified
=============================================================================
