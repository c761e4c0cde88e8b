--------------------------- MODULE MigrateRunProofs ---------------------------
(***************************************************************************)
(* Proofs about MigrateRun for every set of processes, tokens and scripts. *)
(***************************************************************************)
EXTENDS MigrateRun, WellFoundedInduction, TLAPS

-----------------------------------------------------------------------------
(* The lock while every holder is live                                     *)

\* The part of the types that the lock is about.
LockTypes ==
    /\ lease \in Tokens \cup {NoToken}
    /\ pc \in [Procs -> Gone \cup Locked \cup {"acquire", "import"}]
    /\ token \in [Procs -> Tokens \cup {NoToken}]

\* A token belongs to one process, and the process that is past the lock
\* holds it.
HolderInv ==
    /\ \A p \in Procs : pc[p] \in Locked \cup {"acquire"} => token[p] # NoToken
    /\ \A p, q \in Procs : token[p] = token[q] /\ token[p] # NoToken => p = q
    /\ \A p \in Procs : pc[p] \in Locked => lease = token[p]
    /\ \A p \in Procs : pc[p] # "import"

\* The process of a step goes to one of a few places, the others stay.
LEMMA MovesOne ==
    ASSUME LockTypes, NEW p \in Procs, NEW l, Go(p, l)
    PROVE  pc'[p] = l /\ \A q \in Procs \ {p} : pc'[q] = pc[q]
BY DEF LockTypes, Go

\* A step that keeps lease and tokens and lets a process that is past the
\* lock move to where it may be keeps both invariants.
LEMMA StaysLocked ==
    ASSUME LockTypes, HolderInv, NEW p \in Procs, pc[p] \in Locked,
           NEW l \in Locked, Go(p, l), UNCHANGED <<lease, token>>
    PROVE  LockTypes' /\ HolderInv'
<1>1. pc'[p] = l /\ \A q \in Procs \ {p} : pc'[q] = pc[q]
    BY MovesOne
<1>2. LockTypes'
    BY DEF LockTypes, Go
<1> QED BY <1>1, <1>2 DEF HolderInv, Locked, Writing

\* A process that goes away, with or without releasing, keeps both.
LEMMA GoesAway ==
    ASSUME LockTypes, HolderInv, NEW p \in Procs, NEW l \in Gone, Go(p, l),
           UNCHANGED token, lease' = lease \/ (lease = token[p] /\ lease' = NoToken)
    PROVE  LockTypes' /\ HolderInv'
<1>1. pc'[p] = l /\ \A q \in Procs \ {p} : pc'[q] = pc[q]
    BY MovesOne
<1>2. LockTypes'
    BY DEF LockTypes, Go
<1>3. \A q \in Procs \ {p} : pc[q] \in Locked => lease # token[p]
    BY DEF HolderInv
<1> QED BY <1>1, <1>2, <1>3 DEF HolderInv, Gone, Locked, Writing

\* Every step keeps the lock with the one process that is past it.
LEMMA HolderStep ==
    ASSUME Unreliable = {}, "import" \notin Commands
    PROVE  LockTypes /\ HolderInv /\ [Next]_vars => LockTypes' /\ HolderInv'
<1> SUFFICES ASSUME LockTypes, HolderInv, [Next]_vars
             PROVE  LockTypes' /\ HolderInv'
    OBVIOUS
<1>1. ASSUME NEW p \in Procs, NEW c \in Commands, NEW t \in Tokens,
             Start(p, c, t)
      PROVE  LockTypes' /\ HolderInv'
  <2>1. Go(p, "acquire") /\ token' = [token EXCEPT ![p] = t] /\ lease' = lease
      BY <1>1 DEF Start, lockVars
  <2>2. pc'[p] = "acquire" /\ \A q \in Procs \ {p} : pc'[q] = pc[q]
      BY <2>1, MovesOne
  <2>3. LockTypes'
      BY <2>1 DEF LockTypes, Go
  <2>4. token'[p] = t /\ \A q \in Procs \ {p} : token'[q] = token[q]
      BY <2>1 DEF LockTypes
  <2>5. t # NoToken /\ \A q \in Procs : token[q] # t
      BY <1>1, RunTokenAssumption DEF Start
  <2> QED BY <2>1, <2>2, <2>3, <2>4, <2>5 DEF HolderInv, Locked, Writing
<1>2. ASSUME NEW p \in Procs, Acquire(p) PROVE LockTypes' /\ HolderInv'
  <2>1. /\ Go(p, "locked") /\ UNCHANGED token
        /\ pc[p] = "acquire" /\ lease = NoToken /\ lease' = token[p]
      BY <1>2 DEF Acquire, Lock!Grant, runVars
  <2>2. pc'[p] = "locked" /\ \A q \in Procs \ {p} : pc'[q] = pc[q]
      BY <2>1, MovesOne
  <2>3. LockTypes'
      BY <2>1 DEF LockTypes, Go, Locked
  <2>4. \A q \in Procs : pc[q] \notin Locked
      BY <2>1 DEF HolderInv
  <2> QED BY <2>1, <2>2, <2>3, <2>4 DEF HolderInv, Locked, Writing
<1>3. ASSUME NEW p \in Procs, Refused(p) PROVE LockTypes' /\ HolderInv'
    BY <1>3, GoesAway DEF Refused, Lock!Abandon, runVars, Gone
<1>4. ASSUME NEW p \in Procs, PlanAgain(p) PROVE LockTypes' /\ HolderInv'
  <2>1. pc[p] \in Locked /\ UNCHANGED <<lease, token>>
      BY <1>4 DEF PlanAgain, Locked, lockVars, runVars
  <2>2. \E l \in Locked : Go(p, l)
      BY <1>4 DEF PlanAgain, Locked, Writing
  <2> QED BY <2>1, <2>2, StaysLocked
<1>5. ASSUME NEW p \in Procs, Leave(p) \/ Interrupt(p)
      PROVE  LockTypes' /\ HolderInv'
    BY <1>5, GoesAway DEF Leave, Interrupt, Release, lockVars, runVars, Gone
<1>6. ASSUME NEW p \in Procs, Crash(p) PROVE LockTypes' /\ HolderInv'
    BY <1>6, GoesAway DEF Crash, lockVars, runVars, Gone
<1>7. ASSUME NEW p \in Procs, Migrating(p) PROVE LockTypes' /\ HolderInv'
  <2>1. CASE Execute(p)
      BY <2>1 DEF Execute, LockTypes, HolderInv, lockVars, runVars
  <2>2. CASE ~Execute(p)
    <3>1. pc[p] \in Locked /\ UNCHANGED <<lease, token>>
        BY <1>7, <2>2 DEF Migrating, NextScript, LoopEnds, StatementFails,
              RecordFailure, RecordAndCommit, RecordFails, Locked, Writing,
              lockVars, runVars
    <3>2. \E l \in Locked : Go(p, l)
        BY <1>7, <2>2 DEF Migrating, NextScript, LoopEnds, StatementFails,
              RecordFailure, RecordAndCommit, RecordFails, Locked, Writing
    <3> QED BY <3>1, <3>2, StaysLocked
  <2> QED BY <2>1, <2>2
<1>8. ASSUME NEW p \in Procs,
             MarkScript(p) \/ MarkFails(p) \/ RepairRows(p) \/ RepairFails(p)
      PROVE  LockTypes' /\ HolderInv'
  <2>1. pc[p] \in Locked /\ UNCHANGED <<lease, token>>
      BY <1>8 DEF MarkScript, MarkFails, RepairRows, RepairFails, Locked,
                  Writing, lockVars, runVars
  <2>2. \E l \in Locked : Go(p, l)
      BY <1>8 DEF MarkScript, MarkFails, RepairRows, RepairFails, Locked,
                  Writing
  <2> QED BY <2>1, <2>2, StaysLocked
<1>9. ASSUME NEW p \in Procs PROVE ~ImportRow(p) /\ ~ImportFails(p)
    BY DEF ImportRow, ImportFails, HolderInv
<1>10. ASSUME NEW p \in Procs PROVE ~NoticeLoss(p)
    BY DEF NoticeLoss
<1>11. ASSUME Expire PROVE LockTypes' /\ HolderInv'
  <2>1. UNCHANGED <<pc, token>> /\ lease' = NoToken /\ lease # NoToken
      BY <1>11 DEF Expire, runVars
  <2>2. \A p \in Procs : pc[p] \notin Locked
      BY <1>11 DEF Expire, HolderInv, Gone, Locked, Writing
  <2> QED BY <2>1, <2>2 DEF LockTypes, HolderInv
<1>12. CASE UNCHANGED vars
    BY <1>12 DEF vars, LockTypes, HolderInv
<1> QED BY <1>1, <1>2, <1>3, <1>4, <1>5, <1>6, <1>7, <1>8, <1>9, <1>10,
           <1>11, <1>12 DEF Next

\* SoleHistoryWriter for every instance with live holders and without
\* import-flyway: between its plan and its last write a command is alone.
THEOREM WritersAreAlone ==
    ASSUME Unreliable = {}, "import" \notin Commands
    PROVE  Spec => []SoleHistoryWriter
<1> DEFINE IInv == LockTypes /\ HolderInv
<1>1. Init => IInv
    BY DEF Init, LockTypes, HolderInv, Gone, Locked, Writing
<1>2. IInv /\ [Next]_vars => IInv'
    BY HolderStep
<1>3. IInv => SoleHistoryWriter
  <2> SUFFICES ASSUME LockTypes, HolderInv, NEW p \in Procs, NEW q \in Procs,
                      pc[p] \in Writing, pc[q] \in Writing \cup {"import"}
               PROVE  p = q
      BY DEF SoleHistoryWriter
  <2>1. pc[p] \in Locked /\ pc[q] \in Locked
      BY DEF HolderInv, Locked
  <2>2. token[p] = token[q] /\ token[p] # NoToken
      BY <2>1 DEF HolderInv
  <2> QED BY <2>2 DEF HolderInv
<1> QED BY <1>1, <1>2, <1>3, PTL DEF Spec

-----------------------------------------------------------------------------
(* Types                                                                   *)

\* A set of versions that is not empty has a first one.
LEMMA FirstIsLeast ==
    ASSUME NEW S \in SUBSET AllVersions, S # {}
    PROVE  First(S) \in S /\ \A w \in S : First(S) <= w
<1>1. S \in SUBSET Nat
    BY RunAssumption DEF AllVersions
<1>2. PICK v \in S : \A w \in S : <<w, v>> \notin OpToRel(<, Nat)
    BY <1>1, NatLessThanWellFounded, WFMin
<1>3. \A w \in S : v <= w
  <2> SUFFICES ASSUME NEW w \in S, ~(v <= w) PROVE FALSE
      OBVIOUS
  <2>1. w < v /\ w \in Nat /\ v \in Nat
      BY <1>1
  <2>2. <<w, v>> \in OpToRel(<, Nat)
      BY <2>1 DEF OpToRel
  <2> QED BY <1>2, <2>2
<1> QED BY <1>3 DEF First

\* ... and so has a plan.
LEMMA PlanHasFirst ==
    ASSUME Typed, NEW p \in Procs, todo[p] # {}
    PROVE  /\ First(todo[p]) \in todo[p]
           /\ First(todo[p]) \in AllVersions
           /\ First(todo[p]) \in 0 .. Versions
           /\ \A w \in todo[p] : First(todo[p]) <= w
<1>1. todo[p] \in SUBSET AllVersions
    BY DEF Typed
<1>2. First(todo[p]) \in todo[p] /\ \A w \in todo[p] : First(todo[p]) <= w
    BY <1>1, FirstIsLeast
<1>3. AllVersions \subseteq 0 .. Versions
    BY RunAssumption DEF AllVersions
<1> QED BY <1>1, <1>2, <1>3

\* A step of p is nothing to the other processes.
Alone(p) ==
    \A q \in Procs \ {p} :
        /\ pc'[q] = pc[q] /\ todo'[q] = todo[q] /\ at'[q] = at[q]
        /\ done'[q] = done[q] /\ work'[q] = work[q] /\ report'[q] = report[q]
        /\ cmd'[q] = cmd[q] /\ token'[q] = token[q]

Step(p) ==
    \/ \E c \in Commands, t \in Tokens : Start(p, c, t)
    \/ Acquire(p) \/ Refused(p) \/ PlanAgain(p) \/ Leave(p)
    \/ Migrating(p)
    \/ MarkScript(p) \/ MarkFails(p)
    \/ RepairRows(p) \/ RepairFails(p)
    \/ ImportRow(p) \/ ImportFails(p)
    \/ Interrupt(p) \/ Crash(p) \/ NoticeLoss(p)

\* A step of one process leaves what the others know.
LEMMA StepsAreAlone ==
    ASSUME Typed, NEW p \in Procs, Step(p)
    PROVE  Alone(p)
<1> USE DEF Typed, Alone, Go, lockVars, dbVars, runVars, stepVars
<1>1. ASSUME NEW c \in Commands, NEW t \in Tokens, Start(p, c, t) PROVE Alone(p)
    BY <1>1 DEF Start
<1>2. CASE Acquire(p) \/ Refused(p) \/ PlanAgain(p) \/ Leave(p)
    BY <1>2 DEF Acquire, Refused, PlanAgain, Leave
<1>3. CASE Migrating(p)
    BY <1>3 DEF Migrating, NextScript, LoopEnds, Execute, StatementFails,
                RecordFailure, RecordAndCommit, RecordFails
<1>4. CASE MarkScript(p) \/ MarkFails(p) \/ RepairRows(p) \/ RepairFails(p) \/ ImportRow(p) \/ ImportFails(p)
    BY <1>4 DEF MarkScript, MarkFails, RepairRows, RepairFails, ImportRow, ImportFails
<1>5. CASE Interrupt(p) \/ Crash(p) \/ NoticeLoss(p)
    BY <1>5 DEF Interrupt, Crash, NoticeLoss
<1> QED BY <1>1, <1>2, <1>3, <1>4, <1>5 DEF Step

\* A step is one of some process, an expiry, or nothing.
LEMMA StepsOfNext ==
    [Next]_vars => (\E p \in Procs : Step(p)) \/ Expire \/ UNCHANGED vars
BY DEF Next, Step

\* The shapes of the variables after a step of one process.
LEMMA StepsAreTyped ==
    ASSUME TypeOK, NEW p \in Procs, Step(p)
    PROVE  Typed'
<1> USE DEF TypeOK, Typed, Go, lockVars, dbVars, runVars, stepVars, Gone, Locked, Writing
<1>1. ASSUME NEW c \in Commands, NEW t \in Tokens, Start(p, c, t) PROVE Typed'
  <2>1. Pending \subseteq AllVersions /\ ToImport \subseteq AllVersions
      BY RunAssumption DEF Pending, ToImport, AllVersions
  <2>2. \E S \in SUBSET AllVersions : todo' = [todo EXCEPT ![p] = S]
      BY <1>1, <2>1 DEF Start
  <2>3. token' = token \/ token' = [token EXCEPT ![p] = t]
      BY <1>1 DEF Start
  <2>4. \E l \in {"acquire", "import"} : pc' = [pc EXCEPT ![p] = l]
      BY <1>1 DEF Start
  <2>5. todo' \in [Procs -> SUBSET AllVersions] /\ token' \in [Procs -> Tokens \cup {NoToken}]
      BY <2>2, <2>3
  <2> QED BY <1>1, <2>4, <2>5 DEF Start
<1>2. CASE Acquire(p)
    BY <1>2 DEF Acquire, Lock!Grant, Progress
<1>3. CASE Refused(p)
    BY <1>3 DEF Refused, Lock!Abandon, Progress
<1>4. CASE PlanAgain(p)
    BY <1>4 DEF PlanAgain, Pending
<1>5. CASE Leave(p)
    BY <1>5 DEF Leave, Release
<1>6. CASE Interrupt(p)
    BY <1>6 DEF Interrupt, Release
<1>7. CASE NextScript(p)
  <2>1. First(todo[p]) \in 0 .. Versions
      BY <1>7, PlanHasFirst DEF NextScript
  <2> QED BY <1>7, <2>1 DEF NextScript
<1>8. CASE LoopEnds(p)
  <2>1. pc[p] = "fail" => at[p] \in AllVersions
      BY DEF Progress
  <2> QED BY <1>8, <2>1 DEF LoopEnds
<1>9. CASE StatementFails(p)
  <2>1. pc[p] = "fail" => at[p] \in AllVersions
      BY DEF Progress
  <2> QED BY <1>9, <2>1 DEF StatementFails
<1>10. CASE RecordFailure(p)
  <2>1. pc[p] = "fail" => at[p] \in AllVersions
      BY DEF Progress
  <2> QED BY <1>10, <2>1 DEF RecordFailure
<1>11. CASE Execute(p)
  <2>1. at[p] \in AllVersions
      BY <1>11 DEF Progress, Execute
  <2>2. \/ effects' = [effects EXCEPT ![at[p]] = @ + 1] /\ work' = work
        \/ effects' = effects /\ work' = [work EXCEPT ![p] = @ + 1]
      BY <1>11 DEF Execute
  <2>3. effects' \in [AllVersions -> Nat]
      BY <2>1, <2>2
  <2>4. work' \in [Procs -> Nat] /\ done' \in [Procs -> Nat]
      BY <1>11, <2>2 DEF Execute
  <2> QED BY <1>11, <2>3, <2>4 DEF Execute
<1>12. CASE RecordAndCommit(p)
  <2>1. at[p] \in AllVersions
      BY <1>12 DEF Progress, RecordAndCommit
  <2>2. Commits(p) => ok' \in [AllVersions -> Nat] /\ effects' \in [AllVersions -> Nat] /\ failed' = failed
      BY <2>1 DEF Commits
  <2> QED BY <1>12, <2>1, <2>2 DEF RecordAndCommit
<1>13. CASE RecordFails(p)
  <2>1. at[p] \in AllVersions
      BY <1>13 DEF Progress, RecordFails
  <2>2. Commits(p) => ok' \in [AllVersions -> Nat] /\ effects' \in [AllVersions -> Nat] /\ failed' = failed
      BY <2>1 DEF Commits
  <2>3. ok' \in [AllVersions -> Nat] /\ effects' \in [AllVersions -> Nat] /\ failed' = failed
      BY <1>13, <2>2 DEF RecordFails
  <2> QED BY <1>13, <2>3 DEF RecordFails
<1>14. CASE MarkScript(p)
  <2>1. todo[p] # {}
      BY <1>14 DEF Progress, MarkScript
  <2>2. First(todo[p]) \in AllVersions
      BY <2>1, PlanHasFirst
  <2> DEFINE v == First(todo[p])
  <2>3. ok' = [ok EXCEPT ![v] = @ + 1] /\ v \in AllVersions
      BY <1>14, <2>2 DEF MarkScript
  <2>4. report' = [report EXCEPT ![p] = @ \cup {v}] /\ todo' = [todo EXCEPT ![p] = @ \ {v}]
      BY <1>14 DEF MarkScript
  <2>5. \E l \in {"leave", "mark"} : pc' = [pc EXCEPT ![p] = l]
      BY <1>14 DEF MarkScript
  <2> HIDE DEF v
  <2>6. report' \in [Procs -> SUBSET AllVersions] /\ todo' \in [Procs -> SUBSET AllVersions]
      BY <2>3, <2>4
  <2> QED BY <1>14, <2>3, <2>5, <2>6 DEF MarkScript
<1>15. CASE ImportRow(p)
  <2>1. todo[p] # {}
      BY <1>15 DEF Progress, ImportRow
  <2>2. First(todo[p]) \in AllVersions
      BY <2>1, PlanHasFirst
  <2> DEFINE v == First(todo[p])
  <2>3. ok' = [ok EXCEPT ![v] = @ + 1] /\ v \in AllVersions
      BY <1>15, <2>2 DEF ImportRow
  <2>4. todo' = [todo EXCEPT ![p] = @ \ {v}]
      BY <1>15 DEF ImportRow
  <2>5. \E l \in {"idle", "import"} : pc' = [pc EXCEPT ![p] = l]
      BY <1>15 DEF ImportRow
  <2> HIDE DEF v
  <2>6. todo' \in [Procs -> SUBSET AllVersions]
      BY <2>3, <2>4
  <2> QED BY <1>15, <2>3, <2>5, <2>6 DEF ImportRow
<1>16. CASE MarkFails(p)
    BY <1>16 DEF MarkFails
<1>17. CASE RepairRows(p)
    BY <1>17 DEF RepairRows
<1>18. CASE RepairFails(p)
    BY <1>18 DEF RepairFails
<1>19. CASE ImportFails(p)
    BY <1>19 DEF ImportFails
<1>20. CASE Crash(p)
    BY <1>20 DEF Crash
<1>21. CASE NoticeLoss(p)
    BY <1>21 DEF NoticeLoss
<1> QED BY <1>1, <1>2, <1>3, <1>4, <1>5, <1>6, <1>7, <1>8, <1>9, <1>10, <1>11,
           <1>12, <1>13, <1>14, <1>15, <1>16, <1>17, <1>18, <1>19, <1>20, <1>21 DEF
           Step, Migrating

\* Where the process of a step is afterwards.
LEMMA StepsProgress ==
    ASSUME TypeOK, NEW p \in Procs, Step(p)
    PROVE  Progress(p)'
<1> USE RunAssumption
    DEF TypeOK, Typed, Progress, Go, lockVars, dbVars, runVars, stepVars, Gone, Locked, Writing, AllVersions
<1>1. ASSUME NEW c \in Commands, NEW t \in Tokens, Start(p, c, t) PROVE Progress(p)'
    BY <1>1 DEF Start
<1>2. CASE Acquire(p)
    BY <1>2 DEF Acquire
<1>3. CASE Refused(p)
    BY <1>3 DEF Refused
<1>4. CASE PlanAgain(p)
    BY <1>4 DEF PlanAgain
<1>5. CASE Leave(p)
    BY <1>5 DEF Leave
<1>6. CASE Interrupt(p)
    BY <1>6 DEF Interrupt
<1>7. CASE Crash(p)
    BY <1>7 DEF Crash
<1>8. CASE NextScript(p)
  <2>1. First(todo[p]) \in todo[p] /\ First(todo[p]) \in AllVersions
      BY <1>8, PlanHasFirst DEF NextScript
  <2>2. Size[First(todo[p])] \in Nat
      BY <2>1
  <2>3. pc'[p] = "run" /\ at'[p] = First(todo[p]) /\ done'[p] = 0 /\ work'[p] = 0 /\ todo'[p] = todo[p]
      BY <1>8 DEF NextScript
  <2> QED BY <2>1, <2>2, <2>3
<1>9. CASE LoopEnds(p)
    BY <1>9 DEF LoopEnds
<1>10. CASE StatementFails(p)
    BY <1>10 DEF StatementFails
<1>11. CASE RecordFailure(p)
    BY <1>11 DEF RecordFailure
<1>12. CASE Execute(p)
    BY <1>12 DEF Execute
<1>13. CASE RecordAndCommit(p)
    BY <1>13 DEF RecordAndCommit
<1>14. CASE RecordFails(p)
    BY <1>14 DEF RecordFails
<1>15. CASE MarkScript(p)
  <2> DEFINE v == First(todo[p])
  <2>1. todo'[p] = todo[p] \ {v} /\ work' = work /\ work[p] = 0
      BY <1>15 DEF MarkScript
  <2>2. pc'[p] = IF todo[p] = {v} THEN "leave" ELSE "mark"
      BY <1>15 DEF MarkScript
  <2>3. todo[p] # {}
      BY <1>15 DEF MarkScript
  <2> HIDE DEF v
  <2>4. pc'[p] = "mark" => todo'[p] # {}
      BY <2>1, <2>2, <2>3
  <2> QED BY <2>1, <2>2, <2>4
<1>16. CASE ImportRow(p)
  <2> DEFINE v == First(todo[p])
  <2>1. todo'[p] = todo[p] \ {v} /\ work' = work /\ work[p] = 0
      BY <1>16 DEF ImportRow
  <2>2. pc'[p] = IF todo[p] = {v} THEN "idle" ELSE "import"
      BY <1>16 DEF ImportRow
  <2>3. todo[p] # {}
      BY <1>16 DEF ImportRow
  <2> HIDE DEF v
  <2>4. pc'[p] = "import" => todo'[p] # {}
      BY <2>1, <2>2, <2>3
  <2> QED BY <2>1, <2>2, <2>4
<1>17. CASE MarkFails(p)
    BY <1>17 DEF MarkFails
<1>18. CASE RepairRows(p)
    BY <1>18 DEF RepairRows
<1>19. CASE RepairFails(p)
    BY <1>19 DEF RepairFails
<1>20. CASE ImportFails(p)
    BY <1>20 DEF ImportFails
<1>21. CASE NoticeLoss(p)
    BY <1>21 DEF NoticeLoss
<1> QED BY <1>1, <1>2, <1>3, <1>4, <1>5, <1>6, <1>7, <1>8, <1>9, <1>10, <1>11,
           <1>12, <1>13, <1>14, <1>15, <1>16, <1>17, <1>18, <1>19, <1>20, <1>21 DEF
           Step, Migrating

\* The types at the start.
LEMMA TypesAtFirst == Init => TypeOK
BY RunTokenAssumption, RunAssumption
   DEF Init, TypeOK, Typed, Progress, Gone, AllVersions

\* Every step keeps the types.
LEMMA TypesStep == TypeOK /\ [Next]_vars => TypeOK'
<1> SUFFICES ASSUME TypeOK, [Next]_vars PROVE TypeOK'
    OBVIOUS
<1>1. ASSUME NEW p \in Procs, Step(p) PROVE TypeOK'
  <2>1. Typed' /\ Progress(p)' /\ Alone(p)
      BY <1>1, StepsAreTyped, StepsProgress, StepsAreAlone DEF TypeOK
  <2>2. \A q \in Procs \ {p} : Progress(q)'
      BY <2>1 DEF TypeOK, Progress, Alone
  <2> QED BY <2>1, <2>2 DEF TypeOK
<1>2. CASE Expire
    BY <1>2, RunTokenAssumption DEF Expire, TypeOK, Typed, Progress, dbVars, runVars, stepVars
<1>3. CASE UNCHANGED vars
    BY <1>3 DEF vars, TypeOK, Typed, Progress
<1> QED BY <1>1, <1>2, <1>3, StepsOfNext

\* Every reachable state is well typed, with or without live holders: a
\* process never has more statements open than it ran of the script it is in.
THEOREM RunTyping == Spec => []TypeOK
BY TypesAtFirst, TypesStep, PTL DEF Spec

-----------------------------------------------------------------------------
(* Who writes what                                                         *)

\* SUCCESS rows are written at the end of a script, with its effects, or one
\* by one for the first version of a plan.
LEMMA RowsWritten ==
    ASSUME NEW p \in Procs, Step(p)
    PROVE  \/ ok' = ok
           \/ /\ pc[p] = "run" /\ done[p] = Size[at[p]]
              /\ Commits(p)
           \/ /\ pc[p] \in {"mark", "import"}
              /\ ok' = [ok EXCEPT ![First(todo[p])] = @ + 1]
              /\ UNCHANGED effects
<1> USE DEF dbVars
<1>1. CASE RecordAndCommit(p) \/ RecordFails(p)
    BY <1>1 DEF RecordAndCommit, RecordFails
<1>2. CASE MarkScript(p) \/ ImportRow(p)
    BY <1>2 DEF MarkScript, ImportRow
<1>3. CASE Migrating(p) /\ ~(RecordAndCommit(p) \/ RecordFails(p))
    BY <1>3 DEF Migrating, NextScript, LoopEnds, Execute, StatementFails, RecordFailure
<1>4. ASSUME NEW c \in Commands, NEW t \in Tokens, Start(p, c, t) PROVE ok' = ok
    BY <1>4 DEF Start
<1>5. CASE Acquire(p) \/ Refused(p) \/ PlanAgain(p) \/ Leave(p)
    BY <1>5 DEF Acquire, Refused, PlanAgain, Leave
<1>6. CASE MarkFails(p) \/ RepairRows(p) \/ RepairFails(p) \/ ImportFails(p)
    BY <1>6 DEF MarkFails, RepairRows, RepairFails, ImportFails
<1>7. CASE Interrupt(p) \/ Crash(p) \/ NoticeLoss(p)
    BY <1>7 DEF Interrupt, Crash, NoticeLoss
<1> QED BY <1>1, <1>2, <1>3, <1>4, <1>5, <1>6, <1>7 DEF Step

\* Effects come from a statement outside a transaction and from a commit.
LEMMA EffectsWritten ==
    ASSUME NEW p \in Procs, Step(p)
    PROVE  \/ effects' = effects
           \/ /\ pc[p] = "run" /\ Immediate(at[p])
              /\ effects' = [effects EXCEPT ![at[p]] = @ + 1]
           \/ /\ pc[p] = "run" /\ done[p] = Size[at[p]]
              /\ Commits(p)
<1> USE DEF dbVars
<1>1. CASE RecordAndCommit(p) \/ RecordFails(p)
    BY <1>1 DEF RecordAndCommit, RecordFails
<1>2. CASE Execute(p)
    BY <1>2 DEF Execute
<1>3. CASE Migrating(p) /\ ~(RecordAndCommit(p) \/ RecordFails(p) \/ Execute(p))
    BY <1>3 DEF Migrating, NextScript, LoopEnds, StatementFails, RecordFailure
<1>4. ASSUME NEW c \in Commands, NEW t \in Tokens, Start(p, c, t) PROVE effects' = effects
    BY <1>4 DEF Start
<1>5. CASE Acquire(p) \/ Refused(p) \/ PlanAgain(p) \/ Leave(p)
    BY <1>5 DEF Acquire, Refused, PlanAgain, Leave
<1>6. CASE MarkScript(p) \/ MarkFails(p) \/ RepairRows(p) \/ RepairFails(p)
           \/ ImportRow(p) \/ ImportFails(p)
    BY <1>6 DEF MarkScript, MarkFails, RepairRows, RepairFails, ImportRow, ImportFails
<1>7. CASE Interrupt(p) \/ Crash(p) \/ NoticeLoss(p)
    BY <1>7 DEF Interrupt, Crash, NoticeLoss
<1> QED BY <1>1, <1>2, <1>3, <1>4, <1>5, <1>6, <1>7 DEF Step

\* A script runs on, or it is the next one.
LEMMA StepsIntoRun ==
    ASSUME Typed, NEW p \in Procs, Step(p), pc'[p] = "run"
    PROVE  NextScript(p) \/ Execute(p) \/ NoticeLoss(p)
<1> USE DEF Typed, Go
<1>1. ASSUME NEW c \in Commands, NEW t \in Tokens, Start(p, c, t) PROVE FALSE
    BY <1>1 DEF Start
<1>2. ~Acquire(p) /\ ~Refused(p) /\ ~PlanAgain(p) /\ ~Leave(p)
    BY DEF Acquire, Refused, PlanAgain, Leave
<1>3. ~LoopEnds(p) /\ ~StatementFails(p) /\ ~RecordFailure(p) /\ ~RecordAndCommit(p) /\ ~RecordFails(p)
    BY DEF LoopEnds, StatementFails, RecordFailure, RecordAndCommit, RecordFails
<1>4. ~MarkScript(p) /\ ~MarkFails(p) /\ ~RepairRows(p) /\ ~RepairFails(p) /\ ~ImportRow(p) /\ ~ImportFails(p)
    BY DEF MarkScript, MarkFails, RepairRows, RepairFails, ImportRow, ImportFails
<1>5. ~Interrupt(p) /\ ~Crash(p)
    BY DEF Interrupt, Crash
<1> QED BY <1>1, <1>2, <1>3, <1>4, <1>5 DEF Step, Migrating

-----------------------------------------------------------------------------
(* Rows stay                                                               *)

\* AppliedStays for every instance: nothing takes a SUCCESS row out, also
\* when a repair works from a plan that went stale.
THEOREM RowsStay == Spec => AppliedStays
<1> DEFINE Stays == \A v \in AllVersions : ok'[v] >= ok[v]
<1>1. TypeOK /\ [Next]_vars => Stays
  <2> SUFFICES ASSUME TypeOK, [Next]_vars PROVE Stays
      OBVIOUS
  <2>1. ok \in [AllVersions -> Nat]
      BY DEF TypeOK, Typed
  <2>2. CASE ok' = ok
      BY <2>1, <2>2
  <2>3. ASSUME NEW v, ok' = [ok EXCEPT ![v] = @ + 1] PROVE Stays
      BY <2>1, <2>3
  <2>4. CASE Expire \/ UNCHANGED vars
      BY <2>2, <2>4 DEF Expire, dbVars, vars
  <2>5. ASSUME NEW p \in Procs, Step(p) PROVE Stays
      BY <2>2, <2>3, <2>5, RowsWritten DEF Commits
  <2> QED BY <2>4, <2>5, StepsOfNext
<1>2. TypeOK /\ [Next]_vars => [Stays]_vars
    BY <1>1
<1> QED BY <1>2, RunTyping, PTL DEF Spec, AppliedStays

-----------------------------------------------------------------------------
(* Transactions                                                            *)

\* What a running script has not committed: all it did, or nothing when every
\* statement is committed at once.
Uncommitted(p) == pc[p] = "run" => work[p] = IF Immediate(at[p]) THEN 0 ELSE done[p]

\* A step keeps that.
LEMMA StepsUncommitted ==
    ASSUME TypeOK, \A q \in Procs : Uncommitted(q), NEW p \in Procs, Step(p)
    PROVE  \A q \in Procs : Uncommitted(q)'
<1>1. \A q \in Procs \ {p} : Uncommitted(q)'
    BY StepsAreAlone DEF TypeOK, Uncommitted, Alone, Immediate
<1>2. Uncommitted(p)'
  <2> SUFFICES ASSUME pc'[p] = "run"
               PROVE  work'[p] = IF Immediate(at'[p]) THEN 0 ELSE done'[p]
      BY DEF Uncommitted, Immediate
  <2>1. CASE NextScript(p)
    <3>1. work'[p] = 0 /\ done'[p] = 0
        BY <2>1 DEF NextScript, TypeOK, Typed, Progress
    <3> QED BY <3>1
  <2>2. CASE Execute(p)
    <3>1. pc[p] = "run" /\ at' = at /\ done'[p] = done[p] + 1
        BY <2>2 DEF Execute, TypeOK, Typed
    <3>2. work'[p] = IF Immediate(at[p]) THEN work[p] ELSE work[p] + 1
        BY <2>2 DEF Execute, TypeOK, Typed
    <3> QED BY <3>1, <3>2 DEF Uncommitted
  <2>3. CASE NoticeLoss(p)
      BY <2>3 DEF NoticeLoss, stepVars, Uncommitted
  <2> QED BY <2>1, <2>2, <2>3, StepsIntoRun DEF TypeOK
<1> QED BY <1>1, <1>2

Whole(v) == \E n \in 0 .. effects[v] : effects[v] = n * Size[v]

AtomicInv ==
    /\ TypeOK
    /\ \A p \in Procs : Uncommitted(p)
    /\ \A v \in AllVersions : ~Immediate(v) => Whole(v)

\* One more execution of a whole script.
LEMMA OneMore ==
    ASSUME NEW e \in Nat, NEW s \in Nat \ {0}, NEW n \in 0 .. e, e = n * s
    PROVE  n + 1 \in 0 .. (e + s) /\ e + s = (n + 1) * s
<1>1. (n + 1) * s = n * s + s
    OBVIOUS
<1> QED BY <1>1

\* No step shows others a part of a script that runs in one transaction.
LEMMA AtomicStep == AtomicInv /\ [Next]_vars => AtomicInv'
<1> SUFFICES ASSUME AtomicInv, [Next]_vars PROVE AtomicInv'
    OBVIOUS
<1>1. TypeOK /\ TypeOK'
    BY TypesStep DEF AtomicInv
<1>2. ASSUME NEW p \in Procs, Step(p)
      PROVE  (\A q \in Procs : Uncommitted(q)') /\ \A v \in AllVersions : ~Immediate(v) => Whole(v)'
  <2>1. \A q \in Procs : Uncommitted(q)'
      BY <1>1, <1>2, StepsUncommitted DEF AtomicInv
  <2>2. ASSUME NEW v \in AllVersions, ~Immediate(v) PROVE Whole(v)'
    <3>1. effects[v] \in Nat /\ Size[v] \in Nat \ {0} /\ Whole(v)
        BY <1>1, <2>2, RunAssumption DEF TypeOK, Typed, AllVersions, AtomicInv
    <3>2. CASE effects'[v] = effects[v]
        BY <3>1, <3>2 DEF Whole
    <3>3. CASE pc[p] = "run" /\ at[p] = v /\ done[p] = Size[v] /\ Commits(p)
      <4>1. effects'[v] = effects[v] + work[p] /\ work[p] = Size[v]
        <5>1. effects' = [effects EXCEPT ![v] = @ + work[p]] /\ effects \in [AllVersions -> Nat]
            BY <1>1, <3>3 DEF Commits, TypeOK, Typed
        <5>2. work[p] = done[p]
            BY <2>2, <3>3 DEF AtomicInv, Uncommitted
        <5> QED BY <3>3, <5>1, <5>2
      <4>2. PICK n \in 0 .. effects[v] : effects[v] = n * Size[v]
          BY <3>1 DEF Whole
      <4>3. n + 1 \in 0 .. (effects[v] + Size[v]) /\ effects[v] + Size[v] = (n + 1) * Size[v]
          BY <3>1, <4>2, OneMore
      <4>4. effects'[v] = effects[v] + Size[v]
          BY <4>1
      <4> QED BY ONLY <4>3, <4>4 DEF Whole
    <3>4. CASE pc[p] = "run" /\ at[p] = v /\ Immediate(at[p])
        BY <2>2, <3>4
    <3> QED BY <1>1, <1>2, <3>2, <3>3, <3>4, EffectsWritten DEF Commits, TypeOK, Typed
  <2> QED BY <2>1, <2>2
<1>3. CASE Expire \/ UNCHANGED vars
  <2>1. UNCHANGED <<pc, at, done, work, effects>>
      BY <1>3 DEF Expire, vars, dbVars, stepVars
  <2>2. \A p \in Procs : Uncommitted(p)'
      BY <2>1 DEF AtomicInv, Uncommitted, Immediate
  <2>3. \A v \in AllVersions : ~Immediate(v) => Whole(v)'
      BY <2>1 DEF AtomicInv, Whole
  <2> QED BY <1>1, <2>2, <2>3 DEF AtomicInv, Immediate
<1> QED BY <1>1, <1>2, <1>3, StepsOfNext DEF AtomicInv, Immediate

\* AtomicScripts for every instance, whatever fails or is killed and however
\* many runs overlap: a script that a transaction protects is in the database
\* a whole number of times.
THEOREM ScriptsAreAtomic == Spec => []AtomicScripts
<1>1. Init => AtomicInv
  <2> SUFFICES ASSUME Init PROVE AtomicInv
      OBVIOUS
  <2>1. TypeOK
      BY TypesAtFirst
  <2>2. \A v \in AllVersions : Whole(v)
    <3> SUFFICES ASSUME NEW v \in AllVersions PROVE Whole(v)
        OBVIOUS
    <3>1. effects[v] = 0 /\ Size[v] \in Nat
        BY RunAssumption DEF Init, AllVersions
    <3> QED BY <3>1 DEF Whole
  <2> QED BY <2>1, <2>2 DEF Init, AtomicInv, Uncommitted
<1>2. AtomicInv => AtomicScripts
    BY DEF AtomicInv, AtomicScripts, Whole
<1> QED BY <1>1, <1>2, AtomicStep, PTL DEF Spec

-----------------------------------------------------------------------------
(* The order of the history                                                *)

\* What lies below a version that a process has to do is to do as well, or
\* done; the script it runs is its first.
Ordered(p) ==
    /\ pc[p] = "run" => \A w \in todo[p] : at[p] <= w
    /\ pc[p] \in {"loop", "run", "mark", "import"} =>
         \A v \in todo[p] : \A w \in AllVersions : w < v => w \in todo[p] \cup Applied
    /\ report[p] \subseteq Applied

OrderInv == TypeOK /\ AppliedInOrder /\ \A p \in Procs : Ordered(p)

\* A step adds at most one version, the first of a plan, and takes none away.
LEMMA AppliedGrows ==
    ASSUME OrderInv, NEW p \in Procs, Step(p)
    PROVE  \/ Applied' = Applied
           \/ \E v \in AllVersions :
                /\ Applied' = Applied \cup {v}
                /\ \A w \in AllVersions : w < v => w \in Applied
<1>1. Typed /\ Progress(p) /\ ok \in [AllVersions -> Nat]
    BY DEF OrderInv, TypeOK, Typed
<1>2. ASSUME NEW v \in AllVersions, ok' = [ok EXCEPT ![v] = @ + 1]
      PROVE  Applied' = Applied \cup {v}
    BY <1>1, <1>2 DEF Applied
<1>3. CASE ok' = ok
    BY <1>3 DEF Applied
<1>4. CASE pc[p] = "run" /\ Commits(p)
  <2>1. at[p] \in todo[p] /\ at[p] \in AllVersions
      BY <1>1, <1>4 DEF Progress, Typed
  <2>2. ASSUME NEW w \in AllVersions, w < at[p] PROVE w \in Applied
    <3>1. w \notin todo[p]
        BY <1>4, <2>1, <2>2, RunAssumption DEF OrderInv, Ordered, AllVersions
    <3> QED BY <1>4, <2>1, <2>2, <3>1 DEF OrderInv, Ordered
  <2> QED BY <1>2, <1>4, <2>1, <2>2 DEF Commits
<1>5. CASE pc[p] \in {"mark", "import"} /\ ok' = [ok EXCEPT ![First(todo[p])] = @ + 1]
  <2> DEFINE v == First(todo[p])
  <2>1. v \in todo[p] /\ v \in AllVersions /\ \A w \in todo[p] : v <= w
      BY <1>1, <1>5, PlanHasFirst DEF Progress
  <2>2. Applied' = Applied \cup {v}
      BY <1>2, <1>5, <2>1
  <2> HIDE DEF v
  <2>3. ASSUME NEW w \in AllVersions, w < v PROVE w \in Applied
    <3>1. w \notin todo[p]
        BY <2>1, <2>3, RunAssumption DEF AllVersions
    <3> QED BY <1>5, <2>1, <2>3, <3>1 DEF OrderInv, Ordered
  <2> QED BY <2>1, <2>2, <2>3
<1> QED BY <1>3, <1>4, <1>5, RowsWritten

\* The process of a step keeps its plan in order.
LEMMA StepsOrdered ==
    ASSUME FlywayApplied \subseteq {1} \/ "import" \notin Commands, OrderInv, NEW p \in Procs, Step(p), Applied \subseteq Applied'
    PROVE  Ordered(p)'
<1>1. Typed /\ Progress(p) /\ Ordered(p) /\ todo[p] \in SUBSET AllVersions
    BY DEF OrderInv, TypeOK, Typed
<1>2. ASSUME pc'[p] = "run" PROVE \A w \in todo'[p] : at'[p] <= w
  <2>1. CASE NextScript(p)
    <3>1. todo' = todo /\ at'[p] = First(todo[p]) /\ todo[p] # {}
        BY <1>1, <2>1 DEF NextScript, Typed
    <3> QED BY <1>1, <3>1, PlanHasFirst
  <2>2. CASE Execute(p) \/ NoticeLoss(p)
    <3>1. UNCHANGED <<todo, at>> /\ pc[p] = "run"
        BY <1>2, <2>2 DEF Execute, NoticeLoss, stepVars
    <3> QED BY <1>1, <3>1 DEF Ordered
  <2> QED BY <1>1, <1>2, <2>1, <2>2, StepsIntoRun
<1>3. ASSUME pc'[p] \in {"loop", "run", "mark", "import"}
      PROVE  \A v \in todo'[p] : \A w \in AllVersions : w < v => w \in todo'[p] \cup Applied'
  <2>1. CASE pc[p] \in {"loop", "run", "mark", "import"} /\ todo' = todo
      BY <1>1, <2>1 DEF Ordered
  <2>2. ASSUME NEW x, pc[p] \in {"loop", "run", "mark", "import"}, x \in Applied',
               todo'[p] = todo[p] \ {x}
        PROVE  \A v \in todo'[p] : \A w \in AllVersions : w < v => w \in todo'[p] \cup Applied'
      BY <1>1, <2>2 DEF Ordered
  <2>3. CASE PlanAgain(p)
    <3>1. todo'[p] = Pending /\ Applied' = Applied
        BY <1>1, <1>3, <2>3 DEF PlanAgain, Go, Typed, dbVars, Applied
    <3> QED BY <3>1 DEF Pending
  <2>4. ASSUME NEW c \in Commands, NEW t \in Tokens, Start(p, c, t)
        PROVE  \A v \in todo'[p] : \A w \in AllVersions : w < v => w \in todo'[p] \cup Applied'
    <3>1. todo'[p] = ToImport /\ c = "import"
        BY <1>1, <1>3, <2>4 DEF Start, Go, Typed
    <3>2. \A v \in todo'[p] : v = 1
        BY <3>1 DEF ToImport
    <3> QED BY <3>2, RunAssumption DEF AllVersions
  <2>5. CASE RecordAndCommit(p)
    <3>1. pc[p] = "run" /\ todo'[p] = todo[p] \ {at[p]} /\ ok' = [ok EXCEPT ![at[p]] = @ + 1]
        BY <1>1, <2>5 DEF RecordAndCommit, Commits, Typed
    <3>2. at[p] \in AllVersions
        BY <1>1, <3>1 DEF Progress, Typed
    <3>3. at[p] \in Applied'
        BY <1>1, <3>1, <3>2 DEF Applied, Typed
    <3> QED BY <2>2, <3>1, <3>3
  <2>6. CASE MarkScript(p) \/ ImportRow(p)
    <3> DEFINE x == First(todo[p])
    <3>1. pc[p] \in {"mark", "import"}
        BY <2>6 DEF MarkScript, ImportRow
    <3>2. x \in AllVersions
        BY <1>1, <3>1, PlanHasFirst DEF Progress
    <3>3. todo'[p] = todo[p] \ {x} /\ ok' = [ok EXCEPT ![x] = @ + 1]
        BY <1>1, <2>6 DEF MarkScript, ImportRow, Typed
    <3> HIDE DEF x
    <3>4. x \in Applied'
        BY <1>1, <3>2, <3>3 DEF Applied, Typed
    <3> QED BY <2>2, <3>1, <3>3, <3>4
  <2>7. CASE NextScript(p) \/ Execute(p) \/ NoticeLoss(p)
      BY <1>3, <2>1, <2>7 DEF NextScript, Execute, NoticeLoss
  <2>8. CASE Acquire(p) \/ Refused(p) \/ Leave(p) \/ LoopEnds(p) \/ StatementFails(p)
             \/ RecordFailure(p) \/ RecordFails(p)
      BY <1>1, <1>3, <2>8 DEF Acquire, Refused, Leave, LoopEnds, StatementFails, RecordFailure,
                              RecordFails, Go, Typed
  <2>9. CASE MarkFails(p) \/ RepairRows(p) \/ RepairFails(p) \/ ImportFails(p)
             \/ Interrupt(p) \/ Crash(p)
      BY <1>1, <1>3, <2>9 DEF MarkFails, RepairRows, RepairFails, ImportFails, Interrupt, Crash,
                              Go, Typed
  <2> QED BY <2>3, <2>4, <2>5, <2>6, <2>7, <2>8, <2>9 DEF Step, Migrating
<1>4. report'[p] \subseteq Applied'
  <2>1. CASE report'[p] \subseteq report[p]
      BY <1>1, <2>1 DEF Ordered
  <2>2. CASE RecordAndCommit(p)
    <3>1. pc[p] = "run" /\ report'[p] = report[p] \cup {at[p]} /\ ok' = [ok EXCEPT ![at[p]] = @ + 1]
        BY <1>1, <2>2 DEF RecordAndCommit, Commits, Typed
    <3>2. at[p] \in AllVersions
        BY <1>1, <3>1 DEF Progress, Typed
    <3>3. at[p] \in Applied'
        BY <1>1, <3>1, <3>2 DEF Applied, Typed
    <3> QED BY <1>1, <3>1, <3>3 DEF Ordered
  <2>3. CASE MarkScript(p)
    <3> DEFINE x == First(todo[p])
    <3>1. x \in AllVersions
        BY <1>1, <2>3, PlanHasFirst DEF Progress, MarkScript
    <3>2. report'[p] = report[p] \cup {x} /\ ok' = [ok EXCEPT ![x] = @ + 1]
        BY <1>1, <2>3 DEF MarkScript, Typed
    <3> HIDE DEF x
    <3>3. x \in Applied'
        BY <1>1, <3>1, <3>2 DEF Applied, Typed
    <3> QED BY <1>1, <3>2, <3>3 DEF Ordered
  <2>4. ASSUME NEW c \in Commands, NEW t \in Tokens, Start(p, c, t) PROVE report'[p] \subseteq report[p]
      BY <1>1, <2>4 DEF Start, Typed
  <2>5. CASE Acquire(p) \/ Refused(p) \/ PlanAgain(p) \/ Leave(p) \/ NoticeLoss(p)
      BY <2>1, <2>5 DEF Acquire, Refused, PlanAgain, Leave, NoticeLoss
  <2>6. CASE NextScript(p) \/ LoopEnds(p) \/ Execute(p) \/ StatementFails(p)
             \/ RecordFailure(p) \/ RecordFails(p)
      BY <2>1, <2>6 DEF NextScript, LoopEnds, Execute, StatementFails, RecordFailure, RecordFails
  <2>7. CASE MarkFails(p) \/ RepairRows(p) \/ RepairFails(p) \/ ImportRow(p) \/ ImportFails(p)
             \/ Interrupt(p) \/ Crash(p)
      BY <2>1, <2>7 DEF MarkFails, RepairRows, RepairFails, ImportRow, ImportFails, Interrupt, Crash
  <2> QED BY <2>1, <2>2, <2>3, <2>4, <2>5, <2>6, <2>7 DEF Step, Migrating
<1> QED BY <1>2, <1>3, <1>4 DEF Ordered

\* No step records a version below one that is recorded.
LEMMA OrderStep ==
    ASSUME FlywayApplied \subseteq {1} \/ "import" \notin Commands
    PROVE  OrderInv /\ [Next]_vars => OrderInv'
<1> SUFFICES ASSUME OrderInv, [Next]_vars PROVE OrderInv'
    OBVIOUS
<1>1. TypeOK /\ TypeOK'
    BY TypesStep DEF OrderInv
<1>2. ASSUME NEW p \in Procs, Step(p) PROVE AppliedInOrder' /\ \A q \in Procs : Ordered(q)'
  <2>1. Applied \subseteq Applied'
      BY <1>2, AppliedGrows
  <2>2. Ordered(p)'
      BY <1>2, <2>1, StepsOrdered
  <2>3. ASSUME NEW q \in Procs \ {p} PROVE Ordered(q)'
    <3>1. pc'[q] = pc[q] /\ todo'[q] = todo[q] /\ at'[q] = at[q] /\ report'[q] = report[q]
        BY <1>1, <1>2, StepsAreAlone DEF TypeOK, Alone
    <3> QED BY <2>1, <3>1 DEF OrderInv, Ordered
  <2>4. AppliedInOrder'
    <3>1. Applied \subseteq AllVersions
        BY DEF Applied
    <3>2. CASE Applied' = Applied
        BY <3>2 DEF OrderInv, AppliedInOrder
    <3>3. ASSUME NEW v \in AllVersions, Applied' = Applied \cup {v},
                 \A w \in AllVersions : w < v => w \in Applied
          PROVE  AppliedInOrder'
      <4>1. \A x \in Applied' : x \in AllVersions
          BY <3>1, <3>3
      <4>2. \A w \in 1 .. v : w = v \/ w \in Applied
          BY <3>3, RunAssumption DEF AllVersions
      <4> QED BY <3>3, <4>1, <4>2 DEF OrderInv, AppliedInOrder
    <3> QED BY <1>2, <3>2, <3>3, AppliedGrows
  <2> QED BY <2>2, <2>3, <2>4
<1>3. CASE Expire \/ UNCHANGED vars
  <2>1. UNCHANGED <<pc, at, todo, report, ok>>
      BY <1>3 DEF Expire, vars, dbVars, stepVars
  <2>2. Applied' = Applied
      BY <2>1 DEF Applied
  <2>3. \A p \in Procs : Ordered(p)'
      BY <2>1, <2>2 DEF OrderInv, Ordered
  <2> QED BY <1>1, <2>2, <2>3 DEF OrderInv, AppliedInOrder
<1> QED BY <1>1, <1>2, <1>3, StepsOfNext DEF OrderInv

\* HistoryIsInOrder for every number of processes and scripts, also when runs
\* overlap because a lease expired.  Flyway's own history may bring in no more
\* than the first version: import-flyway leaves out a version that has a
\* FAILED row and goes on with the next.
THEOREM HistoryInOrder ==
    ASSUME FlywayApplied \subseteq {1} \/ "import" \notin Commands
    PROVE  Spec => []HistoryIsInOrder
<1>1. Init => OrderInv
  <2> SUFFICES ASSUME Init PROVE OrderInv
      OBVIOUS
  <2>1. TypeOK
      BY TypesAtFirst
  <2>2. Applied = {}
      BY DEF Init, Applied
  <2> QED BY <2>1, <2>2 DEF Init, OrderInv, AppliedInOrder, Ordered
<1>2. OrderInv => HistoryIsInOrder
    BY DEF OrderInv, HistoryIsInOrder, ReportIsTrue, Ordered
<1> QED BY <1>1, <1>2, OrderStep, PTL DEF Spec

-----------------------------------------------------------------------------
(* What a row stands for                                                   *)

\* Runs of live holders take turns, and their types hold.
TurnsInv == TypeOK /\ HolderInv

\* No process has the lock at the start.
LEMMA TurnsAtFirst == Init => TurnsInv
BY TypesAtFirst DEF Init, TurnsInv, HolderInv, Gone, Locked, Writing

\* The holders of reliable runs take turns.
LEMMA TurnsStep ==
    ASSUME Unreliable = {}, "import" \notin Commands
    PROVE  TurnsInv /\ [Next]_vars => TurnsInv'
<1>1. TypeOK => LockTypes
    BY DEF TypeOK, Typed, LockTypes
<1> QED BY <1>1, TypesStep, HolderStep DEF TurnsInv

\* Where one is past the lock the others are not.
LEMMA OnePastTheLock ==
    ASSUME HolderInv, NEW p \in Procs, NEW q \in Procs, pc[p] \in Locked, pc[q] \in Locked
    PROVE  p = q
BY DEF HolderInv

\* What a run is about to do has not been done, and what it did of it so far
\* is in the database or in its transaction.
Fresh(p) ==
    /\ pc[p] \in {"loop", "run"} => todo[p] \cap Applied = {}
    /\ pc[p] = "run" /\ Immediate(at[p]) => effects[at[p]] >= done[p]
    /\ cmd[p] # "mark" /\ pc[p] # "mark"

MeaningInv ==
    /\ TurnsInv
    /\ \A p \in Procs : Uncommitted(p)
    /\ \A p \in Procs : Fresh(p)
    /\ RowsMeanRuns

\* The process of a step has only fresh work.
LEMMA StepsFresh ==
    ASSUME "mark" \notin Commands, "import" \notin Commands, MeaningInv, NEW p \in Procs, Step(p)
    PROVE  Fresh(p)'
<1>1. Typed /\ Progress(p) /\ Fresh(p)
    BY DEF MeaningInv, TurnsInv, TypeOK
<1>2. ASSUME pc'[p] \in {"loop", "run"} PROVE todo'[p] \cap Applied' = {}
  <2>1. CASE PlanAgain(p)
    <3>1. todo'[p] = Pending /\ Applied' = Applied
        BY <1>1, <1>2, <2>1 DEF PlanAgain, Go, Typed, dbVars, Applied
    <3> QED BY <3>1 DEF Pending
  <2>2. CASE RecordAndCommit(p)
    <3>1. pc[p] = "run" /\ todo'[p] = todo[p] \ {at[p]} /\ ok' = [ok EXCEPT ![at[p]] = @ + 1]
        BY <1>1, <2>2 DEF RecordAndCommit, Commits, Typed
    <3>2. Applied' \subseteq Applied \cup {at[p]}
        BY <1>1, <3>1 DEF Applied, Typed
    <3> QED BY <1>1, <3>1, <3>2 DEF Fresh
  <2>3. CASE NextScript(p) \/ Execute(p) \/ NoticeLoss(p)
    <3>1. todo' = todo /\ ok' = ok /\ pc[p] \in {"loop", "run"}
        BY <1>1, <1>2, <2>3 DEF NextScript, Execute, NoticeLoss, dbVars
    <3> QED BY <1>1, <3>1 DEF Fresh, Applied
  <2>4. ASSUME NEW c \in Commands, NEW t \in Tokens, Start(p, c, t) PROVE FALSE
      BY <1>1, <1>2, <2>4 DEF Start, Go, Typed
  <2>5. CASE Acquire(p) \/ Refused(p) \/ Leave(p) \/ LoopEnds(p) \/ StatementFails(p)
             \/ RecordFailure(p) \/ RecordFails(p)
      BY <1>1, <1>2, <2>5 DEF Acquire, Refused, Leave, LoopEnds, StatementFails, RecordFailure,
                              RecordFails, Go, Typed
  <2>6. CASE MarkScript(p) \/ MarkFails(p) \/ RepairRows(p) \/ RepairFails(p) \/ ImportRow(p)
             \/ ImportFails(p) \/ Interrupt(p) \/ Crash(p)
      BY <1>1, <1>2, <2>6 DEF MarkScript, MarkFails, RepairRows, RepairFails, ImportRow,
                              ImportFails, Interrupt, Crash, Go, Typed
  <2> QED BY <2>1, <2>2, <2>3, <2>4, <2>5, <2>6 DEF Step, Migrating
<1>3. ASSUME pc'[p] = "run", Immediate(at'[p]) PROVE effects'[at'[p]] >= done'[p]
  <2>1. CASE NextScript(p)
    <3>1. done'[p] = 0 /\ at'[p] = First(todo[p]) /\ effects' = effects /\ todo[p] # {}
        BY <1>1, <2>1 DEF NextScript, Typed, dbVars
    <3>2. effects[First(todo[p])] \in Nat
        BY <1>1, <3>1, PlanHasFirst DEF Typed
    <3> QED BY <3>1, <3>2
  <2>2. CASE Execute(p)
    <3>1. at' = at /\ done'[p] = done[p] + 1 /\ pc[p] = "run" /\ at[p] \in AllVersions
        BY <1>1, <2>2 DEF Execute, Progress, Typed
    <3>2. effects'[at[p]] = effects[at[p]] + 1
        BY <1>1, <1>3, <2>2, <3>1 DEF Execute, Typed
    <3>3. effects[at[p]] \in Nat /\ done[p] \in Nat
        BY <1>1, <3>1 DEF Typed
    <3> QED BY <1>1, <1>3, <3>1, <3>2, <3>3 DEF Fresh
  <2>3. CASE NoticeLoss(p)
      BY <1>1, <1>3, <2>3 DEF NoticeLoss, dbVars, stepVars, Fresh
  <2> QED BY <1>1, <1>3, <2>1, <2>2, <2>3, StepsIntoRun
<1>4. cmd'[p] # "mark"
  <2>1. ASSUME NEW c \in Commands, NEW t \in Tokens, Start(p, c, t) PROVE cmd'[p] # "mark"
      BY <1>1, <2>1 DEF Start, Typed
  <2>2. CASE ~\E c \in Commands, t \in Tokens : Start(p, c, t)
    <3>1. cmd' = cmd
        BY <2>2 DEF Step, Migrating, Acquire, Refused, PlanAgain, Leave, NextScript, LoopEnds,
             Execute, StatementFails, RecordFailure, RecordAndCommit, RecordFails, MarkScript,
             MarkFails, RepairRows, RepairFails, ImportRow, ImportFails, Interrupt, Crash,
             NoticeLoss, runVars
    <3> QED BY <1>1, <3>1 DEF Fresh
  <2> QED BY <2>1, <2>2
<1>5. pc'[p] # "mark"
  <2>1. CASE PlanAgain(p)
      BY <1>1, <2>1 DEF PlanAgain, Go, Typed, Fresh
  <2>2. ASSUME NEW c \in Commands, NEW t \in Tokens, Start(p, c, t) PROVE pc'[p] # "mark"
      BY <1>1, <2>2 DEF Start, Go, Typed
  <2>3. CASE Acquire(p) \/ Refused(p) \/ Leave(p) \/ LoopEnds(p) \/ StatementFails(p)
             \/ RecordFailure(p) \/ RecordFails(p) \/ RecordAndCommit(p) \/ NextScript(p)
      BY <1>1, <2>3 DEF Acquire, Refused, Leave, LoopEnds, StatementFails, RecordFailure,
                        RecordFails, RecordAndCommit, NextScript, Go, Typed
  <2>4. CASE Execute(p) \/ NoticeLoss(p) \/ MarkScript(p)
      BY <1>1, <2>4 DEF Execute, NoticeLoss, MarkScript, Fresh
  <2>5. CASE MarkFails(p) \/ RepairRows(p) \/ RepairFails(p) \/ ImportRow(p) \/ ImportFails(p)
             \/ Interrupt(p) \/ Crash(p)
      BY <1>1, <2>5 DEF MarkFails, RepairRows, RepairFails, ImportRow, ImportFails,
                        Interrupt, Crash, Go, Typed
  <2> QED BY <2>1, <2>2, <2>3, <2>4, <2>5 DEF Step, Migrating
<1> QED BY <1>2, <1>3, <1>4, <1>5 DEF Fresh, Immediate

\* Only one that is past the lock brings in a row.
LEMMA MeaningStep ==
    ASSUME Unreliable = {}, "mark" \notin Commands, "import" \notin Commands
    PROVE  MeaningInv /\ [Next]_vars => MeaningInv'
<1> SUFFICES ASSUME MeaningInv, [Next]_vars PROVE MeaningInv'
    OBVIOUS
<1>1. TurnsInv /\ TurnsInv' /\ TypeOK
    BY TurnsStep DEF MeaningInv, TurnsInv
<1>2. ASSUME NEW p \in Procs, Step(p)
      PROVE  /\ \A q \in Procs : Uncommitted(q)' /\ Fresh(q)'
             /\ RowsMeanRuns'
  <2>1. \A q \in Procs : Uncommitted(q)'
      BY <1>1, <1>2, StepsUncommitted DEF MeaningInv
  <2>2. Fresh(p)'
      BY <1>2, StepsFresh
  <2>3. \A v \in AllVersions : effects[v] \in Nat /\ effects'[v] \in Nat /\ effects'[v] >= effects[v]
    <3> TAKE v \in AllVersions
    <3>1. effects[v] \in Nat /\ effects'[v] \in Nat /\ work \in [Procs -> Nat]
          /\ effects \in [AllVersions -> Nat]
        BY <1>1 DEF TurnsInv, TypeOK, Typed
    <3>2. CASE Commits(p)
        BY <3>1, <3>2 DEF Commits
    <3>3. CASE effects' = [effects EXCEPT ![at[p]] = @ + 1]
        BY <3>1, <3>3
    <3> QED BY <1>2, <3>1, <3>2, <3>3, EffectsWritten
  <2>4. CASE Applied' = Applied /\ ok' = ok
    <3>1. RowsMeanRuns'
      <4>1. Applied \subseteq AllVersions
          BY DEF Applied
      <4>2. RowsAreEarned'
        <5> SUFFICES ASSUME NEW v \in Applied PROVE effects'[v] >= Size[v]
            BY <2>4 DEF RowsAreEarned
        <5>1. effects[v] >= Size[v] /\ effects[v] \in Nat /\ effects'[v] \in Nat /\ effects'[v] >= effects[v]
            BY <2>3, <4>1 DEF MeaningInv, RowsMeanRuns, RowsAreEarned
        <5>2. Size[v] \in Nat
            BY <4>1, RunAssumption DEF AllVersions
        <5> QED BY <5>1, <5>2
      <4> QED BY <2>4, <4>2 DEF MeaningInv, RowsMeanRuns, AppliedOnce
    <3>2. ASSUME NEW q \in Procs \ {p} PROVE Fresh(q)'
      <4>1. pc'[q] = pc[q] /\ todo'[q] = todo[q] /\ at'[q] = at[q] /\ done'[q] = done[q] /\ cmd'[q] = cmd[q]
          BY <1>1, <1>2, StepsAreAlone DEF TypeOK, Alone
      <4>2. pc[q] = "run" => at[q] \in AllVersions /\ done[q] \in Nat
          BY <1>1 DEF TypeOK, Typed, Progress
      <4>3. ASSUME pc[q] = "run", Immediate(at[q]) PROVE effects'[at[q]] >= done[q]
        <5>1. effects[at[q]] >= done[q]
            BY <4>3 DEF MeaningInv, Fresh
        <5> QED BY <2>3, <4>2, <4>3, <5>1
      <4> QED BY <2>4, <4>1, <4>3 DEF MeaningInv, Fresh, Immediate
    <3> QED BY <2>1, <2>2, <3>1, <3>2
  <2>5. CASE pc[p] = "run" /\ done[p] = Size[at[p]] /\ Commits(p)
    <3> DEFINE v == at[p]
    <3>1. v \in AllVersions /\ v \in todo[p] /\ v \notin Applied
        BY <1>1, <2>5 DEF TypeOK, Typed, Progress, MeaningInv, Fresh
    <3>2. /\ ok' = [ok EXCEPT ![v] = @ + 1] /\ ok \in [AllVersions -> Nat]
          /\ effects'[v] = effects[v] + work[p] /\ Size[v] \in Nat /\ done[p] = Size[v]
        BY <1>1, <2>5, <3>1, RunAssumption DEF Commits, TypeOK, Typed, AllVersions
    <3>3. ok[v] = 0
        BY <3>1, <3>2 DEF Applied
    <3>4. Applied' = Applied \cup {v}
        BY <3>1, <3>2 DEF Applied
    <3>5. effects'[v] >= Size[v]
      <4>1. CASE Immediate(v)
        <5>1. effects[v] >= done[p]
            BY <2>5, <4>1 DEF MeaningInv, Fresh
        <5> QED BY <2>3, <3>1, <3>2, <5>1
      <4>2. CASE ~Immediate(v)
        <5>1. work[p] = done[p]
            BY <2>5, <4>2 DEF MeaningInv, Uncommitted
        <5> QED BY <2>3, <3>1, <3>2, <5>1
      <4> QED BY <4>1, <4>2
    <3>6. RowsAreEarned'
      <4> SUFFICES ASSUME NEW w \in Applied, w # v PROVE effects'[w] >= Size[w]
          BY <3>4, <3>5 DEF RowsAreEarned
      <4>1. w \in AllVersions
          BY DEF Applied
      <4>2. effects[w] >= Size[w]
          BY DEF MeaningInv, RowsMeanRuns, RowsAreEarned
      <4>3. Size[w] \in Nat
          BY <4>1, RunAssumption DEF AllVersions
      <4> QED BY <2>3, <4>1, <4>2, <4>3
    <3>7. AppliedOnce'
      <4> SUFFICES ASSUME NEW w \in AllVersions PROVE ok'[w] <= 1
          BY DEF AppliedOnce
      <4>1. ok[w] <= 1
          BY DEF MeaningInv, RowsMeanRuns, AppliedOnce
      <4> HIDE DEF v
      <4>2. CASE w = v
          BY <3>2, <3>3, <4>2
      <4>3. CASE w # v
          BY <3>2, <4>1, <4>3
      <4> QED BY <4>2, <4>3
    <3>8. ASSUME NEW q \in Procs \ {p} PROVE Fresh(q)'
      <4>1. pc'[q] = pc[q] /\ cmd'[q] = cmd[q]
          BY <1>1, <1>2, StepsAreAlone DEF TypeOK, Alone
      <4>2. pc[q] \notin Locked
          BY <1>1, <2>5, OnePastTheLock DEF TurnsInv, Locked, Writing
      <4> QED BY <4>1, <4>2 DEF MeaningInv, Fresh, Locked, Writing
    <3> QED BY <2>1, <2>2, <3>6, <3>7, <3>8 DEF RowsMeanRuns
  <2>6. pc[p] \notin {"mark", "import"}
      BY <1>1 DEF MeaningInv, Fresh, TurnsInv, HolderInv
  <2>7. ok' = ok => Applied' = Applied
      BY DEF Applied
  <2> QED BY <1>2, <2>4, <2>5, <2>6, <2>7, RowsWritten
<1>3. CASE Expire \/ UNCHANGED vars
  <2>1. UNCHANGED <<pc, cmd, at, done, work, todo, effects, ok>>
      BY <1>3 DEF Expire, vars, dbVars, stepVars, runVars
  <2>2. Applied' = Applied
      BY <2>1 DEF Applied
  <2>3. \A q \in Procs : Uncommitted(q)' /\ Fresh(q)'
      BY <2>1, <2>2 DEF MeaningInv, Uncommitted, Fresh, Immediate
  <2>4. RowsMeanRuns'
      BY <2>1, <2>2 DEF MeaningInv, RowsMeanRuns, RowsAreEarned, AppliedOnce
  <2> QED BY <1>1, <2>3, <2>4 DEF MeaningInv
<1> QED BY <1>1, <1>2, <1>3, StepsOfNext DEF MeaningInv

\* RowsMeanRuns for every instance of migrate and repair whose holders live:
\* a script that is recorded as applied had all its statements executed and
\* is recorded once, whatever its mode and whatever failed before.
THEOREM RowsAlwaysMeanRuns ==
    ASSUME Unreliable = {}, "mark" \notin Commands, "import" \notin Commands
    PROVE  Spec => []RowsMeanRuns
<1>1. Init => MeaningInv
  <2> SUFFICES ASSUME Init PROVE MeaningInv
      OBVIOUS
  <2>1. Applied = {}
      BY DEF Init, Applied
  <2>2. RowsMeanRuns
      BY <2>1 DEF Init, RowsMeanRuns, RowsAreEarned, AppliedOnce
  <2> QED BY <2>1, <2>2, TurnsAtFirst DEF Init, MeaningInv, Uncommitted, Fresh
<1>2. MeaningInv => RowsMeanRuns
    BY DEF MeaningInv
<1> QED BY <1>1, <1>2, MeaningStep, PTL DEF Spec

-----------------------------------------------------------------------------
(* The promise of AtomicMigrations                                         *)

\* The versions up to k have k as their latest.
LEMMA LatestOfFirst ==
    ASSUME NEW k \in Nat
    PROVE  Latest(1 .. k) = k
<1>1. CASE k = 0
    BY <1>1 DEF Latest
<1>2. CASE k # 0
  <2>1. k \in 1 .. k /\ \A w \in 1 .. k : w <= k
      BY <1>2
  <2>2. \A v \in 1 .. k : (\A w \in 1 .. k : w <= v) => v = k
      BY <2>1
  <2> QED BY <1>2, <2>1, <2>2 DEF Latest
<1> QED BY <1>1, <1>2

\* A history in order is the versions up to its latest, and the next one is
\* the first that it does not have.
LEMMA LatestOfHistory ==
    ASSUME AppliedInOrder
    PROVE  \E k \in 0 .. Versions : Applied = 1 .. k /\ Latest(Applied) = k
<1> DEFINE Out == {n \in 1 .. (Versions + 1) : n \notin Applied}
<1>1. Versions \in Nat /\ Applied \subseteq 1 .. Versions
    BY RunAssumption DEF Applied, AllVersions
<1>2. Versions + 1 \in Out
    BY <1>1
<1>3. PICK n \in Out : \A m \in Out : <<m, n>> \notin OpToRel(<, Nat)
  <2>1. Out \subseteq Nat /\ Out # {}
      BY <1>2
  <2> HIDE DEF Out
  <2> QED BY <2>1, NatLessThanWellFounded, WFMin
<1>4. n \in 1 .. (Versions + 1) /\ n \notin Applied
    BY <1>3
<1>5. ASSUME NEW m \in 1 .. (n - 1) PROVE m \in Applied
  <2>1. m < n /\ m \in Nat /\ n \in Nat /\ m \in 1 .. (Versions + 1)
      BY <1>1, <1>4, <1>5
  <2>2. <<m, n>> \in OpToRel(<, Nat)
      BY <2>1 DEF OpToRel
  <2> QED BY <1>3, <2>1, <2>2
<1>6. ASSUME NEW m \in Applied PROVE m \in 1 .. (n - 1)
  <2>1. m \in Nat /\ m >= 1 /\ n \in Nat /\ n >= 1
      BY <1>1, <1>4, <1>6
  <2>2. ~(n <= m)
    <3> SUFFICES ASSUME n <= m PROVE FALSE
        OBVIOUS
    <3>1. n \in 1 .. m
        BY <2>1
    <3> QED BY <1>4, <3>1 DEF AppliedInOrder
  <2> QED BY <2>1, <2>2
<1>7. Applied = 1 .. (n - 1)
    BY <1>5, <1>6
<1>8. n - 1 \in 0 .. Versions /\ n - 1 \in Nat
    BY <1>1, <1>4
<1> QED BY <1>7, <1>8, LatestOfFirst

\* What a step does to the database.
LEMMA DatabaseWritten ==
    ASSUME TypeOK, NEW p \in Procs, Step(p)
    PROVE  \/ UNCHANGED dbVars
           \/ pc[p] = "run" /\ done[p] = Size[at[p]] /\ Commits(p)
           \/ pc[p] = "run" /\ Immediate(at[p])
           \/ /\ pc[p] = "mark" /\ ok' = [ok EXCEPT ![First(todo[p])] = @ + 1]
              /\ UNCHANGED <<failed, effects>>
           \/ pc[p] = "import"
           \/ /\ pc[p] = "fail" /\ failed' \in {failed \cup {at[p]}, failed}
              /\ UNCHANGED <<ok, effects>>
           \/ /\ pc[p] = "repair" /\ failed' = failed \ todo[p]
              /\ UNCHANGED <<ok, effects>>
<1> USE DEF dbVars
<1>1. CASE RecordAndCommit(p) \/ RecordFails(p)
    BY <1>1 DEF RecordAndCommit, RecordFails
<1>2. CASE Execute(p)
    BY <1>2 DEF Execute
<1>3. CASE NextScript(p) \/ LoopEnds(p) \/ StatementFails(p)
    BY <1>3 DEF NextScript, LoopEnds, StatementFails
<1>4. CASE RecordFailure(p)
    BY <1>4 DEF RecordFailure
<1>5. CASE MarkScript(p)
    BY <1>5 DEF MarkScript
<1>6. CASE ImportRow(p) \/ ImportFails(p)
    BY <1>6 DEF ImportRow, ImportFails
<1>7. CASE RepairRows(p)
    BY <1>7 DEF RepairRows
<1>8. ASSUME NEW c \in Commands, NEW t \in Tokens, Start(p, c, t) PROVE UNCHANGED dbVars
    BY <1>8 DEF Start
<1>9. CASE Acquire(p) \/ Refused(p) \/ PlanAgain(p) \/ Leave(p)
    BY <1>9 DEF Acquire, Refused, PlanAgain, Leave
<1>10. CASE MarkFails(p) \/ RepairFails(p)
    BY <1>10 DEF MarkFails, RepairFails
<1>11. CASE Interrupt(p) \/ Crash(p) \/ NoticeLoss(p)
    BY <1>11 DEF Interrupt, Crash, NoticeLoss
<1> QED BY <1>1, <1>2, <1>3, <1>4, <1>5, <1>6, <1>7, <1>8, <1>9, <1>10, <1>11 DEF Step, Migrating

\* What the one past the lock has to do is what there is to do.
Current(p) ==
    /\ pc[p] \in {"loop", "run", "fail", "mark"} =>
         failed = {} /\ todo[p] = AllVersions \ Applied
    /\ pc[p] \in {"run", "fail"} => at[p] \in todo[p] /\ \A w \in todo[p] : at[p] <= w
    /\ pc[p] = "repair" => todo[p] = failed

PromiseInv ==
    /\ TurnsInv
    /\ OrderInv
    /\ \A p \in Procs : Uncommitted(p)
    /\ \A p \in Procs : Current(p)
    /\ \A v \in AllVersions \ Applied : effects[v] = 0

Reliable ==
    /\ Unreliable = {} /\ "import" \notin Commands
    /\ \A v \in AllVersions : ~Immediate(v)

\* A step keeps the plan of its own process current.
LEMMA StepsCurrent ==
    ASSUME Reliable, PromiseInv, NEW p \in Procs, Step(p)
    PROVE  Current(p)'
<1>1. Typed /\ Progress(p) /\ Current(p)
    BY DEF PromiseInv, OrderInv, TypeOK
<1>2. CASE PlanAgain(p)
  <2>1. failed' = failed /\ Applied' = Applied
      BY <1>2 DEF PlanAgain, dbVars, Applied
  <2>2. \/ pc'[p] = "leave"
        \/ pc'[p] = "repair" /\ todo'[p] = failed
        \/ pc'[p] \in {"loop", "mark"} /\ todo'[p] = Pending /\ Pending # {}
      BY <1>1, <1>2 DEF PlanAgain, Go, Typed
  <2>3. Pending # {} => failed = {} /\ Pending = AllVersions \ Applied
      BY DEF Pending
  <2> QED BY <2>1, <2>2, <2>3 DEF Current
<1>3. CASE NextScript(p)
  <2>1. UNCHANGED <<failed, todo, ok>> /\ pc[p] = "loop" /\ pc'[p] = "run" /\ todo[p] # {} /\ at'[p] = First(todo[p])
      BY <1>1, <1>3 DEF NextScript, dbVars, Go, Typed
  <2>2. Applied' = Applied
      BY <2>1 DEF Applied
  <2>3. at'[p] \in todo[p] /\ \A w \in todo[p] : at'[p] <= w
      BY <1>1, <2>1, PlanHasFirst
  <2> QED BY <1>1, <2>1, <2>2, <2>3 DEF Current
<1>4. CASE Execute(p) \/ StatementFails(p) \/ NoticeLoss(p)
  <2>1. UNCHANGED <<failed, todo, ok, at>> /\ (pc'[p] = pc[p] \/ (pc[p] = "run" /\ pc'[p] = "fail"))
      BY <1>1, <1>4 DEF Execute, StatementFails, NoticeLoss, dbVars, stepVars, Go, Typed
  <2>2. Applied' = Applied
      BY <2>1 DEF Applied
  <2> QED BY <1>1, <2>1, <2>2 DEF Current
<1>5. CASE RecordAndCommit(p)
  <2>1. /\ pc[p] = "run" /\ pc'[p] = "loop" /\ failed' = failed
        /\ todo'[p] = todo[p] \ {at[p]} /\ ok' = [ok EXCEPT ![at[p]] = @ + 1]
      BY <1>1, <1>5 DEF RecordAndCommit, Commits, Go, Typed
  <2>2. at[p] \in AllVersions
      BY <1>1, <2>1 DEF Progress, Typed
  <2>3. Applied' = Applied \cup {at[p]}
      BY <1>1, <2>1, <2>2 DEF Applied, Typed
  <2> QED BY <1>1, <2>1, <2>3 DEF Current
<1>6. CASE MarkScript(p)
  <2> DEFINE v == First(todo[p])
  <2>1. v \in AllVersions
      BY <1>1, <1>6, PlanHasFirst DEF Progress, MarkScript
  <2>2. /\ pc[p] = "mark" /\ pc'[p] \in {"leave", "mark"} /\ failed' = failed
        /\ todo'[p] = todo[p] \ {v} /\ ok' = [ok EXCEPT ![v] = @ + 1]
      BY <1>1, <1>6 DEF MarkScript, Go, Typed
  <2> HIDE DEF v
  <2>3. Applied' = Applied \cup {v}
      BY <1>1, <2>1, <2>2 DEF Applied, Typed
  <2> QED BY <1>1, <2>2, <2>3 DEF Current
<1>7. ASSUME NEW c \in Commands, NEW t \in Tokens, Start(p, c, t) PROVE Current(p)'
    BY <1>1, <1>7 DEF Start, Go, Typed, Current
<1>8. CASE Acquire(p) \/ Refused(p) \/ Leave(p) \/ LoopEnds(p) \/ RecordFailure(p) \/ RecordFails(p)
    BY <1>1, <1>8 DEF Acquire, Refused, Leave, LoopEnds, RecordFailure, RecordFails, Go, Typed, Current
<1>9. CASE MarkFails(p) \/ RepairRows(p) \/ RepairFails(p) \/ Interrupt(p) \/ Crash(p)
    BY <1>1, <1>9 DEF MarkFails, RepairRows, RepairFails, Interrupt, Crash, Go, Typed, Current
<1>10. ~ImportRow(p) /\ ~ImportFails(p)
    BY DEF PromiseInv, TurnsInv, HolderInv, ImportRow, ImportFails
<1> QED BY <1>2, <1>3, <1>4, <1>5, <1>6, <1>7, <1>8, <1>9, <1>10 DEF Step, Migrating

\* The next version enters the history.
LEMMA NextApplied ==
    ASSUME Reliable, PromiseInv, NEW p \in Procs, pc[p] \in {"run", "mark"},
           NEW v \in AllVersions, v \in todo[p], \A w \in todo[p] : v <= w,
           ok' = [ok EXCEPT ![v] = @ + 1]
    PROVE  /\ Applied' = Applied \cup {v} /\ failed = {}
           /\ v = Latest(Applied) + 1 /\ Latest(Applied') = v /\ Latest(Applied) < Versions
           /\ Latest(Applied) \in Nat
<1>1. Typed /\ Current(p) /\ AppliedInOrder
    BY DEF PromiseInv, OrderInv, TypeOK
<1>2. Applied' = Applied \cup {v}
    BY <1>1 DEF Applied, Typed
<1>3. failed = {} /\ todo[p] = AllVersions \ Applied
    BY <1>1 DEF Current
<1>4. PICK k \in 0 .. Versions : Applied = 1 .. k /\ Latest(Applied) = k
    BY <1>1, LatestOfHistory
<1>5. Versions \in Nat /\ k \in Nat /\ v \in 1 .. Versions
    BY RunAssumption, <1>4 DEF AllVersions
<1>6. v = k + 1
  <2>1. v > k
      BY <1>3, <1>4, <1>5
  <2>2. k + 1 \in AllVersions \ Applied
      BY <1>4, <1>5, <2>1 DEF AllVersions
  <2>3. v <= k + 1
      BY <1>3, <2>2
  <2> QED BY <1>5, <2>1, <2>3
<1>7. Applied' = 1 .. v
    BY <1>2, <1>4, <1>5, <1>6
<1>8. Latest(Applied') = v
    BY <1>5, <1>7, LatestOfFirst
<1> QED BY <1>2, <1>3, <1>4, <1>5, <1>6, <1>8

\* What a step does to the database is a step of the promise.
LEMMA StepsKeepPromise ==
    ASSUME Reliable, PromiseInv, NEW p \in Procs, Step(p)
    PROVE  /\ [Promise!PromiseNext]_(<<Latest(Applied), failed, effects>>)
           /\ \A v \in AllVersions \ Applied' : effects'[v] = 0
<1>1. TypeOK /\ Progress(p) /\ Current(p) /\ Uncommitted(p) /\ Typed
    BY DEF PromiseInv, OrderInv, TypeOK
<1> USE DEF Promise!PromiseNext
<1>2. ASSUME UNCHANGED <<ok, effects>>
      PROVE  UNCHANGED <<Latest(Applied), effects>> /\ \A v \in AllVersions \ Applied' : effects'[v] = 0
  <2>1. Applied' = Applied
      BY <1>2 DEF Applied
  <2> QED BY <1>2, <2>1 DEF PromiseInv
<1>3. CASE UNCHANGED dbVars
    BY <1>2, <1>3 DEF dbVars
<1>4. CASE pc[p] = "run" /\ done[p] = Size[at[p]] /\ Commits(p)
  <2> DEFINE v == at[p]
  <2>1. v \in AllVersions /\ v \in todo[p] /\ (\A w \in todo[p] : v <= w) /\ ok' = [ok EXCEPT ![v] = @ + 1]
      BY <1>1, <1>4 DEF Progress, Typed, Current, Commits
  <2>2. /\ Applied' = Applied \cup {v} /\ failed = {} /\ v = Latest(Applied) + 1
        /\ Latest(Applied') = v /\ Latest(Applied) < Versions
      BY <1>4, <2>1, NextApplied
  <2>3. effects' = [effects EXCEPT ![v] = Size[v]]
    <3>1. work[p] = Size[v]
        BY <1>1, <1>4, <2>1 DEF Uncommitted, Reliable
    <3>2. effects[v] = 0 /\ Size[v] \in Nat
      <4>1. v \notin Applied
          BY <1>1, <1>4, <2>1 DEF Current
      <4> QED BY <2>1, <4>1, RunAssumption DEF PromiseInv, AllVersions
    <3>3. effects' = [effects EXCEPT ![v] = effects[v] + work[p]]
        BY <1>4 DEF Commits
    <3>4. effects[v] + work[p] = Size[v]
        BY <3>1, <3>2
    <3> QED BY <3>3, <3>4
  <2>4. failed' = failed
      BY <1>4 DEF Commits
  <2> HIDE DEF v
  <2>5. Promise!Apply
      BY <2>2, <2>3, <2>4 DEF Promise!Apply
  <2>6. \A w \in AllVersions \ Applied' : effects'[w] = 0
      BY <1>1, <2>2, <2>3 DEF PromiseInv, Typed
  <2> QED BY <2>5, <2>6
<1>5. ~(pc[p] = "run" /\ Immediate(at[p]))
    BY <1>1 DEF Reliable, Progress, Typed
<1>6. CASE pc[p] = "mark" /\ ok' = [ok EXCEPT ![First(todo[p])] = @ + 1] /\ UNCHANGED <<failed, effects>>
  <2> DEFINE v == First(todo[p])
  <2>1. v \in AllVersions /\ v \in todo[p] /\ \A w \in todo[p] : v <= w
      BY <1>1, <1>6, PlanHasFirst DEF Progress
  <2>2. /\ Applied' = Applied \cup {v} /\ failed = {} /\ v = Latest(Applied) + 1
        /\ Latest(Applied') = v /\ Latest(Applied) < Versions
      BY <1>6, <2>1, NextApplied
  <2> HIDE DEF v
  <2>3. Promise!Mark
      BY <1>6, <2>2 DEF Promise!Mark
  <2> QED BY <1>6, <2>2, <2>3 DEF PromiseInv
<1>7. pc[p] # "import"
    BY DEF PromiseInv, TurnsInv, HolderInv
<1>8. CASE pc[p] = "fail" /\ failed' \in {failed \cup {at[p]}, failed} /\ UNCHANGED <<ok, effects>>
  <2>1. CASE failed' = failed
      BY <1>2, <1>8, <2>1
  <2>2. CASE failed' = failed \cup {at[p]}
    <3>1. PICK k \in 0 .. Versions : Applied = 1 .. k /\ Latest(Applied) = k
        BY LatestOfHistory DEF PromiseInv, OrderInv
    <3>2. at[p] \in AllVersions \ Applied /\ \A w \in AllVersions \ Applied : at[p] <= w
        BY <1>1, <1>8 DEF Current
    <3>3. Versions \in Nat /\ k \in Nat
        BY <3>1, RunAssumption
    <3>4. at[p] = k + 1 /\ k < Versions
      <4>1. at[p] > k /\ at[p] <= Versions /\ at[p] \in Nat
          BY <3>1, <3>2, <3>3 DEF AllVersions
      <4>2. k + 1 \in AllVersions \ Applied
          BY <3>1, <3>3, <4>1 DEF AllVersions
      <4>3. at[p] <= k + 1
          BY <3>2, <4>2
      <4> QED BY <3>3, <4>1, <4>3
    <3>5. Promise!Fail
        BY <1>2, <1>8, <2>2, <3>1, <3>4 DEF Promise!Fail
    <3> QED BY <1>2, <1>8, <3>5
  <2> QED BY <1>8, <2>1, <2>2
<1>9. CASE pc[p] = "repair" /\ failed' = failed \ todo[p] /\ UNCHANGED <<ok, effects>>
  <2>1. failed' = {}
      BY <1>1, <1>9 DEF Current
  <2>2. Promise!Repair
      BY <1>2, <1>9, <2>1 DEF Promise!Repair
  <2> QED BY <1>2, <1>9, <2>2
<1> QED BY <1>1, <1>3, <1>4, <1>5, <1>6, <1>7, <1>8, <1>9, DatabaseWritten

\* Every step of a reliable run is a step of the promise, or none.
LEMMA PromiseStep ==
    ASSUME Reliable
    PROVE  PromiseInv /\ [Next]_vars =>
               PromiseInv' /\ [Promise!PromiseNext]_(<<Latest(Applied), failed, effects>>)
<1> SUFFICES ASSUME PromiseInv, [Next]_vars
             PROVE  PromiseInv' /\ [Promise!PromiseNext]_(<<Latest(Applied), failed, effects>>)
    OBVIOUS
<1>1. TurnsInv' /\ OrderInv' /\ TypeOK
    BY TurnsStep, OrderStep DEF PromiseInv, Reliable, TurnsInv
<1>2. ASSUME NEW p \in Procs, Step(p)
      PROVE  PromiseInv' /\ [Promise!PromiseNext]_(<<Latest(Applied), failed, effects>>)
  <2>1. \A q \in Procs : Uncommitted(q)'
      BY <1>1, <1>2, StepsUncommitted DEF PromiseInv
  <2>2. Current(p)'
      BY <1>2, StepsCurrent
  <2>3. ASSUME NEW q \in Procs \ {p} PROVE Current(q)'
    <3>1. pc'[q] = pc[q] /\ todo'[q] = todo[q] /\ at'[q] = at[q]
        BY <1>1, <1>2, StepsAreAlone DEF TypeOK, Alone
    <3>2. CASE pc[q] \notin Locked
        BY <3>1, <3>2 DEF Current, Locked, Writing
    <3>3. CASE pc[q] \in Locked
      <4>1. pc[p] \notin Locked /\ pc[p] # "import"
          BY <3>3, OnePastTheLock DEF PromiseInv, TurnsInv, HolderInv
      <4>2. UNCHANGED dbVars
          BY <1>1, <1>2, <4>1, DatabaseWritten DEF Locked, Writing
      <4>3. failed' = failed /\ Applied' = Applied
          BY <4>2 DEF dbVars, Applied
      <4> QED BY <3>1, <4>3 DEF PromiseInv, Current
    <3> QED BY <3>2, <3>3
  <2>4. /\ [Promise!PromiseNext]_(<<Latest(Applied), failed, effects>>)
        /\ \A v \in AllVersions \ Applied' : effects'[v] = 0
      BY <1>2, StepsKeepPromise
  <2> QED BY <1>1, <2>1, <2>2, <2>3, <2>4 DEF PromiseInv
<1>3. CASE Expire \/ UNCHANGED vars
  <2>1. UNCHANGED <<pc, at, done, work, todo, effects, ok, failed>>
      BY <1>3 DEF Expire, vars, dbVars, stepVars, runVars
  <2>2. Applied' = Applied
      BY <2>1 DEF Applied
  <2>3. \A q \in Procs : Uncommitted(q)' /\ Current(q)'
      BY <2>1, <2>2 DEF PromiseInv, Uncommitted, Current, Immediate
  <2>4. \A v \in AllVersions \ Applied' : effects'[v] = 0
      BY <2>1, <2>2 DEF PromiseInv
  <2> QED BY <1>1, <2>1, <2>2, <2>3, <2>4 DEF PromiseInv
<1> QED BY <1>2, <1>3, StepsOfNext

\* With live holders, without import-flyway and with every script in a
\* transaction, migrate, --mark-as-executed and repair implement
\* AtomicMigrations: versions enter the history one by one and in order, each
\* with the whole of its effects, and none past a failed one.
THEOREM RunsKeepPromise ==
    ASSUME Reliable
    PROVE  Spec => PromiseSpec
<1>1. Init => PromiseInv /\ Promise!PromiseInit
  <2> SUFFICES ASSUME Init PROVE PromiseInv /\ Promise!PromiseInit
      OBVIOUS
  <2>1. Applied = {}
      BY DEF Init, Applied
  <2>2. TurnsInv /\ OrderInv
      BY <2>1, TurnsAtFirst DEF TurnsInv, Init, OrderInv, AppliedInOrder, Ordered
  <2>3. Promise!PromiseInit
      BY <2>1 DEF Init, Promise!PromiseInit, Latest, AllVersions
  <2> QED BY <2>2, <2>3 DEF Init, PromiseInv, Uncommitted, Current
<1> QED BY <1>1, PromiseStep, PTL DEF Spec, PromiseSpec, Promise!PromiseSpec, Promise!promiseVars
=============================================================================
