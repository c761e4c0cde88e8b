------------------------- MODULE SchemaHistoryProofs -------------------------
(***************************************************************************)
(* Proofs about SchemaHistory for every set of scripts, contents, groups   *)
(* and requests, and histories of any length.                              *)
(***************************************************************************)
EXTENDS SchemaHistory, VersionOrder, FiniteSetTheorems, SequenceTheorems, TLAPS

-----------------------------------------------------------------------------
(* Sets of naturals                                                        *)

\* There is a least one among some naturals.
LEMMA LeastExists ==
    ASSUME NEW S \in SUBSET Nat, S # {}
    PROVE  \E v \in S : \A n \in S : v <= n
<1>1. PICK v \in S : \A w \in S : <<w, v>> \notin OpToRel(<, Nat)
    BY NatLessThanWellFounded, WFMin
<1>2. \A w \in S : v <= w
  <2> SUFFICES ASSUME NEW w \in S, ~(v <= w) PROVE FALSE
      OBVIOUS
  <2>1. w < v /\ w \in Nat /\ v \in Nat
      OBVIOUS
  <2>2. <<w, v>> \in OpToRel(<, Nat)
      BY <2>1 DEF OpToRel
  <2> QED BY <1>1, <2>2
<1> QED BY <1>2

\* A set of naturals has a bound.
Bounded(S) == \E b \in Nat : \A n \in S : n <= b

\* The greatest of some naturals that have a bound, 0 when there are none.
LEMMA GreatestFacts ==
    ASSUME NEW S \in SUBSET Nat, Bounded(S)
    PROVE  /\ Greatest(S) \in Nat
           /\ \A n \in S : n <= Greatest(S)
           /\ Greatest(S) = 0 \/ Greatest(S) \in S
<1> DEFINE T == S \cup {0}
           Bounds == {n \in Nat : \A m \in T : m <= n}
<1>1. T \in SUBSET Nat /\ T # {}
    OBVIOUS
<1>2. Bounds \in SUBSET Nat /\ Bounds # {}
    BY DEF Bounded
<1>3. PICK top \in Bounds : \A n \in Bounds : top <= n
    BY <1>2, LeastExists
<1>4. top \in T
  <2> SUFFICES ASSUME top \notin T PROVE FALSE
      OBVIOUS
  <2>1. top \in Nat /\ top # 0 /\ \A m \in T : m <= top /\ m \in Nat
      BY <1>1, <1>3
  <2>2. \A m \in T : m <= top - 1
      BY <2>1
  <2>3. top - 1 \in Bounds
      BY <2>1, <2>2
  <2> QED BY <1>3, <2>1, <2>3
<1>5. \A m \in T : top >= m
    BY <1>1, <1>3
<1>6. Max(T) \in T /\ \A m \in T : Max(T) >= m
    BY <1>4, <1>5 DEF Max
<1>7. Greatest(S) = Max(T)
    BY DEF Greatest
<1> HIDE DEF T, Bounds
<1>8. Max(T) \in Nat /\ \A m \in T : m <= Max(T)
    BY <1>1, <1>6
<1> QED BY <1>6, <1>7, <1>8 DEF T

\* It is the only one of them that none is above.
LEMMA GreatestIs ==
    ASSUME NEW S \in SUBSET Nat, NEW n \in S, \A k \in S : k <= n
    PROVE  Greatest(S) = n
<1>1. Bounded(S)
    BY DEF Bounded
<1>2. n <= Greatest(S) /\ Greatest(S) \in Nat /\ n \in Nat
    BY <1>1, GreatestFacts
<1>3. CASE Greatest(S) = 0
    BY <1>2, <1>3
<1>4. CASE Greatest(S) \in S
    BY <1>2, <1>4
<1> QED BY <1>1, <1>3, <1>4, GreatestFacts

\* It is 0 when there are none.
LEMMA GreatestOfNone == Greatest({}) = 0
<1>1. Bounded({})
    BY DEF Bounded
<1> QED BY <1>1, GreatestFacts

\* Finitely many naturals have a bound.
LEMMA FiniteBounded ==
    ASSUME NEW S \in SUBSET Nat, IsFiniteSet(S)
    PROVE  Bounded(S)
<1>1. PICK f : f \in Bijection(1..Cardinality(S), S)
    BY FS_CardinalityType DEF ExistsBijection
<1>2. Cardinality(S) \in Nat
    BY FS_CardinalityType
<1> DEFINE n == Cardinality(S)
<1>3. f \in [1..n -> S] /\ \A x \in S : \E i \in 1..n : f[i] = x
    BY <1>1 DEF Bijection, Injection, Surjection
<1> HIDE DEF n
<1>4. n \in Nat
    BY <1>2 DEF n
<1>5. \A i \in 1..n : f[i] \in Nat
    BY <1>3
<1> DEFINE Below(k) == \E b \in Nat : \A i \in 1..k : f[i] <= b
           Bad == {k \in 0..n : ~Below(k)}
<1>6. Below(0)
    OBVIOUS
<1>7. ASSUME NEW k \in 1..n, Below(k - 1)
      PROVE  Below(k)
  <2>1. PICK b \in Nat : \A i \in 1..(k - 1) : f[i] <= b
      BY <1>7
  <2>2. f[k] \in Nat
      BY <1>5
  <2>3. PICK c \in Nat : b <= c /\ f[k] <= c
      BY <2>1, <2>2
  <2>4. ASSUME NEW i \in 1..k
        PROVE  f[i] <= c
    <3>1. CASE i = k
        BY <2>3, <3>1
    <3>2. CASE i \in 1..(k - 1)
      <4>1. f[i] <= b
          BY <2>1, <3>2
      <4>2. i \in 1..n
          BY <1>4
      <4>3. f[i] \in Nat
          BY <1>5, <4>2
      <4> QED BY <2>1, <2>3, <4>1, <4>3
    <3> QED BY <1>4, <3>1, <3>2
  <2> QED BY <2>4
<1> HIDE DEF Below
<1>8. Bad = {}
  <2> SUFFICES ASSUME Bad # {} PROVE FALSE
      OBVIOUS
  <2>1. Bad \in SUBSET Nat
      BY <1>4
  <2>2. PICK k \in Bad : \A j \in Bad : k <= j
      BY <2>1, LeastExists
  <2>3. k \in 0..n /\ ~Below(k)
      OBVIOUS
  <2>4. k \in 1..n
      BY <1>4, <1>6, <2>3
  <2>5. k - 1 \in 0..n /\ ~(k <= k - 1)
      BY <1>4, <2>4
  <2>6. Below(k - 1)
      BY <2>2, <2>5
  <2> QED BY <1>7, <2>3, <2>4, <2>6
<1>9. Below(n)
    BY <1>4, <1>8
<1> QED BY <1>3, <1>9 DEF Bounded, Below

\* Finitely many scripts have a highest version.
LEMMA VersionsBounded ==
    ASSUME SchemaHistoryAssumption
    PROVE  \E b \in Nat : \A s \in Scripts : VersionOf[s] \in Nat /\ VersionOf[s] <= b
<1> DEFINE Numbers == {VersionOf[s] : s \in Scripts}
           f == [s \in Scripts |-> VersionOf[s]]
<1>1. IsFiniteSet(Scripts) /\ \A s \in Scripts : VersionOf[s] \in Nat
    BY DEF SchemaHistoryAssumption
<1>2. f \in Surjection(Scripts, Numbers)
    BY DEF Surjection
<1>3. IsFiniteSet(Numbers)
    BY <1>1, <1>2, FS_Surjection
<1>4. Numbers \in SUBSET Nat
    BY <1>1
<1>5. PICK b \in Nat : \A n \in Numbers : n <= b
    BY <1>3, <1>4, FiniteBounded DEF Bounded
<1> QED BY <1>1, <1>5

-----------------------------------------------------------------------------
(* What is true of every history.                                          *)

RowKinds == {"SQL", "UNDO_SQL", "REPEATABLE", "BASELINE", "DELETE"}
RowType == [rank : Nat \ {0}, kind : RowKinds, version : Nat, script : Scripts \cup {"baseline"},
            sum : Nat, ok : BOOLEAN]

\* A row belongs to a script, and has its version and kind; a baseline has a version of
\* a script; markers and baselines are always successes.
RowOk(r) ==
    /\ r \in RowType
    /\ r.kind = "BASELINE" => r.script = "baseline" /\ r.ok /\ r.version \in Versions
    /\ r.kind # "BASELINE" => r.script \in Scripts /\ r.version = VersionOf[r.script]
    /\ r.kind \notin {"BASELINE", "DELETE"} => KindOf[r.script] = r.kind
    /\ r.kind = "DELETE" => r.ok

HistoryOk(h) ==
    /\ \A r \in h : RowOk(r)
    /\ \A r, x \in h : r.rank = x.rank => r = x
    /\ Bounded({r.rank : r \in h})

\* A part of a history is one.
LEMMA PartOk ==
    ASSUME NEW h, HistoryOk(h), NEW g \in SUBSET h
    PROVE  HistoryOk(g)
BY DEF HistoryOk, Bounded

\* A history is finite: its ranks are distinct and have a bound.
LEMMA HistoryFinite ==
    ASSUME NEW h, HistoryOk(h)
    PROVE  IsFiniteSet(h)
<1>1. PICK b \in Nat : \A r \in h : r.rank <= b
    BY DEF HistoryOk, Bounded
<1>2. \A r \in h : r.rank \in 0..b
    BY <1>1 DEF HistoryOk, RowOk, RowType
<1> DEFINE f == [r \in h |-> r.rank]
<1>3. f \in [h -> 0..b] /\ \A r, x \in h : f[r] = f[x] => r = x
    BY <1>2 DEF HistoryOk
<1>4. f \in Injection(h, 0..b)
    BY <1>3 DEF Injection, IsInjective
<1>5. IsFiniteSet(0..b)
    BY FS_Interval
<1> HIDE DEF f
<1> QED BY <1>4, <1>5, FS_Injection

\* The highest rank of some rows.
Latest(T) == Greatest({r.rank : r \in T})

LEMMA LatestFacts ==
    ASSUME NEW h, HistoryOk(h), NEW T \in SUBSET h
    PROVE  /\ Latest(T) \in Nat
           /\ \A r \in T : r.rank \in Nat /\ r.rank > 0 /\ r.rank <= Latest(T)
           /\ Latest(T) = 0 <=> T = {}
           /\ Latest(T) # 0 => \E r \in T : r.rank = Latest(T)
<1> DEFINE ranks == {r.rank : r \in T}
<1>1. \A r \in T : r.rank \in Nat /\ r.rank > 0
    BY DEF HistoryOk, RowOk, RowType
<1>2. ranks \in SUBSET Nat
    BY <1>1
<1>3. Bounded(ranks)
    BY DEF HistoryOk, Bounded
<1>4. /\ Latest(T) \in Nat
      /\ \A n \in ranks : n <= Latest(T)
      /\ Latest(T) = 0 \/ Latest(T) \in ranks
    BY <1>2, <1>3, GreatestFacts DEF Latest
<1>5. \A r \in T : r.rank <= Latest(T)
    BY <1>4
<1>6. T # {} => Latest(T) # 0
    BY <1>1, <1>4, <1>5
<1>7. Latest(T) # 0 => \E r \in T : r.rank = Latest(T)
    BY <1>4
<1> QED BY <1>1, <1>4, <1>5, <1>6, <1>7

\* The row of some rows that has the highest rank is the one found by it.
LEMMA LatestIs ==
    ASSUME NEW h, HistoryOk(h), NEW T \in SUBSET h, NEW r \in T, \A x \in T : x.rank <= r.rank
    PROVE  Latest(T) = r.rank
<1>1. r.rank \in Nat /\ Latest(T) \in Nat /\ r.rank <= Latest(T) /\ Latest(T) # 0
    BY LatestFacts
<1>2. PICK x \in T : x.rank = Latest(T)
    BY <1>1, LatestFacts
<1> QED BY <1>1, <1>2

\* The successful rows of a kind and a version.
RowsOf(h, kind, v) == {x \in h : x.kind = kind /\ x.version = v /\ x.ok}

LEMMA RanksAre ==
    ASSUME NEW h, NEW v
    PROVE  /\ RanksOf(h, v) = [versioned |-> Latest(RowsOf(h, "SQL", v)), undo |-> Latest(RowsOf(h, "UNDO_SQL", v))]
           /\ RanksOf(h, v).versioned = Latest(RowsOf(h, "SQL", v))
           /\ RanksOf(h, v).undo = Latest(RowsOf(h, "UNDO_SQL", v))
<1>1. RanksOf(h, v) = [versioned |-> Latest(RowsOf(h, "SQL", v)), undo |-> Latest(RowsOf(h, "UNDO_SQL", v))]
    BY DEF RanksOf, Latest, RowsOf
<1> QED BY <1>1

\* What the latest ranks of a version say of its rows.
RanksSay(h, v) ==
    /\ RanksOf(h, v).versioned \in Nat /\ RanksOf(h, v).undo \in Nat
    /\ \A r \in RowsOf(h, "SQL", v) : r.rank \in Nat /\ r.rank <= RanksOf(h, v).versioned
    /\ \A r \in RowsOf(h, "UNDO_SQL", v) : r.rank \in Nat /\ r.rank <= RanksOf(h, v).undo
    /\ RanksOf(h, v).versioned = 0 <=> RowsOf(h, "SQL", v) = {}
    /\ RanksOf(h, v).undo = 0 <=> RowsOf(h, "UNDO_SQL", v) = {}
    /\ RanksOf(h, v).versioned # 0 => \E r \in RowsOf(h, "SQL", v) : r.rank = RanksOf(h, v).versioned
    /\ RanksOf(h, v).undo # 0 => \E r \in RowsOf(h, "UNDO_SQL", v) : r.rank = RanksOf(h, v).undo

LEMMA RanksFacts ==
    ASSUME NEW h, HistoryOk(h), NEW v
    PROVE  RanksSay(h, v)
<1>1. RowsOf(h, "SQL", v) \in SUBSET h /\ RowsOf(h, "UNDO_SQL", v) \in SUBSET h
    BY DEF RowsOf
<1> HIDE DEF RowsOf
<1> QED BY <1>1, LatestFacts, RanksAre DEF RanksSay

\* The latest rows of a version are not one row.
LEMMA RanksDiffer ==
    ASSUME NEW h, HistoryOk(h), NEW v, RanksOf(h, v).versioned = RanksOf(h, v).undo
    PROVE  RanksOf(h, v).versioned = 0
<1> SUFFICES ASSUME RanksOf(h, v).versioned # 0 PROVE FALSE
    OBVIOUS
<1>1. PICK r \in RowsOf(h, "SQL", v) : r.rank = RanksOf(h, v).versioned
    BY RanksFacts DEF RanksSay
<1>2. PICK u \in RowsOf(h, "UNDO_SQL", v) : u.rank = RanksOf(h, v).versioned
    BY RanksFacts DEF RanksSay
<1>3. r \in h /\ u \in h /\ r.kind = "SQL" /\ u.kind = "UNDO_SQL"
    BY DEF RowsOf
<1> QED BY <1>1, <1>2, <1>3 DEF HistoryOk

\* A version is in place, by its rows.
PlacedBy(h, v) == RanksOf(h, v).versioned > RanksOf(h, v).undo

\* It is undone when it was undone last, in place when it ran and is not undone.
LEMMA UndoneIs ==
    ASSUME NEW h, HistoryOk(h), NEW v
    PROVE  /\ v \in Undone(h) <=> RanksOf(h, v).undo > RanksOf(h, v).versioned
           /\ PlacedBy(h, v) <=> RowsOf(h, "SQL", v) # {} /\ v \notin Undone(h)
           /\ CurrentlyUndone(h, v) <=> v \in Undone(h)
<1> DEFINE a == RanksOf(h, v).versioned
           b == RanksOf(h, v).undo
<1>1. v \in Undone(h) <=> RowsOf(h, "UNDO_SQL", v) # {} /\ ~(b > 0 /\ a > b)
    BY DEF Undone, Reapplied, RowsOf
<1>2. /\ a \in Nat /\ b \in Nat
      /\ a = b => a = 0
      /\ b = 0 <=> RowsOf(h, "UNDO_SQL", v) = {}
      /\ a = 0 <=> RowsOf(h, "SQL", v) = {}
    BY RanksFacts, RanksDiffer DEF RanksSay
<1>3. PlacedBy(h, v) <=> a > b
    BY DEF PlacedBy
<1>4. CurrentlyUndone(h, v) <=> b > a
    BY DEF CurrentlyUndone
<1> HIDE DEF a, b
<1>5. v \in Undone(h) <=> b > a
    BY <1>1, <1>2
<1>6. a > b <=> RowsOf(h, "SQL", v) # {} /\ ~(b > a)
    BY <1>2
<1> QED BY <1>3, <1>4, <1>5, <1>6 DEF a, b

\* The rows that say a script succeeded.
SuccessRows(h, s) == {x \in h : x.script = s /\ x.ok /\ x.kind \notin {"DELETE", "UNDO_SQL"}}

\* A script succeeded when it has such a row, and its row is the latest of them.
LEMMA SuccessFacts ==
    ASSUME NEW h, HistoryOk(h), NEW s
    PROVE  /\ Successful(h, s) <=> SuccessRows(h, s) # {}
           /\ Successful(h, s) => /\ SuccessRow(h, s) \in SuccessRows(h, s)
                                 /\ \A x \in SuccessRows(h, s) : x.rank <= SuccessRow(h, s).rank
<1>1. LatestSuccess(h, s) = Latest(SuccessRows(h, s))
    BY DEF LatestSuccess, Latest, SuccessRows
<1>2. SuccessRows(h, s) \in SUBSET h
    BY DEF SuccessRows
<1>3. Successful(h, s) <=> SuccessRows(h, s) # {}
    BY <1>1, <1>2, LatestFacts DEF Successful
<1>4. ASSUME Successful(h, s)
      PROVE  /\ SuccessRow(h, s) \in SuccessRows(h, s)
             /\ \A x \in SuccessRows(h, s) : x.rank <= SuccessRow(h, s).rank
  <2>1. PICK r \in SuccessRows(h, s) : r.rank = LatestSuccess(h, s)
      BY <1>1, <1>2, <1>4, LatestFacts DEF Successful
  <2>2. SuccessRow(h, s) \in h /\ SuccessRow(h, s).rank = LatestSuccess(h, s)
      BY <1>2, <2>1 DEF SuccessRow
  <2>3. SuccessRow(h, s) = r
      BY <1>2, <2>1, <2>2 DEF HistoryOk
  <2> QED BY <1>1, <1>2, <2>1, <2>3, LatestFacts
<1> QED BY <1>3, <1>4

\* The latest of the rows that say so is the script's.
LEMMA SuccessIs ==
    ASSUME NEW h, HistoryOk(h), NEW s, NEW r \in SuccessRows(h, s),
           \A x \in SuccessRows(h, s) : x.rank <= r.rank
    PROVE  Successful(h, s) /\ SuccessRow(h, s) = r
<1>1. /\ Successful(h, s) /\ SuccessRow(h, s) \in SuccessRows(h, s)
      /\ r.rank <= SuccessRow(h, s).rank /\ SuccessRow(h, s).rank <= r.rank
    BY SuccessFacts
<1>2. r \in h /\ SuccessRow(h, s) \in h
    BY <1>1 DEF SuccessRows
<1>3. r.rank \in Nat /\ SuccessRow(h, s).rank \in Nat
    BY <1>2 DEF HistoryOk, RowOk, RowType
<1> QED BY <1>1, <1>2, <1>3 DEF HistoryOk

\* The rows of a repeatable script, and the status its latest row gives it.
Runs(h, s) == {r \in h : r.kind = "REPEATABLE" /\ r.script = s}
StatusBy(r, c) == IF r.ok THEN IF r.sum = c THEN "UNCHANGED" ELSE "CHANGED"
                  ELSE IF r.sum = c THEN "FAILED_UNCHANGED" ELSE "FAILED_CHANGED"

LEMMA StatusFacts ==
    ASSUME NEW h, HistoryOk(h), NEW s
    PROVE  \/ Runs(h, s) = {} /\ RepeatableStatus(h, s) = "NEW"
           \/ \E r \in Runs(h, s) : /\ \A x \in Runs(h, s) : x.rank <= r.rank
                                    /\ RepeatableStatus(h, s) = StatusBy(r, files[s])
<1> DEFINE latest == CHOOSE r \in Runs(h, s) : \A x \in Runs(h, s) : x.rank <= r.rank
<1>1. RepeatableStatus(h, s) = IF Runs(h, s) = {} THEN "NEW" ELSE StatusBy(latest, files[s])
    BY DEF RepeatableStatus, Runs, StatusBy
<1>2. Runs(h, s) \in SUBSET h
    BY DEF Runs
<1>3. CASE Runs(h, s) = {}
    BY <1>1, <1>3
<1>4. CASE Runs(h, s) # {}
  <2>1. \E r \in Runs(h, s) : r.rank = Latest(Runs(h, s))
      BY <1>2, <1>4, LatestFacts
  <2>2. \E r \in Runs(h, s) : \A x \in Runs(h, s) : x.rank <= r.rank
      BY <1>2, <2>1, LatestFacts
  <2>3. latest \in Runs(h, s) /\ \A x \in Runs(h, s) : x.rank <= latest.rank
      BY <2>2
  <2> HIDE DEF latest
  <2> QED BY <1>1, <1>4, <2>3
<1> QED BY <1>3, <1>4

\* What runs of a repeatable script succeeded are its only successes.
LEMMA RepeatableRows ==
    ASSUME NEW h, HistoryOk(h), NEW s \in Of("REPEATABLE"), SchemaHistoryAssumption
    PROVE  SuccessRows(h, s) = {r \in Runs(h, s) : r.ok}
<1>1. s \in Scripts /\ KindOf[s] = "REPEATABLE" /\ s # "baseline"
    BY DEF Of, SchemaHistoryAssumption
<1>2. \A r \in h : r.script = s /\ r.kind \notin {"DELETE", "UNDO_SQL"} => r.kind = "REPEATABLE"
    BY <1>1 DEF HistoryOk, RowOk
<1> QED BY <1>2 DEF SuccessRows, Runs

-----------------------------------------------------------------------------
(* The invariant                                                           *)

\* The variables have their types, the history is one.
TypeInv ==
    /\ files \in [Scripts -> Nat] /\ accepted \in [Scripts -> Nat]
    /\ grouping \in Groupings /\ edits \in Nat /\ inPlace \in SUBSET Versions
    /\ HistoryOk(history)

\* The latest rows of a version tell whether it is in place.
PlacesInv == \A v \in Versions : v \in inPlace <=> PlacedBy(history, v)

\* The latest success of a repeatable script has the checksum of what ran.
AcceptedInv ==
    \A s \in Of("REPEATABLE") :
        accepted[s] = IF Successful(history, s) THEN SuccessRow(history, s).sum ELSE 0

HInv == TypeInv /\ PlacesInv /\ AcceptedInv

-----------------------------------------------------------------------------
(* What follows from it.                                                   *)

\* A row's version is 0 exactly for a repeatable script; SQL rows and baselines have one
\* of the versions.
LEMMA RowVersions ==
    ASSUME SchemaHistoryAssumption, NEW h, HistoryOk(h), NEW r \in h
    PROVE  /\ r.kind \in {"SQL", "BASELINE"} => r.version \in Versions
           /\ r.kind \in {"SQL", "BASELINE", "UNDO_SQL"} => r.version # 0
           /\ r.kind = "REPEATABLE" => r.version = 0
           /\ r.version \in Nat
<1>1. RowOk(r)
    BY DEF HistoryOk
<1>2. \A v \in Versions : v # 0 /\ v \in Nat
    BY DEF Versions, Of, SchemaHistoryAssumption
<1>3. \A s \in Scripts : KindOf[s] = "REPEATABLE" <=> VersionOf[s] = 0
    BY DEF SchemaHistoryAssumption
<1>4. r.kind = "SQL" => r.script \in Of("SQL") /\ r.version \in Versions
    BY <1>1 DEF RowOk, Versions, Of
<1>5. r.version \in Nat
    BY <1>1 DEF RowOk, RowType
<1> QED BY <1>1, <1>2, <1>3, <1>4, <1>5 DEF RowOk

\* A version that no failed row is about is in place when it counts as executed.
LEMMA ExecutedIs ==
    ASSUME HInv, NEW v \in Versions
    PROVE  /\ v \notin {r.version : r \in FailedRows(history)} => (v \in inPlace <=> v \in ExecutedVersions(history))
           /\ v \in inPlace => v \in ExecutedVersions(history) /\ v \notin Undone(history)
<1>1. v \in inPlace <=> RowsOf(history, "SQL", v) # {} /\ v \notin Undone(history)
    BY UndoneIs DEF HInv, TypeInv, PlacesInv
<1>2. RowsOf(history, "SQL", v) # {} <=> v \in {r.version : r \in {x \in history : x.kind = "SQL" /\ x.ok}}
    BY DEF RowsOf
<1> QED BY <1>1, <1>2 DEF ExecutedVersions

\* The current version is the highest one in place or baselined.
LEMMA CurrentIs ==
    ASSUME SchemaHistoryAssumption, HInv
    PROVE  CurrentVersion(history) = Greatest(inPlace \cup Baselined)
<1> DEFINE standing == {x \in history : x.ok /\ (x.kind = "BASELINE" \/ (x.kind = "SQL" /\ x.version \notin Undone(history)))}
<1>1. CurrentVersion(history) = Greatest({r.version : r \in standing})
    BY DEF CurrentVersion
<1>2. HistoryOk(history) /\ inPlace \subseteq Versions
    BY DEF HInv, TypeInv
<1>3. ASSUME NEW r \in standing
      PROVE  r.version \in inPlace \cup Baselined
  <2>1. CASE r.kind = "BASELINE"
      BY <2>1 DEF Baselined
  <2>2. CASE r.kind = "SQL"
    <3>1. r.version \in Versions
        BY <1>2, <2>2, RowVersions
    <3>2. r \in RowsOf(history, "SQL", r.version)
        BY <2>2 DEF RowsOf
    <3> QED BY <1>2, <2>2, <3>1, <3>2, UndoneIs DEF HInv, PlacesInv
  <2> QED BY <2>1, <2>2
<1>4. ASSUME NEW v \in inPlace
      PROVE  \E r \in standing : r.version = v
  <2>1. RowsOf(history, "SQL", v) # {} /\ v \notin Undone(history)
      BY <1>2, UndoneIs DEF HInv, PlacesInv
  <2> QED BY <2>1 DEF RowsOf
<1>5. ASSUME NEW v \in Baselined
      PROVE  \E r \in standing : r.version = v
    BY <1>2 DEF Baselined, HistoryOk, RowOk
<1>6. {r.version : r \in standing} = inPlace \cup Baselined
    BY <1>3, <1>4, <1>5
<1> QED BY <1>1, <1>6

\* The status of a repeatable script tells whether it still has to run: unless its latest
\* run failed, what it ran with is what it was accepted with.
LEMMA RepeatableIs ==
    ASSUME SchemaHistoryAssumption, HInv, NEW s \in Of("REPEATABLE"), OnDisk(s)
    PROVE  /\ Reapplies(history, s) => accepted[s] # files[s] \/ s \in FailedScripts(history)
           /\ ~Reapplies(history, s) /\ s \notin FailedScripts(history) => accepted[s] = files[s]
<1>1. HistoryOk(history) /\ files[s] # 0
    BY DEF HInv, TypeInv, OnDisk
<1>2. accepted[s] = IF Successful(history, s) THEN SuccessRow(history, s).sum ELSE 0
    BY DEF HInv, AcceptedInv
<1>3. SuccessRows(history, s) = {r \in Runs(history, s) : r.ok}
    BY <1>1, RepeatableRows
<1>4. CASE Runs(history, s) = {} /\ RepeatableStatus(history, s) = "NEW"
  <2>1. ~Successful(history, s)
      BY <1>1, <1>3, <1>4, SuccessFacts
  <2> QED BY <1>1, <1>2, <1>4, <2>1 DEF Reapplies
<1>5. ASSUME NEW r \in Runs(history, s), \A x \in Runs(history, s) : x.rank <= r.rank,
             RepeatableStatus(history, s) = StatusBy(r, files[s])
      PROVE  /\ Reapplies(history, s) => accepted[s] # files[s] \/ s \in FailedScripts(history)
             /\ ~Reapplies(history, s) /\ s \notin FailedScripts(history) => accepted[s] = files[s]
  <2>1. CASE r.ok
    <3>1. r \in SuccessRows(history, s) /\ \A x \in SuccessRows(history, s) : x.rank <= r.rank
        BY <1>3, <1>5, <2>1
    <3>2. accepted[s] = r.sum
        BY <1>1, <1>2, <3>1, SuccessIs
    <3> QED BY <1>5, <2>1, <3>2 DEF Reapplies, StatusBy
  <2>2. CASE ~r.ok
      BY <2>2 DEF FailedScripts, FailedRows, Runs
  <2> QED BY <2>1, <2>2
<1> QED BY <1>1, <1>4, <1>5, StatusFacts

\* What is planned is not in the database.
LEMMA PendingIs ==
    ASSUME SchemaHistoryAssumption, HInv, NEW q, NEW s \in PendingSet(history, q)
    PROVE  IF KindOf[s] = "SQL" THEN VersionOf[s] \notin inPlace
           ELSE accepted[s] # files[s] \/ s \in FailedScripts(history)
<1>1. \/ s \in VersionedPending(history)
      \/ s \in Of("REPEATABLE") /\ OnDisk(s) /\ Reapplies(history, s)
    BY DEF PendingSet, Eligible
<1>2. CASE s \in VersionedPending(history)
  <2>1. KindOf[s] = "SQL" /\ VersionOf[s] \in Versions
      BY <1>2 DEF VersionedPending, Of, Versions
  <2>2. VersionOf[s] \in Undone(history) \/ VersionOf[s] \notin ExecutedVersions(history)
      BY <1>2 DEF VersionedPending
  <2> QED BY <2>1, <2>2, ExecutedIs
<1>3. CASE s \in Of("REPEATABLE") /\ OnDisk(s) /\ Reapplies(history, s)
    BY <1>3, RepeatableIs DEF Of
<1> QED BY <1>1, <1>2, <1>3

\* A version in place that ran below one that was in place is out of order.
LEMMA OutOfOrderIs ==
    ASSUME NEW h, HistoryOk(h), NEW v, RanksOf(h, v).versioned # 0,
           NEW r \in WithoutUndone({x \in h : x.rank < RanksOf(h, v).versioned}),
           r.kind = "SQL", r.ok, r.version > v
    PROVE  v \in OutOfOrderVersions(h)
<1> DEFINE before == {x \in h : x.rank < RanksOf(h, v).versioned}
           w == r.version
<1>1. HistoryOk(before)
    BY PartOk
<1> HIDE DEF w
<1>2. r \in before /\ r \in RowsOf(before, "SQL", w) /\ w \notin Undone(before)
    BY DEF WithoutUndone, w, RowsOf
<1>3. PlacedBy(before, w)
    BY <1>1, <1>2, UndoneIs
<1>4. RanksSay(before, w) /\ RanksSay(h, v)
    BY <1>1, RanksFacts
<1>5. PICK x \in RowsOf(before, "SQL", w) : x.rank = RanksOf(before, w).versioned
    BY <1>3, <1>4 DEF RanksSay, PlacedBy
<1>6. PICK y \in RowsOf(h, "SQL", v) : y.rank = RanksOf(h, v).versioned
    BY <1>4 DEF RanksSay
<1>7. ASSUME NEW u \in h, u.kind = "UNDO_SQL", u.ok, u.version = w, x.rank < u.rank, u.rank < y.rank
      PROVE  FALSE
  <2>1. u \in RowsOf(before, "UNDO_SQL", w)
      BY <1>6, <1>7 DEF RowsOf
  <2>2. u.rank \in Nat /\ u.rank <= RanksOf(before, w).undo /\ RanksOf(before, w).undo \in Nat
      BY <1>4, <2>1 DEF RanksSay
  <2>3. x.rank \in Nat /\ x.rank > RanksOf(before, w).undo
      BY <1>3, <1>4, <1>5 DEF PlacedBy, RanksSay
  <2> QED BY <1>7, <2>2, <2>3
<1>8. /\ x \in h /\ x.kind = "SQL" /\ x.version = w /\ x.rank < y.rank
      /\ y \in h /\ y.kind = "SQL" /\ y.version = v /\ w > v
    BY <1>5, <1>6 DEF RowsOf, w
<1> QED BY <1>7, <1>8 DEF OutOfOrderVersions

\* What info shows of a successful row of a version.
LEMMA ShownIs ==
    ASSUME NEW h, NEW r \in h, r.kind = "SQL", r.ok
    PROVE  Shown(h, r) = IF r.version \in Undone(h) THEN "Undone"
                         ELSE IF r.version \in OutOfOrderVersions(h) THEN "Out of order"
                         ELSE IF OnDisk(r.script) THEN "Success" ELSE Unresolved(h, r)
BY DEF Shown

\* A version in place is not above the current one.
LEMMA CurrentIsAbove ==
    ASSUME SchemaHistoryAssumption, HInv, NEW v \in inPlace
    PROVE  CurrentVersion(history) \in Nat /\ v \in Nat /\ v <= CurrentVersion(history)
<1>1. PICK b \in Nat : \A s \in Scripts : VersionOf[s] \in Nat /\ VersionOf[s] <= b
    BY VersionsBounded
<1>2. \A w \in Versions : w \in Nat /\ w <= b
    BY <1>1 DEF Versions, Of
<1>3. inPlace \cup Baselined \subseteq Versions
    BY DEF HInv, TypeInv, Baselined, HistoryOk, RowOk
<1>4. inPlace \cup Baselined \in SUBSET Nat /\ Bounded(inPlace \cup Baselined)
    BY <1>2, <1>3 DEF Bounded
<1> HIDE DEF Baselined
<1> QED BY <1>4, CurrentIs, GreatestFacts

\* The states info shows of the successful rows of a version.
Places(v) == {Shown(history, r) : r \in {x \in Listed(history) : x.kind = "SQL" /\ x.version = v /\ x.ok}}

LEMMA PlacesAre ==
    ASSUME SchemaHistoryAssumption, HInv, NEW v \in Versions
    PROVE  /\ v \in inPlace => Places(v) # {} /\ Places(v) \subseteq {"Success", "Out of order", "Missing"}
           /\ v \notin inPlace => Places(v) \subseteq {"Undone"}
           /\ v \in inPlace /\ v \in OutOfOrderVersions(history) => Places(v) = {"Out of order"}
<1> DEFINE rows == RowsOf(history, "SQL", v)
<1>1. {x \in Listed(history) : x.kind = "SQL" /\ x.version = v /\ x.ok} = rows
    BY DEF Listed, RowsOf
<1>2. Places(v) = {Shown(history, r) : r \in rows}
    BY <1>1 DEF Places
<1>3. \A r \in rows : r \in history /\ r.kind = "SQL" /\ r.ok /\ r.version = v
    BY DEF RowsOf
<1>4. v \in inPlace <=> rows # {} /\ v \notin Undone(history)
    BY UndoneIs DEF HInv, TypeInv, PlacesInv
<1> HIDE DEF rows
<1>5. ASSUME NEW r \in rows
      PROVE  Shown(history, r) = IF v \in Undone(history) THEN "Undone"
                                 ELSE IF v \in OutOfOrderVersions(history) THEN "Out of order"
                                 ELSE IF OnDisk(r.script) THEN "Success" ELSE Unresolved(history, r)
  <2>1. r \in history /\ r.kind = "SQL" /\ r.ok /\ r.version = v
      BY <1>3
  <2>2. Shown(history, r) = IF r.version \in Undone(history) THEN "Undone"
                            ELSE IF r.version \in OutOfOrderVersions(history) THEN "Out of order"
                            ELSE IF OnDisk(r.script) THEN "Success" ELSE Unresolved(history, r)
      BY <2>1, ShownIs
  <2> QED BY ONLY <2>1, <2>2
<1>6. ASSUME NEW r \in rows, v \in inPlace
      PROVE  Unresolved(history, r) = "Missing"
  <2>1. CurrentVersion(history) \in Nat /\ v \in Nat /\ v <= CurrentVersion(history)
      BY <1>6, CurrentIsAbove
  <2>2. ~(v > CurrentVersion(history))
      BY <2>1
  <2> QED BY <1>3, <2>2 DEF Unresolved
<1> QED BY <1>2, <1>4, <1>5, <1>6

\* Info lists every version and repeatable script as what it is.
LEMMA InfoTrue ==
    ASSUME SchemaHistoryAssumption, HInv
    PROVE  InfoIsTrue
<1>1. HistoryOk(history)
    BY DEF HInv, TypeInv
<1>2. ASSUME NEW v \in Versions, v \in inPlace,
             \E r \in WithoutUndone({x \in history : x.rank < RanksOf(history, v).versioned}) :
                r.kind = "SQL" /\ r.ok /\ r.version > v
      PROVE  v \in OutOfOrderVersions(history)
  <2>1. PlacedBy(history, v)
      BY <1>2 DEF HInv, PlacesInv
  <2>2. RanksOf(history, v).versioned # 0
      BY <1>1, <2>1, RanksFacts DEF RanksSay, PlacedBy
  <2> QED BY <1>1, <1>2, <2>2, OutOfOrderIs
<1>3. ASSUME NEW r \in Listed(history), r.kind = "REPEATABLE", Shown(history, r) = "Success",
             r.script \notin FailedScripts(history)
      PROVE  accepted[r.script] = files[r.script]
  <2>1. r \in history /\ RowOk(r)
      BY <1>1 DEF Listed, HistoryOk
  <2>2. r.ok
      BY <1>3, <2>1 DEF FailedScripts, FailedRows
  <2>3. r.script \in Of("REPEATABLE")
      BY <1>3, <2>1 DEF RowOk, Of
  <2>4. r.version \notin Undone(history)
    <3>1. r.version = 0
        BY <1>1, <1>3, <2>1, RowVersions
    <3>2. \A x \in history : x.kind = "UNDO_SQL" => x.version # 0
        BY <1>1, RowVersions
    <3> QED BY <3>1, <3>2 DEF Undone
  <2>5. r.script \notin Changed(history) /\ OnDisk(r.script)
      BY <1>3, <2>2, <2>4 DEF Shown, Unresolved
  <2>6. r \in SuccessRows(history, r.script)
      BY <1>3, <2>1, <2>2 DEF SuccessRows
  <2>7. Successful(history, r.script)
      BY <1>1, <2>6, SuccessFacts
  <2>8. ~Reapplies(history, r.script) \/ SuccessRow(history, r.script).sum = files[r.script]
      BY <2>3, <2>5, <2>7 DEF Changed
  <2>9. accepted[r.script] = SuccessRow(history, r.script).sum
      BY <2>3, <2>7 DEF HInv, AcceptedInv
  <2> QED BY <1>3, <2>3, <2>5, <2>8, <2>9, RepeatableIs
<1>4. ASSUME NEW v \in Versions \ Doubtful
      PROVE  /\ v \in inPlace <=> Places(v) \cap {"Success", "Out of order", "Missing"} # {}
             /\ v \in inPlace => Places(v) \cap {"Undone", "Future"} = {}
             /\ v \in inPlace /\ (\E r \in WithoutUndone({x \in history : x.rank < RanksOf(history, v).versioned}) :
                                     r.kind = "SQL" /\ r.ok /\ r.version > v) => Places(v) = {"Out of order"}
  <2>1. /\ v \in inPlace => Places(v) # {} /\ Places(v) \subseteq {"Success", "Out of order", "Missing"}
        /\ v \notin inPlace => Places(v) \subseteq {"Undone"}
        /\ v \in inPlace /\ v \in OutOfOrderVersions(history) => Places(v) = {"Out of order"}
      BY PlacesAre
  <2>2. v \in inPlace <=> Places(v) \cap {"Success", "Out of order", "Missing"} # {}
      BY <2>1
  <2>3. v \in inPlace => Places(v) \cap {"Undone", "Future"} = {}
      BY <2>1
  <2> QED BY <1>2, <2>1, <2>2, <2>3
<1> QED BY <1>3, <1>4 DEF InfoIsTrue, Places

\* The invariant is what makes the history tell the schema.
LEMMA Tells ==
    ASSUME SchemaHistoryAssumption, HInv
    PROVE  HistoryTellsTheSchema
<1>1. \A v \in Versions \ Doubtful : v \in inPlace <=> v \in ExecutedVersions(history)
    BY ExecutedIs DEF Doubtful
<1>2. CurrentVersion(history) = Greatest(inPlace \cup Baselined)
    BY CurrentIs
<1>3. \A q \in Requests : \A s \in PendingSet(history, q) :
        IF KindOf[s] = "SQL" THEN VersionOf[s] \notin inPlace
        ELSE accepted[s] # files[s] \/ s \in FailedScripts(history)
    BY PendingIs
<1>4. \A s \in Of("REPEATABLE") : OnDisk(s) /\ s \notin FailedScripts(history) /\ ~Reapplies(history, s)
        => accepted[s] = files[s]
    BY RepeatableIs
<1> QED BY <1>1, <1>2, <1>3, <1>4, InfoTrue DEF HistoryTellsTheSchema

-----------------------------------------------------------------------------
(* Validation foresees what migrate enforces.                              *)

\* Leaving out the rows of what is undone changes neither what is undone nor which
\* version is the current one.
LEMMA SameWithoutUndone ==
    ASSUME NEW h, HistoryOk(h)
    PROVE  /\ Undone(WithoutUndone(h)) = Undone(h)
           /\ CurrentVersion(WithoutUndone(h)) = CurrentVersion(h)
<1> DEFINE g == WithoutUndone(h)
<1>1. g = {r \in h : r.kind # "SQL" \/ r.version \notin Undone(h)}
    BY DEF WithoutUndone
<1>2. HistoryOk(g)
    BY <1>1, PartOk
<1> HIDE DEF g
<1>3. ASSUME NEW v
      PROVE  /\ RowsOf(g, "UNDO_SQL", v) = RowsOf(h, "UNDO_SQL", v)
             /\ RowsOf(g, "SQL", v) = IF v \in Undone(h) THEN {} ELSE RowsOf(h, "SQL", v)
    BY <1>1 DEF RowsOf
<1>4. ASSUME NEW v
      PROVE  v \in Undone(g) <=> v \in Undone(h)
  <2>1. RanksOf(g, v).undo = RanksOf(h, v).undo
      BY <1>3, RanksAre
  <2>2. CASE v \in Undone(h)
    <3>1. RanksOf(g, v).versioned = 0
        BY <1>2, <1>3, <2>2, RanksFacts DEF RanksSay
    <3>2. /\ RanksOf(h, v).undo > RanksOf(h, v).versioned
          /\ RanksOf(h, v).undo \in Nat /\ RanksOf(h, v).versioned \in Nat
        BY <2>2, UndoneIs, RanksFacts DEF RanksSay
    <3>3. RanksOf(g, v).undo > RanksOf(g, v).versioned
        BY <2>1, <3>1, <3>2
    <3> QED BY <1>2, <2>2, <3>3, UndoneIs
  <2>3. CASE v \notin Undone(h)
    <3>1. RanksOf(g, v).versioned = RanksOf(h, v).versioned
        BY <1>3, <2>3, RanksAre
    <3> QED BY <1>2, <2>1, <3>1, UndoneIs
  <2> QED BY <2>2, <2>3
<1>5. Undone(g) = Undone(h)
  <2>1. \A v : v \in Undone(g) <=> v \in Undone(h)
      BY <1>4
  <2> QED BY <2>1
<1>6. {x \in g : x.ok /\ (x.kind = "BASELINE" \/ (x.kind = "SQL" /\ x.version \notin Undone(g)))}
        = {x \in h : x.ok /\ (x.kind = "BASELINE" \/ (x.kind = "SQL" /\ x.version \notin Undone(h)))}
    BY <1>1, <1>5
<1>7. CurrentVersion(g) = CurrentVersion(h)
    BY <1>6 DEF CurrentVersion
<1> QED BY <1>5, <1>7 DEF g

\* Strict mode refuses no migrate that validation let through.
LEMMA Foresees ==
    ASSUME HistoryOk(history)
    PROVE  ValidationForesees
<1> SUFFICES ASSUME NEW q \in Requests, q.strict, Valid(history, q), StrictRefuses(history, q)
             PROVE  FALSE
    BY DEF ValidationForesees
<1>1. OutOfOrder(PendingSet(history, q), CurrentVersion(history))
    BY DEF StrictRefuses
<1>2. PICK s \in PendingSet(history, q) : KindOf[s] = "SQL"
    BY <1>1 DEF OutOfOrder
<1>3. s \in Selected(q)
    BY DEF PendingSet, Selected, Eligible, VersionedPending, Of
<1>4. ~(Selected(q) \subseteq Of("REPEATABLE"))
    BY <1>2, <1>3 DEF Of
<1>5. StrictRulesHold(history, q)
    BY <1>3, <1>4 DEF Valid
<1>6. ~OutOfOrder(PendingSet(history, q), CurrentVersion(WithoutUndone(history)))
    BY <1>5 DEF StrictRulesHold, SnapshotOutOfOrder
<1> QED BY <1>1, <1>6, SameWithoutUndone

-----------------------------------------------------------------------------
(* What a repair makes of a history.                                       *)

\* The sequence of a finite set has each of its members once.
LEMMA ListedOnce ==
    ASSUME NEW S, IsFiniteSet(S)
    PROVE  /\ Cardinality(S) \in Nat
           /\ SetToSeq(S) \in [1..Cardinality(S) -> S]
           /\ \A i, j \in 1..Cardinality(S) : SetToSeq(S)[i] = SetToSeq(S)[j] => i = j
           /\ \A x \in S : \E i \in 1..Cardinality(S) : SetToSeq(S)[i] = x
<1> DEFINE n == Cardinality(S)
           f == SetToSeq(S)
<1>1. n \in Nat /\ \E g : g \in Bijection(1..n, S)
    BY FS_CardinalityType DEF ExistsBijection
<1>2. \E g \in [1..n -> S] : IsInjective(g)
    BY <1>1 DEF Bijection, Injection
<1>3. f \in [1..n -> S] /\ IsInjective(f)
    BY <1>2 DEF SetToSeq
<1> HIDE DEF f
<1>4. f \in Injection(1..n, S)
    BY <1>3 DEF Injection
<1>5. Cardinality(1..n) = n
    BY <1>1, FS_Interval
<1>6. f \in Surjection(1..n, S)
    BY <1>4, <1>5, FS_Injection
<1>7. \A i, j \in 1..n : f[i] = f[j] => i = j
    BY <1>3 DEF IsInjective
<1>8. \A x \in S : \E i \in 1..n : f[i] = x
    BY <1>6 DEF Surjection
<1> HIDE DEF n
<1> QED BY <1>1, <1>3, <1>7, <1>8 DEF f, n

\* Rows that come after a history and have ranks of their own make it a longer one.
LEMMA LongerOk ==
    ASSUME NEW h, HistoryOk(h), NEW n \in Nat, NEW new,
           \A r \in new : RowOk(r) /\ \E i \in 1..n : r.rank = Top(h) + i,
           \A r, x \in new : r.rank = x.rank => r = x
    PROVE  /\ HistoryOk(h \cup new)
           /\ Top(h) \in Nat
           /\ \A r \in h : r.rank \in Nat /\ r.rank <= Top(h)
           /\ \A r \in new : r.rank \in Nat /\ r.rank > Top(h)
<1>1. Top(h) = Latest(h)
    BY DEF Top, Latest
<1>2. Top(h) \in Nat /\ \A r \in h : r.rank \in Nat /\ r.rank <= Top(h)
    BY <1>1, LatestFacts
<1>3. \A r \in new : r.rank \in Nat /\ r.rank > Top(h) /\ r.rank <= Top(h) + n
    BY <1>2
<1>4. \A r \in h \cup new : r.rank <= Top(h) + n
    BY <1>2, <1>3
<1>5. Bounded({r.rank : r \in h \cup new})
  <2>1. Top(h) + n \in Nat
      BY <1>2
  <2> QED BY <1>4, <2>1 DEF Bounded
<1>6. \A r, x \in h \cup new : r.rank = x.rank => r = x
    BY <1>2, <1>3 DEF HistoryOk
<1>7. \A r \in h \cup new : RowOk(r)
    BY DEF HistoryOk
<1>8. HistoryOk(h \cup new)
    BY <1>5, <1>6, <1>7 DEF HistoryOk
<1> QED BY <1>2, <1>3, <1>8

\* A row stays what it is but for its checksum.
SameRow(r, x) == x.rank = r.rank /\ x.kind = r.kind /\ x.version = r.version /\ x.script = r.script /\ x.ok = r.ok

\* The checksum a repair leaves a row with.
MendedSum(h, r) == IF r.script \in Realigned(h) THEN files[r.script] ELSE r.sum

\* A repair keeps the successful rows with their mended checksums, drops the failed ones
\* and adds a marker for every script that is gone.
Mends(h, g) ==
    /\ HistoryOk(g)
    /\ \A x \in g : x.ok
    /\ \A r \in h : r.ok => \E x \in g : SameRow(r, x) /\ x.sum = MendedSum(h, r)
    /\ \A x \in g : \/ x.kind = "DELETE" /\ x.script \in Gone(h)
                    \/ \E r \in h : SameRow(r, x) /\ x.sum = MendedSum(h, r)
    /\ \A s \in Gone(h) : \E x \in g : x.kind = "DELETE" /\ x.script = s

\* What is realigned is on disk, ran and has no failed row.
LEMMA RealignedAre ==
    ASSUME NEW h, NEW s \in Realigned(h)
    PROVE  s \in Scripts /\ OnDisk(s) /\ Successful(h, s) /\ s \notin FailedScripts(h) /\ s \notin Gone(h)
BY DEF Realigned, Changed, Drift, Of, Gone, Missing

\* What is gone is not on disk.
LEMMA GoneAre ==
    ASSUME NEW h, NEW s \in Gone(h)
    PROVE  s \in Scripts /\ ~OnDisk(s) /\ s \notin Deleted(WithoutUndone(h)) /\ Successful(WithoutUndone(h), s)
BY DEF Gone, Missing

\* The markers of a repair are rows after the others, one for every script that is gone.
Marks(h) ==
    {Row(Top(h) + i, "DELETE", VersionOf[SetToSeq(Gone(h))[i]], SetToSeq(Gone(h))[i], 0, TRUE) :
        i \in DOMAIN SetToSeq(Gone(h))}

LEMMA MarksAre ==
    ASSUME SchemaHistoryAssumption, NEW h, HistoryOk(h)
    PROVE  /\ HistoryOk(h \cup Marks(h))
           /\ \A x \in Marks(h) : x.kind = "DELETE" /\ x.script \in Gone(h) /\ x.ok
           /\ \A s \in Gone(h) : \E x \in Marks(h) : x.kind = "DELETE" /\ x.script = s
<1> DEFINE gone == SetToSeq(Gone(h))
           n == Cardinality(Gone(h))
           Mark(i) == Row(Top(h) + i, "DELETE", VersionOf[gone[i]], gone[i], 0, TRUE)
<1>1. IsFiniteSet(Gone(h))
  <2>1. Gone(h) \in SUBSET Scripts
      BY GoneAre
  <2> QED BY <2>1, FS_Subset DEF SchemaHistoryAssumption
<1>2. /\ n \in Nat /\ gone \in [1..n -> Gone(h)]
      /\ \A s \in Gone(h) : \E i \in 1..n : gone[i] = s
    BY <1>1, ListedOnce
<1> HIDE DEF gone, n
<1>3. Marks(h) = {Mark(i) : i \in 1..n}
    BY <1>2 DEF Marks, gone
<1>4. ASSUME NEW i \in 1..n
      PROVE  /\ Mark(i).rank = Top(h) + i /\ Mark(i).kind = "DELETE" /\ Mark(i).script = gone[i]
             /\ Mark(i).ok /\ RowOk(Mark(i)) /\ gone[i] \in Gone(h)
  <2>1. gone[i] \in Gone(h) /\ gone[i] \in Scripts
      BY <1>2, GoneAre
  <2>2. Top(h) \in Nat
      BY LatestFacts DEF Top, Latest
  <2>3. VersionOf[gone[i]] \in Nat
      BY <2>1 DEF SchemaHistoryAssumption
  <2>4. Mark(i) = [rank |-> Top(h) + i, kind |-> "DELETE", version |-> VersionOf[gone[i]],
                   script |-> gone[i], sum |-> 0, ok |-> TRUE]
      BY DEF Row
  <2>5. Top(h) + i \in Nat \ {0}
      BY <1>2, <2>2
  <2> HIDE DEF Mark
  <2>6. Mark(i) \in RowType
      BY <2>1, <2>3, <2>4, <2>5 DEF RowType, RowKinds
  <2>7. /\ Mark(i).rank = Top(h) + i /\ Mark(i).kind = "DELETE" /\ Mark(i).script = gone[i]
        /\ Mark(i).version = VersionOf[gone[i]] /\ Mark(i).ok = TRUE
      BY <2>4
  <2> QED BY <2>1, <2>6, <2>7 DEF RowOk
<1> HIDE DEF Mark
<1>5. HistoryOk(h \cup Marks(h))
  <2>1. \A r \in Marks(h) : RowOk(r) /\ \E i \in 1..n : r.rank = Top(h) + i
      BY <1>3, <1>4
  <2>2. Top(h) \in Nat
      BY LatestFacts DEF Top, Latest
  <2>3. \A i, j \in 1..n : Mark(i).rank = Mark(j).rank => i = j
      BY <1>2, <1>4, <2>2
  <2>4. \A r, x \in Marks(h) : r.rank = x.rank => r = x
      BY <1>3, <2>3
  <2> QED BY <1>2, <2>1, <2>4, LongerOk
<1> QED BY <1>2, <1>3, <1>4, <1>5

\* A row that is mended keeps all but its checksum.
Mended(h, r) == IF r.script \in Realigned(h) THEN [r EXCEPT !.sum = files[r.script], !.ok = TRUE] ELSE r

LEMMA MendedIs ==
    ASSUME files \in [Scripts -> Nat], NEW h, NEW r, RowOk(r), r.ok \/ r.script \notin Realigned(h)
    PROVE  SameRow(r, Mended(h, r)) /\ Mended(h, r).sum = MendedSum(h, r) /\ RowOk(Mended(h, r))
<1>1. r \in RowType
    BY DEF RowOk
<1>2. CASE r.script \notin Realigned(h)
    BY <1>2 DEF Mended, MendedSum, SameRow
<1>3. CASE r.script \in Realigned(h)
  <2>1. Mended(h, r) = [r EXCEPT !.sum = files[r.script], !.ok = TRUE]
      BY <1>3 DEF Mended
  <2>2. files[r.script] \in Nat
      BY <1>3, RealignedAre
  <2>3. /\ Mended(h, r) \in RowType /\ Mended(h, r).rank = r.rank /\ Mended(h, r).kind = r.kind
        /\ Mended(h, r).version = r.version /\ Mended(h, r).script = r.script
        /\ Mended(h, r).ok = TRUE /\ Mended(h, r).sum = files[r.script]
      BY <1>1, <2>1, <2>2 DEF RowType
  <2>4. r.ok = TRUE
      BY <1>1, <1>3 DEF RowType
  <2>5. RowOk(Mended(h, r))
      BY <2>3, <2>4 DEF RowOk
  <2> QED BY <1>3, <2>3, <2>4, <2>5 DEF MendedSum, SameRow
<1> QED BY <1>2, <1>3

\* A repair mends the history.
LEMMA RepairMends ==
    ASSUME SchemaHistoryAssumption, files \in [Scripts -> Nat], NEW h, HistoryOk(h)
    PROVE  Mends(h, Repaired(h))
<1> DEFINE m == h \cup Marks(h)
           g == Repaired(h)
<1>1. g = {x \in {Mended(h, r) : r \in m} : x.ok}
    BY DEF Repaired, Marks, Mended
<1>2. HistoryOk(m)
    BY MarksAre
<1>3. ASSUME NEW r \in m
      PROVE  /\ SameRow(r, Mended(h, r)) /\ Mended(h, r).sum = MendedSum(h, r) /\ RowOk(Mended(h, r))
             /\ r \in Marks(h) => Mended(h, r) = r
  <2>1. RowOk(r)
      BY <1>2 DEF HistoryOk
  <2>2. CASE r \in Marks(h)
    <3>1. r.ok /\ r.script \in Gone(h)
        BY <2>2, MarksAre
    <3>2. r.script \notin Realigned(h)
        BY <3>1, RealignedAre
    <3> QED BY <2>1, <3>2, MendedIs DEF Mended
  <2>3. CASE r \in h /\ r \notin Marks(h)
    <3>1. ~r.ok => r.script \in FailedScripts(h)
        BY <2>1, <2>3 DEF FailedScripts, FailedRows, RowOk
    <3>2. r.ok \/ r.script \notin Realigned(h)
        BY <3>1, RealignedAre
    <3> QED BY <2>1, <2>3, <3>2, MendedIs
  <2> QED BY <2>2, <2>3
<1> HIDE DEF m, g
<1>4. \A x \in g : x.ok /\ \E r \in m : x = Mended(h, r)
    BY <1>1
<1>5. \A r \in m : r.ok => Mended(h, r) \in g
    BY <1>1, <1>3 DEF SameRow
<1>6. HistoryOk(g)
  <2>1. \A x \in g : RowOk(x)
      BY <1>3, <1>4
  <2>2. \A x, y \in g : x.rank = y.rank => x = y
    <3>1. SUFFICES ASSUME NEW x \in g, NEW y \in g, x.rank = y.rank PROVE x = y
        OBVIOUS
    <3>2. PICK r \in m : x = Mended(h, r)
        BY <1>4
    <3>3. PICK t \in m : y = Mended(h, t)
        BY <1>4
    <3>4. r.rank = t.rank
        BY <1>3, <3>1, <3>2, <3>3 DEF SameRow
    <3>5. r = t
        BY <1>2, <3>4 DEF HistoryOk
    <3> QED BY <3>2, <3>3, <3>5
  <2>3. \A x \in g : \E r \in m : x.rank = r.rank
      BY <1>3, <1>4 DEF SameRow
  <2>4. Bounded({x.rank : x \in g})
      BY <1>2, <2>3 DEF HistoryOk, Bounded
  <2> QED BY <2>1, <2>2, <2>4 DEF HistoryOk
<1>7. ASSUME NEW r \in h, r.ok
      PROVE  \E x \in g : SameRow(r, x) /\ x.sum = MendedSum(h, r)
  <2>1. r \in m
      BY DEF m
  <2> QED BY <1>3, <1>5, <1>7, <2>1
<1>8. ASSUME NEW x \in g
      PROVE  \/ x.kind = "DELETE" /\ x.script \in Gone(h)
             \/ \E r \in h : SameRow(r, x) /\ x.sum = MendedSum(h, r)
  <2>1. PICK r \in m : x = Mended(h, r)
      BY <1>4
  <2>2. CASE r \in Marks(h)
      BY <1>3, <2>1, <2>2, MarksAre
  <2>3. CASE r \in h
      BY <1>3, <2>1, <2>3
  <2> QED BY <2>2, <2>3 DEF m
<1>9. ASSUME NEW s \in Gone(h)
      PROVE  \E x \in g : x.kind = "DELETE" /\ x.script = s
  <2>1. PICK x \in Marks(h) : x.kind = "DELETE" /\ x.script = s /\ x.ok
      BY MarksAre
  <2>2. x \in m /\ Mended(h, x) = x
      BY <1>3 DEF m
  <2> QED BY <1>5, <2>1, <2>2
<1> QED BY <1>4, <1>6, <1>7, <1>8, <1>9 DEF Mends, g

\* A repair leaves the versions as they were.
LEMMA MendKeepsRanks ==
    ASSUME NEW h, NEW g, HistoryOk(h), Mends(h, g), NEW v
    PROVE  /\ RanksOf(g, v).versioned = RanksOf(h, v).versioned
           /\ RanksOf(g, v).undo = RanksOf(h, v).undo
           /\ v \in Undone(g) <=> v \in Undone(h)
           /\ PlacedBy(g, v) <=> PlacedBy(h, v)
<1>1. ASSUME NEW kind \in {"SQL", "UNDO_SQL"}
      PROVE  Latest(RowsOf(g, kind, v)) = Latest(RowsOf(h, kind, v))
  <2>1. ASSUME NEW r \in RowsOf(h, kind, v)
        PROVE  \E x \in RowsOf(g, kind, v) : x.rank = r.rank
      BY DEF RowsOf, Mends, SameRow
  <2>2. ASSUME NEW x \in RowsOf(g, kind, v)
        PROVE  \E r \in RowsOf(h, kind, v) : x.rank = r.rank
      BY DEF RowsOf, Mends, SameRow
  <2>3. {r.rank : r \in RowsOf(g, kind, v)} = {r.rank : r \in RowsOf(h, kind, v)}
      BY <2>1, <2>2
  <2> QED BY <2>3 DEF Latest
<1>2. /\ RanksOf(g, v).versioned = RanksOf(h, v).versioned
      /\ RanksOf(g, v).undo = RanksOf(h, v).undo
    BY <1>1, RanksAre
<1>3. HistoryOk(g)
    BY DEF Mends
<1> QED BY <1>2, <1>3, UndoneIs DEF PlacedBy

\* A script that succeeded still has, with its checksum mended.
LEMMA MendKeepsSuccess ==
    ASSUME SchemaHistoryAssumption, NEW h, NEW g, HistoryOk(h), Mends(h, g), NEW s \in Scripts
    PROVE  /\ Successful(g, s) <=> Successful(h, s)
           /\ Successful(h, s) => SuccessRow(g, s).sum = IF s \in Realigned(h) THEN files[s] ELSE SuccessRow(h, s).sum
<1>1. HistoryOk(g)
    BY DEF Mends
<1>2. ASSUME NEW r \in SuccessRows(h, s)
      PROVE  \E x \in SuccessRows(g, s) : x.rank = r.rank /\ x.sum = MendedSum(h, r)
    BY DEF SuccessRows, Mends, SameRow
<1>3. ASSUME NEW x \in SuccessRows(g, s)
      PROVE  \E r \in SuccessRows(h, s) : x.rank = r.rank
    BY DEF SuccessRows, Mends, SameRow
<1>4. Successful(g, s) <=> Successful(h, s)
    BY <1>1, <1>2, <1>3, SuccessFacts
<1>5. ASSUME Successful(h, s)
      PROVE  SuccessRow(g, s).sum = IF s \in Realigned(h) THEN files[s] ELSE SuccessRow(h, s).sum
  <2> DEFINE r == SuccessRow(h, s)
  <2>1. r \in SuccessRows(h, s) /\ \A x \in SuccessRows(h, s) : x.rank <= r.rank
      BY <1>5, SuccessFacts
  <2>2. PICK x \in SuccessRows(g, s) : x.rank = r.rank /\ x.sum = MendedSum(h, r)
      BY <1>2, <2>1
  <2>3. \A y \in SuccessRows(g, s) : y.rank <= x.rank
      BY <1>3, <2>1, <2>2
  <2>4. SuccessRow(g, s) = x
      BY <1>1, <2>3, SuccessIs
  <2>5. r.script = s
      BY <2>1 DEF SuccessRows
  <2> QED BY <2>2, <2>4, <2>5 DEF MendedSum
<1> QED BY <1>4, <1>5

\* Nothing failed is left, and nothing is gone that has no marker.
LEMMA MendLeaves ==
    ASSUME NEW h, NEW g, HistoryOk(h), Mends(h, g)
    PROVE  FailedRows(g) = {} /\ FailedScripts(g) = {} /\ Gone(g) = {}
<1>1. FailedRows(g) = {} /\ FailedScripts(g) = {}
    BY DEF FailedRows, FailedScripts, Mends
<1>2. ASSUME NEW s \in Gone(g)
      PROVE  FALSE
  <2>1. s \in Scripts /\ ~OnDisk(s) /\ s \notin Deleted(WithoutUndone(g)) /\ Successful(WithoutUndone(g), s)
      BY GoneAre
  <2>2. HistoryOk(g) /\ HistoryOk(WithoutUndone(g)) /\ HistoryOk(WithoutUndone(h))
      BY PartOk DEF Mends, WithoutUndone
  <2>3. PICK x \in SuccessRows(WithoutUndone(g), s) : TRUE
      BY <2>1, <2>2, SuccessFacts
  <2>4. /\ x \in g /\ x.script = s /\ x.ok /\ x.kind \notin {"DELETE", "UNDO_SQL"}
        /\ x.kind # "SQL" \/ x.version \notin Undone(g)
      BY <2>3 DEF SuccessRows, WithoutUndone
  <2>5. PICK r \in h : SameRow(r, x)
      BY <2>4 DEF Mends
  <2>6. r.kind # "SQL" \/ r.version \notin Undone(h)
      BY <2>4, <2>5, MendKeepsRanks DEF SameRow
  <2>7. r \in SuccessRows(WithoutUndone(h), s)
      BY <2>4, <2>5, <2>6 DEF SameRow, SuccessRows, WithoutUndone
  <2>8. Successful(WithoutUndone(h), s)
      BY <2>2, <2>7, SuccessFacts
  <2>9. \A y \in g : y.kind = "DELETE" => y \in WithoutUndone(g)
      BY DEF WithoutUndone
  <2>10. s \notin Deleted(g)
      BY <2>1, <2>9 DEF Deleted
  <2>11. s \notin Deleted(WithoutUndone(h))
    <3>1. SUFFICES ASSUME NEW d \in h, d.kind = "DELETE", d.script = s PROVE FALSE
        BY DEF Deleted, WithoutUndone
    <3>2. d.ok
        BY <3>1 DEF HistoryOk, RowOk
    <3>3. PICK y \in g : SameRow(d, y)
        BY <3>1, <3>2 DEF Mends
    <3> QED BY <2>10, <3>1, <3>3 DEF SameRow, Deleted
  <2>12. s \in Gone(h)
      BY <2>1, <2>8, <2>11 DEF Gone, Missing
  <2>13. s \in Deleted(g)
      BY <2>12 DEF Mends, Deleted
  <2> QED BY <2>10, <2>13
<1> QED BY <1>1, <1>2

\* A repeatable script that did not fail and is no longer what it ran with is to run.
LEMMA DriftReapplies ==
    ASSUME SchemaHistoryAssumption, NEW h, HistoryOk(h), NEW s \in Of("REPEATABLE"),
           s \notin FailedScripts(h), Successful(h, s), SuccessRow(h, s).sum # files[s]
    PROVE  Reapplies(h, s)
<1>1. SuccessRows(h, s) = {r \in Runs(h, s) : r.ok}
    BY RepeatableRows
<1>2. Runs(h, s) # {}
    BY <1>1, SuccessFacts
<1>3. PICK r \in Runs(h, s) : /\ \A x \in Runs(h, s) : x.rank <= r.rank
                              /\ RepeatableStatus(h, s) = StatusBy(r, files[s])
    BY <1>2, StatusFacts
<1>4. r.ok
    BY DEF FailedScripts, FailedRows, Runs
<1>5. SuccessRow(h, s) = r
    BY <1>1, <1>3, <1>4, SuccessIs
<1> QED BY <1>3, <1>4, <1>5 DEF Reapplies, StatusBy

\* Where no row failed and nothing is gone, a repair leaves nothing to realign.
LEMMA MendAligns ==
    ASSUME SchemaHistoryAssumption, NEW h, NEW g, HistoryOk(h), Mends(h, g),
           FailedScripts(h) = {}, Gone(h) = {}
    PROVE  Realigned(g) = {}
<1> SUFFICES ASSUME NEW s \in Realigned(g) PROVE FALSE
    OBVIOUS
<1>1. s \in Scripts /\ OnDisk(s) /\ Successful(g, s)
    BY RealignedAre
<1>2. SuccessRow(g, s).sum # files[s]
    BY DEF Realigned, Changed, Drift
<1>3. Successful(h, s) /\ s \notin Realigned(h) /\ SuccessRow(h, s).sum # files[s]
    BY <1>1, <1>2, MendKeepsSuccess
<1>4. CASE s \in Of("REPEATABLE")
  <2>1. Reapplies(h, s)
      BY <1>3, <1>4, DriftReapplies
  <2> QED BY <1>1, <1>3, <1>4, <2>1 DEF Realigned, Changed
<1>5. CASE s \in Of("SQL")
  <2>1. KindOf[s] # "UNDO_SQL"
      BY <1>5 DEF Of
  <2> QED BY <1>1, <1>3, <1>5, <2>1 DEF Realigned, Drift
<1> QED BY <1>4, <1>5 DEF Realigned, Changed

\* A history with no failed row, no drift and no marked script that is back is valid
\* where no two scripts have one version and no order is asked for.
LEMMA SettledIsValid ==
    ASSUME SchemaHistoryAssumption, NEW h, HistoryOk(h), FailedRows(h) = {}, Gone(h) = {}, Realigned(h) = {},
           \A s, t \in Of("SQL") : OnDisk(s) /\ OnDisk(t) /\ VersionOf[s] = VersionOf[t] => s = t,
           \A s \in Deleted(h) : ~OnDisk(s), NEW q, ~q.strict
    PROVE  Valid(h, q)
<1> DEFINE S == Selected(q)
           p == Scoped(h, q)
<1>1. S \subseteq Scripts /\ \A s \in S : OnDisk(s) /\ Passes(q, VersionOf[s])
    BY DEF Selected
<1>2. p = {r \in h : Passes(q, r.version)}
    BY DEF Scoped
<1>3. HistoryOk(p)
    BY <1>2, PartOk
<1> HIDE DEF S, p
<1>4. ~RepeatableFails(h, S)
  <2>1. SUFFICES ASSUME NEW s \in S, RepeatableStatus(h, s) = "FAILED_UNCHANGED" PROVE FALSE
      BY DEF RepeatableFails
  <2>2. PICK r \in Runs(h, s) : RepeatableStatus(h, s) = StatusBy(r, files[s])
      BY <2>1, StatusFacts
  <2>3. r.ok
      BY DEF Runs, FailedRows
  <2> QED BY <2>1, <2>2, <2>3 DEF StatusBy
<1>5. ~DuplicateVersions(S)
    BY <1>1 DEF DuplicateVersions
<1>6. FailedRows(p) = {}
    BY <1>2 DEF FailedRows
<1>7. BlockingFailures(h, q) = {}
    BY <1>6 DEF BlockingFailures, p
<1>8. Reappeared(h, q) = {}
    BY <1>1, <1>2 DEF Reappeared, Deleted, p, S
<1>9. Modified(h, q) = {}
  <2> SUFFICES ASSUME NEW s \in S, s \in Of("SQL"), OnDisk(s), Successful(p, s), SuccessRow(p, s).sum # files[s]
               PROVE  FALSE
      BY DEF Modified, Drift, p, S
  <2>1. SuccessRows(p, s) = SuccessRows(h, s)
    <3>1. ASSUME NEW r \in SuccessRows(h, s)
          PROVE  r \in p
      <4>1. r \in h /\ r.script = s /\ s # "baseline"
          BY <1>1 DEF SuccessRows, SchemaHistoryAssumption
      <4>2. r.version = VersionOf[s]
          BY <4>1 DEF HistoryOk, RowOk
      <4> QED BY <1>1, <1>2, <4>1, <4>2
    <3> QED BY <1>2, <3>1 DEF SuccessRows
  <2>2. /\ SuccessRow(p, s) \in SuccessRows(h, s)
        /\ \A x \in SuccessRows(h, s) : x.rank <= SuccessRow(p, s).rank
      BY <1>3, <2>1, SuccessFacts
  <2>3. Successful(h, s) /\ SuccessRow(h, s) = SuccessRow(p, s)
      BY <2>2, SuccessIs
  <2>4. KindOf[s] # "UNDO_SQL" /\ s \in Scripts
      BY <1>1 DEF Of
  <2>5. s \in Drift(h, Scripts) /\ s \notin Gone(h) /\ s \notin FailedScripts(h)
      BY <2>3, <2>4 DEF Drift, FailedScripts
  <2> QED BY <2>5 DEF Realigned
<1> QED BY <1>4, <1>5, <1>7, <1>8, <1>9 DEF Valid, S

\* Two repairs leave nothing to repair and let migrate start.
LEMMA Unblocks ==
    ASSUME SchemaHistoryAssumption, TypeInv
    PROVE  RepairUnblocks
<1> DEFINE one == Repaired(history)
           two == Repaired(one)
<1>1. files \in [Scripts -> Nat] /\ HistoryOk(history)
    BY DEF TypeInv
<1>2. Mends(history, one)
    BY <1>1, RepairMends
<1>3. HistoryOk(one)
    BY <1>2 DEF Mends
<1>4. Mends(one, two)
    BY <1>1, <1>3, RepairMends
<1> HIDE DEF one, two
<1>5. FailedRows(one) = {} /\ FailedScripts(one) = {} /\ Gone(one) = {}
    BY <1>1, <1>2, MendLeaves
<1>6. FailedRows(two) = {} /\ FailedScripts(two) = {} /\ Gone(two) = {}
    BY <1>3, <1>4, MendLeaves
<1>7. Realigned(two) = {}
    BY <1>3, <1>4, <1>5, MendAligns
<1>8. HistoryOk(two)
    BY <1>4 DEF Mends
<1>9. NothingToRepair(two)
    BY <1>6, <1>7 DEF NothingToRepair
<1> DEFINE clash == \E s, t \in Of("SQL") : s # t /\ OnDisk(s) /\ OnDisk(t) /\ VersionOf[s] = VersionOf[t]
<1>10. ASSUME ~clash, \A s \in Deleted(two) : ~OnDisk(s), NEW q \in Requests, ~q.strict
       PROVE  Valid(two, q)
  <2>1. \A s, t \in Of("SQL") : OnDisk(s) /\ OnDisk(t) /\ VersionOf[s] = VersionOf[t] => s = t
      BY <1>10
  <2> QED BY <1>6, <1>7, <1>8, <1>10, <2>1, SettledIsValid
<1> QED BY <1>5, <1>9, <1>10 DEF RepairUnblocks, one, two

-----------------------------------------------------------------------------
(* What rows that come after a history change.                             *)

\* The rows of g that h has not are after those it has.
Grows(h, g) ==
    /\ HistoryOk(h) /\ HistoryOk(g) /\ h \subseteq g
    /\ \A x \in h, r \in g \ h : x.rank < r.rank

\* The latest row is a new one where there is one.
LEMMA GrowLatest ==
    ASSUME NEW h, NEW g, Grows(h, g), NEW T \in SUBSET h, NEW U \in SUBSET g, T \subseteq U, U \subseteq T \cup (g \ h)
    PROVE  /\ U = T => Latest(U) = Latest(T)
           /\ U # T => \E r \in U \ T : Latest(U) = r.rank
<1>1. HistoryOk(h) /\ HistoryOk(g)
    BY DEF Grows
<1>2. ASSUME U # T
      PROVE  \E r \in U \ T : Latest(U) = r.rank
  <2>1. PICK r \in U : r \notin T
      BY <1>2
  <2>2. U # {}
      BY <2>1
  <2>3. PICK x \in U : Latest(U) = x.rank
      BY <1>1, <2>2, LatestFacts
  <2>4. r.rank <= x.rank /\ r.rank \in Nat /\ x.rank \in Nat
      BY <1>1, <2>3, LatestFacts
  <2>5. x \notin T
      BY <2>1, <2>4 DEF Grows
  <2> QED BY <2>3, <2>5
<1> QED BY <1>2

\* What a version's new rows do to it.
LEMMA GrowPlaces ==
    ASSUME NEW h, NEW g, Grows(h, g), NEW v
    PROVE  LET new(kind) == {r \in g \ h : r.kind = kind /\ r.version = v /\ r.ok}
           IN  /\ new("SQL") # {} /\ new("UNDO_SQL") = {} => PlacedBy(g, v)
               /\ new("SQL") = {} /\ new("UNDO_SQL") # {} => ~PlacedBy(g, v)
               /\ new("SQL") = {} /\ new("UNDO_SQL") = {} => (PlacedBy(g, v) <=> PlacedBy(h, v))
<1> DEFINE new(kind) == {r \in g \ h : r.kind = kind /\ r.version = v /\ r.ok}
           T(kind) == RowsOf(h, kind, v)
           U(kind) == RowsOf(g, kind, v)
<1>1. ASSUME NEW kind
      PROVE  /\ T(kind) \in SUBSET h /\ U(kind) \in SUBSET g /\ T(kind) \subseteq U(kind)
             /\ U(kind) \ T(kind) = new(kind) /\ U(kind) \subseteq T(kind) \cup (g \ h)
    BY DEF RowsOf, Grows
<1>2. /\ PlacedBy(h, v) <=> Latest(T("SQL")) > Latest(T("UNDO_SQL"))
      /\ PlacedBy(g, v) <=> Latest(U("SQL")) > Latest(U("UNDO_SQL"))
    BY RanksAre DEF PlacedBy
<1> HIDE DEF T, U, new
<1>3. HistoryOk(h) /\ HistoryOk(g)
    BY DEF Grows
<1>4. ASSUME NEW kind
      PROVE  /\ new(kind) = {} => Latest(U(kind)) = Latest(T(kind))
             /\ new(kind) # {} => \E r \in g \ h : Latest(U(kind)) = r.rank
             /\ Latest(U(kind)) \in Nat /\ Latest(T(kind)) \in Nat
             /\ Latest(T(kind)) = 0 \/ \E x \in h : Latest(T(kind)) = x.rank
  <2>1. new(kind) = {} => U(kind) = T(kind)
      BY <1>1
  <2>2. new(kind) # {} => U(kind) # T(kind)
      BY <1>1
  <2>3. /\ U(kind) = T(kind) => Latest(U(kind)) = Latest(T(kind))
        /\ U(kind) # T(kind) => \E r \in U(kind) \ T(kind) : Latest(U(kind)) = r.rank
      BY <1>1, GrowLatest
  <2>4. new(kind) \subseteq g \ h
      BY DEF new
  <2>5. Latest(U(kind)) \in Nat /\ Latest(T(kind)) \in Nat
      BY <1>1, <1>3, LatestFacts
  <2>6. Latest(T(kind)) = 0 \/ \E x \in T(kind) : x.rank = Latest(T(kind))
      BY <1>1, <1>3, LatestFacts
  <2> QED BY <1>1, <2>1, <2>2, <2>3, <2>4, <2>5, <2>6
<1>5. ASSUME NEW kind, NEW other, new(kind) # {}, new(other) = {}
      PROVE  Latest(U(kind)) > Latest(U(other))
  <2>1. PICK r \in g \ h : Latest(U(kind)) = r.rank
      BY <1>4, <1>5
  <2>2. r.rank \in Nat /\ r.rank > 0
      BY <1>3 DEF HistoryOk, RowOk, RowType
  <2>3. \A x \in h : x.rank < r.rank
      BY DEF Grows
  <2>4. Latest(U(other)) = 0 \/ \E x \in h : Latest(U(other)) = x.rank
      BY <1>4, <1>5
  <2> QED BY <2>1, <2>2, <2>3, <2>4
<1>6. new("SQL") # {} /\ new("UNDO_SQL") = {} => PlacedBy(g, v)
    BY <1>2, <1>5
<1>7. new("SQL") = {} /\ new("UNDO_SQL") # {} => ~PlacedBy(g, v)
  <2>1. SUFFICES ASSUME new("SQL") = {}, new("UNDO_SQL") # {} PROVE ~PlacedBy(g, v)
      OBVIOUS
  <2>2. Latest(U("UNDO_SQL")) > Latest(U("SQL"))
      BY <1>5, <2>1
  <2>3. Latest(U("UNDO_SQL")) \in Nat /\ Latest(U("SQL")) \in Nat
      BY <1>4
  <2> QED BY <1>2, <2>2, <2>3
<1>8. new("SQL") = {} /\ new("UNDO_SQL") = {} => (PlacedBy(g, v) <=> PlacedBy(h, v))
    BY <1>2, <1>4
<1> QED BY <1>6, <1>7, <1>8 DEF new

\* What a script's new rows do to its success.
LEMMA GrowSuccess ==
    ASSUME NEW h, NEW g, Grows(h, g), NEW s, NEW c,
           \A r \in SuccessRows(g, s) \ h : r.sum = c
    PROVE  /\ SuccessRows(g, s) \subseteq h =>
                /\ Successful(g, s) <=> Successful(h, s)
                /\ Successful(h, s) => SuccessRow(g, s).sum = SuccessRow(h, s).sum
           /\ ~(SuccessRows(g, s) \subseteq h) => Successful(g, s) /\ SuccessRow(g, s).sum = c
<1> DEFINE T == SuccessRows(h, s)
           U == SuccessRows(g, s)
<1>1. /\ T \in SUBSET h /\ U \in SUBSET g /\ T \subseteq U /\ U \subseteq T \cup (g \ h)
      /\ HistoryOk(h) /\ HistoryOk(g)
    BY DEF SuccessRows, Grows
<1>2. /\ Successful(h, s) <=> T # {}
      /\ Successful(g, s) <=> U # {}
      /\ Successful(h, s) => SuccessRow(h, s) \in T /\ \A x \in T : x.rank <= SuccessRow(h, s).rank
    BY <1>1, SuccessFacts
<1>3. \A r \in U : (\A x \in U : x.rank <= r.rank) => SuccessRow(g, s) = r
    BY <1>1, SuccessIs
<1>4. \A r \in U : r.rank \in Nat
    BY <1>1, LatestFacts
<1> HIDE DEF T, U
<1>5. ASSUME U \subseteq h
      PROVE  /\ Successful(g, s) <=> Successful(h, s)
             /\ Successful(h, s) => SuccessRow(g, s).sum = SuccessRow(h, s).sum
  <2>1. U = T
      BY <1>1, <1>5
  <2> QED BY <1>2, <1>3, <2>1
<1>6. ASSUME ~(U \subseteq h)
      PROVE  Successful(g, s) /\ SuccessRow(g, s).sum = c
  <2>1. U # T
      BY <1>1, <1>6
  <2>2. PICK r \in U \ T : Latest(U) = r.rank
      BY ONLY <1>1, <2>1, Grows(h, g), GrowLatest
  <2>3. \A x \in U : x.rank <= r.rank
      BY ONLY <1>1, <2>2, LatestFacts
  <2>4. r \in U \ h
      BY <1>1, <2>2
  <2> QED BY <1>2, <1>3, <2>3, <2>4 DEF U
<1> QED BY <1>5, <1>6 DEF U

-----------------------------------------------------------------------------
(* Every step keeps the invariant.                                         *)

\* The length of a function on 1..n.
LEMMA LenIs ==
    ASSUME NEW S, NEW n \in Nat, NEW f \in [1..n -> S]
    PROVE  f \in Seq(S) /\ Len(f) = n /\ DOMAIN f = 1..n
<1>1. f \in Seq(S)
    BY SeqDef
<1>2. DOMAIN f = 1..n /\ DOMAIN f = 1..Len(f) /\ Len(f) \in Nat
    BY <1>1
<1> QED BY <1>1, <1>2

\* A list of the members of a set, in any order, each once.
LEMMA ListIs ==
    ASSUME NEW S, IsFiniteSet(S), NEW plan \in SetToSeqs(S)
    PROVE  /\ plan \in Seq(S) /\ Len(plan) \in Nat /\ DOMAIN plan = 1..Len(plan)
           /\ \A i \in 1..Len(plan) : plan[i] \in S
           /\ \A i, j \in 1..Len(plan) : plan[i] = plan[j] => i = j
           /\ \A x \in S : \E i \in 1..Len(plan) : plan[i] = x
<1> DEFINE n == Cardinality(S)
<1>1. n \in Nat
    BY FS_CardinalityType
<1>2. plan \in [1..n -> S] /\ \A i, j \in 1..n : plan[i] = plan[j] => i = j
    BY DEF SetToSeqs
<1>3. plan \in Injection(1..n, S)
    BY <1>2 DEF Injection, IsInjective
<1>4. Cardinality(1..n) = n
    BY <1>1, FS_Interval
<1>5. plan \in Surjection(1..n, S)
    BY <1>3, <1>4, FS_Injection
<1>6. \A x \in S : \E i \in 1..n : plan[i] = x
    BY <1>5 DEF Surjection
<1> HIDE DEF n
<1>7. plan \in Seq(S) /\ Len(plan) = n /\ DOMAIN plan = 1..n
    BY <1>1, <1>2, LenIs
<1> QED BY <1>1, <1>2, <1>6, <1>7

\* What migrate plans are scripts that run forward.
LEMMA PlanIs ==
    ASSUME SchemaHistoryAssumption, NEW h, NEW q, NEW plan \in Pending(h, q)
    PROVE  /\ Len(plan) \in Nat
           /\ \A i \in 1..Len(plan) : plan[i] \in Scripts /\ KindOf[plan[i]] \in {"SQL", "REPEATABLE"}
<1>1. \A s \in PendingSet(h, q) : s \in Scripts /\ KindOf[s] \in {"SQL", "REPEATABLE"}
    BY DEF PendingSet, Eligible, VersionedPending, Of
<1>2. PendingSet(h, q) \in SUBSET Scripts
    BY <1>1
<1>3. IsFiniteSet(PendingSet(h, q))
    BY <1>2, FS_Subset DEF SchemaHistoryAssumption
<1>4. plan \in SetToSeqs(PendingSet(h, q))
    BY DEF Pending
<1> HIDE DEF Pending, PendingSet
<1> QED BY <1>1, <1>3, <1>4, ListIs

\* The rows of a run are those of the first scripts of its plan, successes up to the n-th.
RunRows(h, g, plan, n) ==
    /\ Grows(h, g)
    /\ \A r \in g \ h : \E i \in 1..Len(plan) :
         /\ r.script = plan[i] /\ r.kind = KindOf[plan[i]] /\ r.version = VersionOf[plan[i]]
         /\ r.sum = files[plan[i]]
         /\ r.ok => i <= n
    /\ \A i \in 1..n : \E r \in g \ h :
         r.script = plan[i] /\ r.kind = KindOf[plan[i]] /\ r.version = VersionOf[plan[i]] /\ r.ok

LEMMA RanIs ==
    ASSUME SchemaHistoryAssumption, files \in [Scripts -> Nat], NEW h, HistoryOk(h),
           NEW plan, Len(plan) \in Nat,
           \A i \in 1..Len(plan) : plan[i] \in Scripts /\ KindOf[plan[i]] \in {"SQL", "REPEATABLE"},
           NEW n \in 0..Len(plan), NEW noted \in BOOLEAN
    PROVE  RunRows(h, Ran(h, plan, n, noted), plan, n)
<1> DEFINE m == IF noted /\ n < Len(plan) THEN n + 1 ELSE n
           New(i) == Row(Top(h) + i, KindOf[plan[i]], VersionOf[plan[i]], plan[i], files[plan[i]], i <= n)
           new == {New(i) : i \in 1..m}
<1>1. m \in Nat /\ m <= Len(plan) /\ n <= m
    OBVIOUS
<1>2. Ran(h, plan, n, noted) = h \cup new
    BY DEF Ran
<1> HIDE DEF m
<1>3. Top(h) \in Nat
    BY LatestFacts DEF Top, Latest
<1>4. ASSUME NEW i \in 1..m
      PROVE  /\ New(i).rank = Top(h) + i /\ New(i).script = plan[i] /\ New(i).kind = KindOf[plan[i]]
             /\ New(i).version = VersionOf[plan[i]] /\ New(i).sum = files[plan[i]]
             /\ New(i).ok <=> i <= n
             /\ RowOk(New(i)) /\ i \in 1..Len(plan)
  <2>1. /\ i \in 1..Len(plan) /\ plan[i] \in Scripts /\ KindOf[plan[i]] \in {"SQL", "REPEATABLE"}
        /\ VersionOf[plan[i]] \in Nat /\ files[plan[i]] \in Nat
      BY <1>1 DEF SchemaHistoryAssumption
  <2>2. New(i) = [rank |-> Top(h) + i, kind |-> KindOf[plan[i]], version |-> VersionOf[plan[i]],
                  script |-> plan[i], sum |-> files[plan[i]], ok |-> i <= n]
      BY DEF Row
  <2>3. Top(h) + i \in Nat \ {0} /\ (i <= n) \in BOOLEAN
      BY <1>1, <1>3
  <2> HIDE DEF New
  <2>4. New(i) \in RowType
      BY <2>1, <2>2, <2>3 DEF RowType, RowKinds
  <2>5. /\ New(i).rank = Top(h) + i /\ New(i).script = plan[i] /\ New(i).kind = KindOf[plan[i]]
        /\ New(i).version = VersionOf[plan[i]] /\ New(i).sum = files[plan[i]] /\ New(i).ok = (i <= n)
      BY <2>2
  <2>6. RowOk(New(i))
      BY <2>1, <2>4, <2>5 DEF RowOk
  <2>7. New(i).ok <=> i <= n
      BY <2>5
  <2> QED BY <2>1, <2>5, <2>6, <2>7
<1> HIDE DEF New
<1>5. /\ HistoryOk(h \cup new)
      /\ \A r \in h : r.rank \in Nat /\ r.rank <= Top(h)
      /\ \A r \in new : r.rank \in Nat /\ r.rank > Top(h)
  <2>1. \A r \in new : RowOk(r) /\ \E i \in 1..m : r.rank = Top(h) + i
      BY <1>4
  <2>2. \A i, j \in 1..m : New(i).rank = New(j).rank => i = j
      BY <1>1, <1>3, <1>4
  <2>3. \A r, x \in new : r.rank = x.rank => r = x
      BY <2>2
  <2> HIDE DEF new
  <2>4. m \in Nat
      BY <1>1
  <2> QED BY ONLY <2>1, <2>3, <2>4, HistoryOk(h), LongerOk
<1>6. (h \cup new) \ h = new
  <2> HIDE DEF new
  <2>1. \A r \in new : r \notin h
      BY ONLY <1>3, <1>5
  <2> QED BY ONLY <2>1
<1>7. Grows(h, h \cup new)
  <2> HIDE DEF new
  <2> QED BY ONLY <1>3, <1>5, <1>6, HistoryOk(h) DEF Grows
<1>8. ASSUME NEW r \in new
      PROVE  \E i \in 1..Len(plan) :
                /\ r.script = plan[i] /\ r.kind = KindOf[plan[i]] /\ r.version = VersionOf[plan[i]]
                /\ r.sum = files[plan[i]]
                /\ r.ok => i <= n
  <2>1. PICK i \in 1..m : r = New(i)
      OBVIOUS
  <2> QED BY <1>4, <2>1
<1>9. ASSUME NEW i \in 1..n
      PROVE  \E r \in new : r.script = plan[i] /\ r.kind = KindOf[plan[i]] /\ r.version = VersionOf[plan[i]] /\ r.ok
  <2>1. i \in 1..m
      BY <1>1
  <2>2. New(i) \in new /\ New(i).ok
      BY <1>4, <2>1
  <2> QED BY <1>4, <2>1, <2>2
<1> QED BY <1>2, <1>6, <1>7, <1>8, <1>9 DEF RunRows

\* At first nothing is in place.
LEMMA InitKeeps ==
    ASSUME SchemaHistoryAssumption, Init
    PROVE  HInv
<1>1. HistoryOk({})
    BY DEF HistoryOk, Bounded
<1>2. TypeInv
  <2>1. (CHOOSE c \in Contents : TRUE) \in Nat
      BY DEF SchemaHistoryAssumption
  <2>2. files \in [Scripts -> Nat]
      BY <2>1 DEF Init
  <2> QED BY <1>1, <2>2 DEF Init, TypeInv
<1>3. ASSUME NEW v
      PROVE  ~PlacedBy({}, v)
  <2>1. RowsOf({}, "SQL", v) = {}
      BY DEF RowsOf
  <2> QED BY <1>1, <2>1, UndoneIs
<1>4. ASSUME NEW s
      PROVE  ~Successful({}, s)
  <2>1. SuccessRows({}, s) = {}
      BY DEF SuccessRows
  <2> QED BY <1>1, <2>1, SuccessFacts
<1>5. PlacesInv
    BY <1>3 DEF Init, PlacesInv
<1>6. AcceptedInv
    BY <1>4 DEF Init, AcceptedInv, Of
<1> QED BY <1>2, <1>5, <1>6 DEF HInv

\* A run puts the versions of its first scripts in place and accepts their content.
LEMMA RunKeeps ==
    ASSUME SchemaHistoryAssumption, HInv, NEW q, NEW plan \in Pending(history, q),
           NEW n \in 0..Len(plan), NEW noted \in BOOLEAN,
           history' = Ran(history, plan, n, noted), RanInto(plan, n),
           UNCHANGED <<files, grouping, edits>>
    PROVE  HInv'
<1> DEFINE g == Ran(history, plan, n, noted)
           done == {plan[i] : i \in 1..n}
           h == history
<1>1. /\ files \in [Scripts -> Nat] /\ accepted \in [Scripts -> Nat]
      /\ grouping \in Groupings /\ edits \in Nat /\ inPlace \in SUBSET Versions
      /\ HistoryOk(h)
    BY DEF HInv, TypeInv
<1>2. /\ Len(plan) \in Nat
      /\ \A i \in 1..Len(plan) : plan[i] \in Scripts /\ KindOf[plan[i]] \in {"SQL", "REPEATABLE"}
    BY PlanIs
<1>3. RunRows(h, g, plan, n)
    BY <1>1, <1>2, RanIs
<1>4. /\ history' = g
      /\ inPlace' = inPlace \cup {VersionOf[s] : s \in done \cap Of("SQL")}
      /\ accepted' = [s \in Scripts |-> IF s \in done THEN files[s] ELSE accepted[s]]
      /\ files' = files /\ grouping' = grouping /\ edits' = edits
    BY DEF RanInto
<1> HIDE DEF g, h
<1>5. \A i \in 1..n : i \in 1..Len(plan)
    BY <1>2
<1>6. \A s \in done : s \in Scripts
    BY <1>2, <1>5
<1>7. TypeInv'
  <2>1. \A v \in {VersionOf[s] : s \in done \cap Of("SQL")} : v \in Versions
      BY <1>6 DEF Versions
  <2>2. inPlace' \in SUBSET Versions
      BY <1>1, <1>4, <2>1
  <2>3. accepted' \in [Scripts -> Nat]
      BY <1>1, <1>4
  <2>4. HistoryOk(history')
      BY <1>3, <1>4 DEF RunRows, Grows
  <2> QED BY <1>1, <1>4, <2>2, <2>3, <2>4 DEF TypeInv
<1>8. PlacesInv'
  <2> SUFFICES ASSUME NEW v \in Versions PROVE v \in inPlace' <=> PlacedBy(g, v)
      BY <1>4 DEF PlacesInv
  <2> DEFINE new(kind) == {r \in g \ h : r.kind = kind /\ r.version = v /\ r.ok}
  <2>1. new("UNDO_SQL") = {}
    <3>1. \A r \in g \ h : \E i \in 1..Len(plan) : r.kind = KindOf[plan[i]]
        BY <1>3 DEF RunRows
    <3>2. \A r \in g \ h : r.kind # "UNDO_SQL"
        BY ONLY <1>2, <3>1
    <3> QED BY ONLY <3>2
  <2>2. ASSUME NEW s \in done \cap Of("SQL"), VersionOf[s] = v
        PROVE  new("SQL") # {}
    <3>1. PICK i \in 1..n : s = plan[i]
        OBVIOUS
    <3>2. PICK r \in g \ h : r.kind = KindOf[s] /\ r.version = VersionOf[s] /\ r.ok
        BY <1>3, <3>1 DEF RunRows
    <3>3. r.kind = "SQL" /\ r.version = v
        BY <2>2, <3>2 DEF Of
    <3>4. r \in new("SQL")
        BY <3>2, <3>3
    <3> QED BY <3>4
  <2>3. ASSUME NEW r \in new("SQL")
        PROVE  \E s \in done \cap Of("SQL") : VersionOf[s] = v
    <3>1. PICK i \in 1..Len(plan) : r.script = plan[i] /\ r.kind = KindOf[plan[i]] /\ r.version = VersionOf[plan[i]] /\ i <= n
        BY ONLY <1>3, r \in new("SQL") DEF RunRows
    <3>2. i \in 1..n /\ plan[i] \in Scripts
        BY <1>2, <3>1
    <3> QED BY <3>1, <3>2 DEF Of
  <2>4. /\ new("SQL") # {} /\ new("UNDO_SQL") = {} => PlacedBy(g, v)
        /\ new("SQL") = {} /\ new("UNDO_SQL") = {} => (PlacedBy(g, v) <=> PlacedBy(h, v))
    <3>1. Grows(h, g)
        BY <1>3 DEF RunRows
    <3> QED BY ONLY <3>1, GrowPlaces
  <2> HIDE DEF new
  <2>5. v \in inPlace <=> PlacedBy(h, v)
      BY DEF HInv, PlacesInv, h
  <2>6. CASE new("SQL") = {}
    <3>1. v \in inPlace' <=> v \in inPlace
        BY ONLY <1>4, <2>2, <2>6
    <3> QED BY <2>1, <2>4, <2>5, <2>6, <3>1
  <2>7. CASE new("SQL") # {}
    <3>1. v \in inPlace'
        BY <1>4, <2>3, <2>7
    <3> QED BY <2>1, <2>4, <2>7, <3>1
  <2> QED BY <2>6, <2>7
<1>9. AcceptedInv'
  <2> SUFFICES ASSUME NEW s \in Of("REPEATABLE")
               PROVE  accepted'[s] = IF Successful(g, s) THEN SuccessRow(g, s).sum ELSE 0
      BY <1>4, Zenon DEF AcceptedInv
  <2>1. s \in Scripts /\ KindOf[s] = "REPEATABLE"
      BY DEF Of
  <2>2. ASSUME NEW r \in SuccessRows(g, s) \ h
        PROVE  r.sum = files[s] /\ s \in done
    <3>1. r \in g \ h /\ r.ok /\ r.script = s
        BY DEF SuccessRows
    <3>2. PICK i \in 1..Len(plan) : r.script = plan[i] /\ r.sum = files[plan[i]] /\ i <= n
        BY <1>3, <3>1 DEF RunRows
    <3>3. i \in 1..n
        BY <1>2, <3>2
    <3> QED BY <3>1, <3>2, <3>3
  <2>3. /\ SuccessRows(g, s) \subseteq h =>
             /\ Successful(g, s) <=> Successful(h, s)
             /\ Successful(h, s) => SuccessRow(g, s).sum = SuccessRow(h, s).sum
        /\ ~(SuccessRows(g, s) \subseteq h) => Successful(g, s) /\ SuccessRow(g, s).sum = files[s]
    <3>1. Grows(h, g) /\ \A r \in SuccessRows(g, s) \ h : r.sum = files[s]
        BY <1>3, <2>2 DEF RunRows
    <3> QED BY ONLY <3>1, GrowSuccess
  <2>4. accepted[s] = IF Successful(h, s) THEN SuccessRow(h, s).sum ELSE 0
      BY DEF HInv, AcceptedInv, h
  <2>5. CASE s \in done
    <3>1. PICK i \in 1..n : s = plan[i]
        BY <2>5
    <3>2. PICK r \in g \ h : r.script = plan[i] /\ r.kind = KindOf[plan[i]] /\ r.ok
        BY <1>3 DEF RunRows
    <3>3. r \in SuccessRows(g, s) /\ r \notin h
        BY <2>1, <3>1, <3>2 DEF SuccessRows
    <3> QED BY <1>4, <2>1, <2>3, <2>5, <3>3
  <2>6. CASE s \notin done
    <3>1. SuccessRows(g, s) \subseteq h
        BY <2>2, <2>6
    <3> QED BY <1>4, <2>1, <2>3, <2>4, <2>6, <3>1
  <2> QED BY <2>5, <2>6
<1> QED BY <1>7, <1>8, <1>9 DEF HInv

\* The rows a request has undone.
Wanted(h, q) == WithParts(h, Expanded(h, q))

\* What undo plans are rows of versions in place, each once, that have undo scripts.
LEMMA UndoPlanIs ==
    ASSUME NEW h, HistoryOk(h), NEW q, NEW plan \in UndoPlans(h, q)
    PROVE  /\ Len(plan) \in Nat /\ DOMAIN plan = 1..Len(plan)
           /\ \A i \in 1..Len(plan) : /\ plan[i] \in Wanted(h, q) /\ plan[i] \in UndoCandidates(h)
                                      /\ UndoScripts(plan[i].version) # {}
           /\ \A i, j \in 1..Len(plan) : plan[i] = plan[j] => i = j
           /\ \A r \in Wanted(h, q) : \E i \in 1..Len(plan) : plan[i] = r
           /\ Wanted(h, q) \subseteq UndoCandidates(h)
<1>1. UndoSeeds(h, q) \subseteq UndoCandidates(h)
    BY DEF UndoSeeds
<1>2. Expanded(h, q) \subseteq UndoCandidates(h)
    BY <1>1 DEF Expanded
<1>3. Wanted(h, q) \subseteq UndoCandidates(h)
    BY <1>2 DEF Wanted, WithParts, PartRows
<1>4. /\ plan \in SetToSeqs(Wanted(h, q))
      /\ \A r \in Wanted(h, q) : UndoScripts(r.version) # {}
    BY DEF UndoPlans, Wanted
<1>5. Wanted(h, q) \in SUBSET h
    BY <1>3 DEF UndoCandidates
<1>6. IsFiniteSet(Wanted(h, q))
    BY <1>5, HistoryFinite, FS_Subset
<1> HIDE DEF Wanted, UndoPlans
<1>7. /\ plan \in Seq(Wanted(h, q)) /\ Len(plan) \in Nat /\ DOMAIN plan = 1..Len(plan)
      /\ \A i \in 1..Len(plan) : plan[i] \in Wanted(h, q)
      /\ \A i, j \in 1..Len(plan) : plan[i] = plan[j] => i = j
      /\ \A x \in Wanted(h, q) : \E i \in 1..Len(plan) : plan[i] = x
    BY <1>4, <1>6, ListIs
<1> QED BY <1>3, <1>4, <1>7

\* The row of an undo is one of its script.
LEMMA UndoRowOk ==
    ASSUME SchemaHistoryAssumption, files \in [Scripts -> Nat], NEW rank \in Nat \ {0}, NEW v,
           UndoScripts(v) # {}, NEW ok \in BOOLEAN
    PROVE  /\ RowOk(UndoRow(rank, v, ok)) /\ UndoRow(rank, v, ok).rank = rank
           /\ UndoRow(rank, v, ok).kind = "UNDO_SQL" /\ UndoRow(rank, v, ok).version = v
           /\ UndoRow(rank, v, ok).ok = ok
<1> DEFINE u == CHOOSE x \in UndoScripts(v) : TRUE
           r == UndoRow(rank, v, ok)
<1>1. u \in UndoScripts(v)
    OBVIOUS
<1>2. r = [rank |-> rank, kind |-> "UNDO_SQL", version |-> v, script |-> u, sum |-> files[u], ok |-> ok]
    BY DEF UndoRow, Row
<1> HIDE DEF u, r
<1>3. u \in Scripts /\ KindOf[u] = "UNDO_SQL" /\ VersionOf[u] = v
    BY <1>1 DEF UndoScripts, Of
<1>4. v \in Nat /\ files[u] \in Nat
    BY <1>3 DEF SchemaHistoryAssumption
<1>5. r \in RowType
    BY <1>2, <1>3, <1>4 DEF RowType, RowKinds
<1>6. r.rank = rank /\ r.kind = "UNDO_SQL" /\ r.version = v /\ r.script = u /\ r.ok = ok
    BY <1>2
<1>7. RowOk(r)
    BY <1>3, <1>5, <1>6 DEF RowOk
<1> QED BY <1>6, <1>7 DEF r

\* The rows of an undo are those of the first rows of its plan, successes up to the n-th.
UndoneRows(h, g, plan, n) ==
    /\ Grows(h, g)
    /\ \A r \in g \ h : /\ r.kind = "UNDO_SQL"
                        /\ r.ok => \E i \in 1..n : r.version = plan[i].version
    /\ \A i \in 1..n : \E r \in g \ h : r.kind = "UNDO_SQL" /\ r.version = plan[i].version /\ r.ok

UndoRan(h, plan, n, noted) ==
    h \cup {UndoRow(Top(h) + i, plan[i].version, i <= n) :
              i \in 1..(IF noted /\ n < Len(plan) THEN n + 1 ELSE n)}

LEMMA UndoRanIs ==
    ASSUME SchemaHistoryAssumption, files \in [Scripts -> Nat], NEW h, HistoryOk(h),
           NEW plan, Len(plan) \in Nat, \A i \in 1..Len(plan) : UndoScripts(plan[i].version) # {},
           NEW n \in 0..Len(plan), NEW noted \in BOOLEAN
    PROVE  UndoneRows(h, UndoRan(h, plan, n, noted), plan, n)
<1> DEFINE m == IF noted /\ n < Len(plan) THEN n + 1 ELSE n
           New(i) == UndoRow(Top(h) + i, plan[i].version, i <= n)
           new == {New(i) : i \in 1..m}
<1>1. m \in Nat /\ m <= Len(plan) /\ n <= m /\ n \in Nat
    OBVIOUS
<1>2. UndoRan(h, plan, n, noted) = h \cup new
    BY DEF UndoRan
<1> HIDE DEF m
<1>3. Top(h) \in Nat
    BY LatestFacts DEF Top, Latest
<1>4. ASSUME NEW i \in 1..m
      PROVE  /\ New(i).rank = Top(h) + i /\ New(i).kind = "UNDO_SQL" /\ New(i).version = plan[i].version
             /\ New(i).ok <=> i <= n
             /\ RowOk(New(i))
  <2>1. i \in 1..Len(plan) /\ Top(h) + i \in Nat \ {0} /\ (i <= n) \in BOOLEAN
      BY <1>1, <1>3
  <2> DEFINE rank == Top(h) + i
             v == plan[i].version
             ok == i <= n
  <2>2. New(i) = UndoRow(rank, v, ok)
      OBVIOUS
  <2>3. rank \in Nat \ {0} /\ UndoScripts(v) # {} /\ ok \in BOOLEAN
      BY <2>1
  <2> HIDE DEF New, rank, v, ok
  <2>4. /\ New(i).rank = rank /\ New(i).kind = "UNDO_SQL" /\ New(i).version = v
        /\ New(i).ok = ok /\ RowOk(New(i))
      BY <2>2, <2>3, UndoRowOk
  <2>5. /\ New(i).rank = Top(h) + i /\ New(i).kind = "UNDO_SQL" /\ New(i).version = plan[i].version
        /\ New(i).ok = (i <= n) /\ RowOk(New(i))
      BY <2>4 DEF rank, v, ok
  <2>6. New(i).ok <=> i <= n
      BY <2>5
  <2> QED BY <2>5, <2>6
<1> HIDE DEF New
<1>5. /\ HistoryOk(h \cup new)
      /\ \A r \in h : r.rank \in Nat /\ r.rank <= Top(h)
      /\ \A r \in new : r.rank \in Nat /\ r.rank > Top(h)
  <2>1. \A r \in new : RowOk(r) /\ \E i \in 1..m : r.rank = Top(h) + i
      BY <1>4
  <2>2. \A i, j \in 1..m : New(i).rank = New(j).rank => i = j
      BY <1>1, <1>3, <1>4
  <2>3. \A r, x \in new : r.rank = x.rank => r = x
      BY <2>2
  <2> HIDE DEF new
  <2>4. m \in Nat
      BY <1>1
  <2> QED BY ONLY <2>1, <2>3, <2>4, HistoryOk(h), LongerOk
<1>6. (h \cup new) \ h = new
  <2> HIDE DEF new
  <2>1. \A r \in new : r \notin h
      BY ONLY <1>3, <1>5
  <2> QED BY ONLY <2>1
<1>7. Grows(h, h \cup new)
  <2> HIDE DEF new
  <2> QED BY ONLY <1>3, <1>5, <1>6, HistoryOk(h) DEF Grows
<1>8. ASSUME NEW r \in new
      PROVE  /\ r.kind = "UNDO_SQL"
             /\ r.ok => \E i \in 1..n : r.version = plan[i].version
  <2>1. PICK i \in 1..m : r = New(i)
      OBVIOUS
  <2>2. i <= n => i \in 1..n
      BY <1>1
  <2> QED BY <1>4, <2>1, <2>2
<1>9. ASSUME NEW i \in 1..n
      PROVE  \E r \in new : r.kind = "UNDO_SQL" /\ r.version = plan[i].version /\ r.ok
  <2>1. i \in 1..m /\ i <= n
      BY <1>1
  <2>2. New(i) \in new
      BY <2>1
  <2> QED BY <1>4, <2>1, <2>2
<1> QED BY <1>2, <1>6, <1>7, <1>8, <1>9 DEF UndoneRows

\* An undo takes the versions of its first rows out of place.
LEMMA UndoKeeps ==
    ASSUME SchemaHistoryAssumption, HInv, Undo
    PROVE  HInv'
<1>1. PICK q \in Requests : \E plan \in UndoPlans(history, q) : \E n \in 0..Len(plan), noted \in BOOLEAN :
        /\ history' = UndoRan(history, plan, n, noted)
        /\ inPlace' = inPlace \ ToSet([i \in 1..n |-> plan[i].version])
    BY DEF Undo, UndoRan
<1>2. PICK plan \in UndoPlans(history, q) : \E n \in 0..Len(plan), noted \in BOOLEAN :
        /\ history' = UndoRan(history, plan, n, noted)
        /\ inPlace' = inPlace \ ToSet([i \in 1..n |-> plan[i].version])
    BY <1>1
<1>3. PICK n \in 0..Len(plan), noted \in BOOLEAN :
        /\ history' = UndoRan(history, plan, n, noted)
        /\ inPlace' = inPlace \ ToSet([i \in 1..n |-> plan[i].version])
    BY <1>2
<1>4. /\ files' = files /\ grouping' = grouping /\ edits' = edits /\ accepted' = accepted
    BY DEF Undo
<1> DEFINE g == UndoRan(history, plan, n, noted)
           h == history
<1>5. /\ files \in [Scripts -> Nat] /\ accepted \in [Scripts -> Nat]
      /\ grouping \in Groupings /\ edits \in Nat /\ inPlace \in SUBSET Versions
      /\ HistoryOk(h)
    BY DEF HInv, TypeInv
<1>6. Len(plan) \in Nat /\ \A i \in 1..Len(plan) : UndoScripts(plan[i].version) # {}
  <2>1. HistoryOk(history) /\ plan \in UndoPlans(history, q)
      BY <1>5
  <2> QED BY ONLY <2>1, UndoPlanIs
<1>7. UndoneRows(h, g, plan, n)
    BY <1>5, <1>6, UndoRanIs
<1>8. history' = g
    BY <1>3
<1> HIDE DEF g, h
<1>9. ToSet([i \in 1..n |-> plan[i].version]) = {plan[i].version : i \in 1..n}
    BY DEF ToSet
<1>10. TypeInv'
  <2>1. HistoryOk(history')
      BY <1>7, <1>8 DEF UndoneRows, Grows
  <2>2. inPlace' \in SUBSET Versions
      BY <1>3, <1>5
  <2> QED BY <1>4, <1>5, <2>1, <2>2 DEF TypeInv
<1>11. PlacesInv'
  <2> SUFFICES ASSUME NEW v \in Versions PROVE v \in inPlace' <=> PlacedBy(g, v)
      BY <1>8 DEF PlacesInv
  <2> DEFINE new(kind) == {r \in g \ h : r.kind = kind /\ r.version = v /\ r.ok}
  <2>1. new("SQL") = {}
      BY <1>7 DEF UndoneRows
  <2>2. v \in {plan[i].version : i \in 1..n} <=> new("UNDO_SQL") # {}
    <3>1. ASSUME NEW i \in 1..n, v = plan[i].version
          PROVE  \E r \in g \ h : r \in new("UNDO_SQL")
        BY <1>7, <3>1 DEF UndoneRows
    <3>2. ASSUME NEW r \in new("UNDO_SQL")
          PROVE  \E i \in 1..n : v = plan[i].version
        BY <1>7 DEF UndoneRows
    <3> HIDE DEF new
    <3> QED BY <3>1, <3>2
  <2>3. /\ new("SQL") = {} /\ new("UNDO_SQL") # {} => ~PlacedBy(g, v)
        /\ new("SQL") = {} /\ new("UNDO_SQL") = {} => (PlacedBy(g, v) <=> PlacedBy(h, v))
      BY <1>7, GrowPlaces DEF UndoneRows
  <2> HIDE DEF new
  <2>4. v \in inPlace <=> PlacedBy(h, v)
      BY DEF HInv, PlacesInv, h
  <2> QED BY <1>3, <1>9, <2>1, <2>2, <2>3, <2>4
<1>12. AcceptedInv'
  <2> SUFFICES ASSUME NEW s \in Of("REPEATABLE")
               PROVE  accepted[s] = IF Successful(g, s) THEN SuccessRow(g, s).sum ELSE 0
      BY <1>4, <1>8 DEF AcceptedInv
  <2>1. SuccessRows(g, s) \subseteq h
      BY <1>7 DEF UndoneRows, SuccessRows
  <2>2. Grows(h, g) /\ \A r \in SuccessRows(g, s) \ h : r.sum = 0
      BY <1>7, <2>1 DEF UndoneRows
  <2>3. /\ Successful(g, s) <=> Successful(h, s)
        /\ Successful(h, s) => SuccessRow(g, s).sum = SuccessRow(h, s).sum
      BY ONLY <2>1, <2>2, GrowSuccess
  <2>4. accepted[s] = IF Successful(h, s) THEN SuccessRow(h, s).sum ELSE 0
      BY DEF HInv, AcceptedInv, h
  <2> QED BY <2>3, <2>4
<1> QED BY <1>10, <1>11, <1>12 DEF HInv

\* A repair changes no version, and accepts what it realigns.
LEMMA RepairKeeps ==
    ASSUME SchemaHistoryAssumption, HInv, Repair
    PROVE  HInv'
<1> DEFINE g == Repaired(history)
           h == history
<1>1. /\ history' = g /\ files' = files /\ grouping' = grouping /\ edits' = edits /\ inPlace' = inPlace
      /\ accepted' = [s \in Scripts |-> IF s \in Realigned(history) THEN files[s] ELSE accepted[s]]
    BY DEF Repair
<1>2. /\ files \in [Scripts -> Nat] /\ accepted \in [Scripts -> Nat]
      /\ grouping \in Groupings /\ edits \in Nat /\ inPlace \in SUBSET Versions
      /\ HistoryOk(h)
    BY DEF HInv, TypeInv
<1>3. Mends(h, g)
    BY <1>2, RepairMends
<1> HIDE DEF g
<1>4. TypeInv'
  <2>1. HistoryOk(history')
      BY <1>1, <1>3 DEF Mends
  <2>2. accepted' \in [Scripts -> Nat]
      BY <1>1, <1>2
  <2> QED BY <1>1, <1>2, <2>1, <2>2 DEF TypeInv
<1>5. PlacesInv'
  <2> SUFFICES ASSUME NEW v \in Versions PROVE v \in inPlace <=> PlacedBy(g, v)
      BY <1>1 DEF PlacesInv
  <2>1. PlacedBy(g, v) <=> PlacedBy(h, v)
      BY <1>2, <1>3, MendKeepsRanks
  <2> QED BY <2>1 DEF HInv, PlacesInv
<1>6. AcceptedInv'
  <2> SUFFICES ASSUME NEW s \in Of("REPEATABLE")
               PROVE  accepted'[s] = IF Successful(g, s) THEN SuccessRow(g, s).sum ELSE 0
      BY <1>1 DEF AcceptedInv
  <2>1. s \in Scripts
      BY DEF Of
  <2>2. /\ Successful(g, s) <=> Successful(h, s)
        /\ Successful(h, s) => SuccessRow(g, s).sum = IF s \in Realigned(h) THEN files[s] ELSE SuccessRow(h, s).sum
      BY <1>2, <1>3, <2>1, MendKeepsSuccess
  <2>3. s \in Realigned(h) => Successful(h, s)
      BY RealignedAre
  <2>4. accepted[s] = IF Successful(h, s) THEN SuccessRow(h, s).sum ELSE 0
      BY DEF HInv, AcceptedInv
  <2>5. accepted'[s] = IF s \in Realigned(h) THEN files[s] ELSE accepted[s]
      BY <1>1, <2>1
  <2> QED BY <2>2, <2>3, <2>4, <2>5
<1> QED BY <1>4, <1>5, <1>6 DEF HInv

\* A baseline puts nothing in place.
LEMMA BaselineKeeps ==
    ASSUME SchemaHistoryAssumption, HInv, NEW v \in Versions, Baseline(v)
    PROVE  HInv'
<1> DEFINE row == Row(1, "BASELINE", v, "baseline", 0, TRUE)
<1>1. /\ history = {} /\ history' = {row}
      /\ files' = files /\ grouping' = grouping /\ edits' = edits /\ inPlace' = inPlace /\ accepted' = accepted
    BY DEF Baseline
<1>2. v \in Nat
    BY DEF Versions, Of, SchemaHistoryAssumption
<1>3. row = [rank |-> 1, kind |-> "BASELINE", version |-> v, script |-> "baseline", sum |-> 0, ok |-> TRUE]
    BY DEF Row
<1> HIDE DEF row
<1>4. row.rank = 1 /\ row.kind = "BASELINE" /\ row.version = v /\ row.script = "baseline" /\ row.ok = TRUE
    BY <1>3
<1>5. row \in RowType
    BY <1>2, <1>3 DEF RowType, RowKinds
<1>6. HistoryOk({row}) /\ HistoryOk(history)
  <2>1. RowOk(row)
      BY <1>4, <1>5 DEF RowOk
  <2>2. Bounded({r.rank : r \in {row}})
      BY <1>4 DEF Bounded
  <2> QED BY <2>1, <2>2 DEF HistoryOk, HInv, TypeInv
<1>7. ASSUME NEW w
      PROVE  ~PlacedBy({row}, w) /\ ~PlacedBy(history, w)
  <2>1. RowsOf({row}, "SQL", w) = {} /\ RowsOf(history, "SQL", w) = {}
      BY <1>1, <1>4 DEF RowsOf
  <2> QED BY <1>6, <2>1, UndoneIs
<1>8. ASSUME NEW s \in Scripts
      PROVE  ~Successful({row}, s) /\ ~Successful(history, s)
  <2>1. s # "baseline"
      BY DEF SchemaHistoryAssumption
  <2>2. SuccessRows({row}, s) = {} /\ SuccessRows(history, s) = {}
      BY <1>1, <1>4, <2>1 DEF SuccessRows
  <2> QED BY <1>6, <2>2, SuccessFacts
<1>9. TypeInv'
    BY <1>1, <1>6 DEF HInv, TypeInv
<1>10. PlacesInv'
    BY <1>1, <1>7 DEF HInv, PlacesInv
<1>11. AcceptedInv'
  <2>1. \A s \in Of("REPEATABLE") : s \in Scripts
      BY DEF Of
  <2> QED BY <1>1, <1>8, <2>1 DEF HInv, AcceptedInv
<1> QED BY <1>9, <1>10, <1>11 DEF HInv

\* An edit changes files only, and a step that changes nothing changes nothing.
LEMMA EditKeeps ==
    ASSUME SchemaHistoryAssumption, HInv, NEW s \in Scripts, NEW c \in Contents \cup {0}, Edit(s, c)
    PROVE  HInv'
<1>1. files' = [files EXCEPT ![s] = c] /\ edits' = edits + 1
      /\ history' = history /\ grouping' = grouping /\ inPlace' = inPlace /\ accepted' = accepted
    BY DEF Edit
<1>2. c \in Nat
  <2>1. Contents \subseteq Nat \ {0}
      BY DEF SchemaHistoryAssumption
  <2> QED BY ONLY <2>1, c \in Contents \cup {0}
<1>3. TypeInv'
    BY <1>1, <1>2 DEF HInv, TypeInv
<1>4. PlacesInv' /\ AcceptedInv'
    BY <1>1 DEF HInv, PlacesInv, AcceptedInv
<1> QED BY <1>3, <1>4 DEF HInv

\* Every step keeps the invariant.
LEMMA NextKeeps ==
    ASSUME SchemaHistoryAssumption, HInv, [Next]_vars
    PROVE  HInv'
<1>1. CASE Migrate
  <2>1. PICK q \in Requests : \E plan \in Pending(history, q) : \E n \in 0..Len(plan), noted \in BOOLEAN :
          history' = Ran(history, plan, n, noted) /\ RanInto(plan, n)
      BY <1>1 DEF Migrate
  <2>2. PICK plan \in Pending(history, q) : \E n \in 0..Len(plan), noted \in BOOLEAN :
          history' = Ran(history, plan, n, noted) /\ RanInto(plan, n)
      BY <2>1
  <2>3. PICK n \in 0..Len(plan), noted \in BOOLEAN : history' = Ran(history, plan, n, noted) /\ RanInto(plan, n)
      BY <2>2
  <2>4. UNCHANGED <<files, grouping, edits>>
      BY <1>1 DEF Migrate
  <2> QED BY <2>3, <2>4, RunKeeps
<1>2. CASE MarkAsExecuted
  <2>1. PICK q \in Requests : \E plan \in Pending(history, q) :
          history' = Ran(history, plan, Len(plan), FALSE) /\ RanInto(plan, Len(plan))
      BY <1>2 DEF MarkAsExecuted
  <2>2. PICK plan \in Pending(history, q) :
          history' = Ran(history, plan, Len(plan), FALSE) /\ RanInto(plan, Len(plan))
      BY <2>1
  <2>3. UNCHANGED <<files, grouping, edits>>
      BY <1>2 DEF MarkAsExecuted
  <2>4. Len(plan) \in 0..Len(plan)
      BY PlanIs
  <2> QED BY <2>2, <2>3, <2>4, RunKeeps
<1>3. CASE Undo
    BY <1>3, UndoKeeps
<1>4. CASE Repair
    BY <1>4, RepairKeeps
<1>5. ASSUME NEW v \in Versions, Baseline(v)
      PROVE  HInv'
    BY <1>5, BaselineKeeps
<1>6. ASSUME NEW s \in Scripts, NEW c \in Contents \cup {0}, Edit(s, c)
      PROVE  HInv'
    BY <1>6, EditKeeps
<1>7. CASE UNCHANGED vars
    BY <1>7 DEF vars, HInv, TypeInv, PlacesInv, AcceptedInv
<1> QED BY <1>1, <1>2, <1>3, <1>4, <1>5, <1>6, <1>7 DEF Next

-----------------------------------------------------------------------------
(* What undo takes.                                                        *)

\* A candidate is the latest row of a version in place; every version in place has one.
LEMMA CandidateIs ==
    ASSUME SchemaHistoryAssumption, HInv, NEW r \in UndoCandidates(history)
    PROVE  /\ r \in history /\ r.version \in inPlace /\ r.rank = RanksOf(history, r.version).versioned
           /\ \A x \in UndoCandidates(history) : x.version = r.version => x = r
<1>1. HistoryOk(history)
    BY DEF HInv, TypeInv
<1>2. /\ r \in history /\ r.kind = "SQL" /\ r.ok
      /\ r.rank = RanksOf(history, r.version).versioned /\ ~CurrentlyUndone(history, r.version)
    BY DEF UndoCandidates
<1>3. r.version \in Versions
    BY <1>1, <1>2, RowVersions
<1>4. r \in RowsOf(history, "SQL", r.version)
    BY <1>2 DEF RowsOf
<1>5. PlacedBy(history, r.version)
    BY <1>1, <1>2, <1>4, UndoneIs
<1>6. r.version \in inPlace
    BY <1>3, <1>5 DEF HInv, PlacesInv
<1>7. \A x \in UndoCandidates(history) : x.version = r.version => x \in history /\ x.rank = r.rank
    BY <1>2 DEF UndoCandidates
<1> QED BY <1>1, <1>2, <1>6, <1>7 DEF HistoryOk

LEMMA CandidateOf ==
    ASSUME SchemaHistoryAssumption, HInv, NEW v \in inPlace
    PROVE  \E r \in UndoCandidates(history) : r.version = v
<1>1. HistoryOk(history) /\ v \in Versions /\ PlacedBy(history, v)
    BY DEF HInv, TypeInv, PlacesInv
<1>2. RanksSay(history, v)
    BY <1>1, RanksFacts
<1>3. PICK r \in RowsOf(history, "SQL", v) : r.rank = RanksOf(history, v).versioned
    BY <1>1, <1>2 DEF RanksSay, PlacedBy
<1>4. ~CurrentlyUndone(history, v)
    BY <1>1, UndoneIs
<1> QED BY <1>3, <1>4 DEF UndoCandidates, RowsOf

\* What is wanted that carries a tag brings its group.
LEMMA GroupIsWhole ==
    ASSUME SchemaHistoryAssumption, HInv, NEW q, q.versions = Versions,
           NEW r \in Wanted(history, q), r.version \in grouping.tagged,
           NEW x \in UndoCandidates(history), x.version \in grouping.tagged
    PROVE  x \in Wanted(history, q)
<1>1. HistoryOk(history) /\ grouping \in Groupings
    BY DEF HInv, TypeInv
<1>2. \E y \in Expanded(history, q) : y.version \in grouping.tagged
  <2>1. CASE r \in Expanded(history, q)
      BY <2>1
  <2>2. CASE r \notin Expanded(history, q)
    <3>1. PICK y \in Expanded(history, q) : y \in PartRows(history) /\ r \in PartRows(history)
        BY <2>2 DEF Wanted, WithParts, TouchesParts
    <3>2. \A z \in {r, y} : z \in history /\ z.script \in ToSet(grouping.parts) /\ z.version = VersionOf[z.script]
      <4>1. \A z \in {r, y} : z \in history /\ z.kind = "SQL" /\ z.script \in ToSet(grouping.parts)
          BY <3>1 DEF PartRows, UndoCandidates
      <4> QED BY <1>1, <4>1 DEF HistoryOk, RowOk
    <3>3. VersionOf[r.script] \in grouping.tagged => VersionOf[y.script] \in grouping.tagged
        BY <1>1, <3>2 DEF SchemaHistoryAssumption
    <3> QED BY <3>2, <3>3
  <2> QED BY <2>1, <2>2
<1>3. TouchesGroup(UndoSeeds(history, q))
    BY <1>2 DEF Expanded, TouchesGroup
<1>4. x.version \in q.versions
    BY CandidateIs DEF HInv, TypeInv
<1>5. x \in Expanded(history, q)
    BY <1>3, <1>4 DEF Expanded
<1> QED BY <1>5 DEF Wanted, WithParts

\* What is wanted that is a part brings its set, while a file of the set is left.
LEMMA SetIsWhole ==
    ASSUME SchemaHistoryAssumption, HInv, NEW q, \E s \in ToSet(grouping.parts) : OnDisk(s),
           NEW r \in Wanted(history, q), r \in PartRows(history), NEW x \in PartRows(history)
    PROVE  x \in Wanted(history, q)
<1>1. TouchesParts(history, Expanded(history, q))
  <2>1. CASE r \in Expanded(history, q)
      BY <2>1 DEF TouchesParts
  <2>2. CASE r \notin Expanded(history, q)
      BY <2>2 DEF Wanted, WithParts
  <2> QED BY <2>1, <2>2
<1> QED BY <1>1 DEF Wanted, WithParts

\* Everything above the target is wanted, or else the newest row.
LEMMA SeedsAre ==
    ASSUME SchemaHistoryAssumption, HInv, NEW q, q.target \in Nat, q.versions = Versions,
           NEW r \in UndoCandidates(history),
           IF q.target # 0 THEN r.version > q.target
           ELSE \A w \in inPlace : RanksOf(history, w).versioned <= RanksOf(history, r.version).versioned
    PROVE  r \in Wanted(history, q)
<1>1. \A x \in UndoCandidates(history) :
        x.version \in inPlace /\ x.version \in q.versions /\ x.rank = RanksOf(history, x.version).versioned
    BY CandidateIs DEF HInv, TypeInv
<1>2. r \in UndoSeeds(history, q)
    BY <1>1 DEF UndoSeeds
<1> QED BY <1>2 DEF Expanded, Wanted, WithParts

\* Where no group is met the plan is in the order of the rows.
LEMMA NewestFirst ==
    ASSUME NEW h, NEW q, NEW plan \in UndoPlans(h, q), ~TouchesGroup(UndoSeeds(h, q)),
           NEW i \in DOMAIN plan, NEW j \in DOMAIN plan, i < j
    PROVE  plan[i].rank > plan[j].rank
BY DEF UndoPlans

\* The versions of the first n rows of a plan.
UndoneBy(plan, n) == [i \in 1..n |-> plan[i].version]

\* They are in place, and no version is there twice.
LEMMA UndoneOnce ==
    ASSUME SchemaHistoryAssumption, HInv, NEW q, NEW plan \in UndoPlans(history, q), NEW n \in 0..Len(plan)
    PROVE  /\ n \in Nat /\ n <= Len(plan) /\ Len(plan) \in Nat
           /\ ToSet(UndoneBy(plan, n)) = {plan[i].version : i \in 1..n}
           /\ Len(UndoneBy(plan, n)) = n /\ DOMAIN UndoneBy(plan, n) = 1..n
           /\ \A i \in 1..n : /\ UndoneBy(plan, n)[i] = plan[i].version
                              /\ RanksOf(history, plan[i].version).versioned = plan[i].rank
           /\ ToSet(UndoneBy(plan, n)) \subseteq inPlace
           /\ Cardinality(ToSet(UndoneBy(plan, n))) = n
<1> DEFINE u == UndoneBy(plan, n)
<1>1. HistoryOk(history)
    BY DEF HInv, TypeInv
<1>2. /\ Len(plan) \in Nat
      /\ \A i \in 1..Len(plan) : plan[i] \in UndoCandidates(history)
      /\ \A i, j \in 1..Len(plan) : plan[i] = plan[j] => i = j
    BY ONLY <1>1, plan \in UndoPlans(history, q), UndoPlanIs
<1>3. n \in Nat /\ n <= Len(plan) /\ \A i \in 1..n : i \in 1..Len(plan)
    BY <1>2
<1>4. DOMAIN u = 1..n /\ \A i \in 1..n : u[i] = plan[i].version
    BY DEF UndoneBy
<1>5. ToSet(u) = {plan[i].version : i \in 1..n}
    BY <1>4 DEF ToSet
<1>6. Len(u) = n
  <2>1. u \in Seq(ToSet(u))
    <3>1. u \in [1..n -> ToSet(u)]
        BY <1>4, <1>5 DEF UndoneBy
    <3> QED BY <1>3, <3>1, SeqDef
  <2> QED BY <1>3, <1>4, <2>1, LenProperties
<1> HIDE DEF u
<1>7. ASSUME NEW i \in 1..n
      PROVE  plan[i].version \in inPlace /\ RanksOf(history, plan[i].version).versioned = plan[i].rank
  <2>1. plan[i] \in UndoCandidates(history)
      BY <1>2, <1>3
  <2> QED BY <2>1, CandidateIs
<1>8. \A i, j \in 1..n : u[i] = u[j] => i = j
  <2> SUFFICES ASSUME NEW i \in 1..n, NEW j \in 1..n, u[i] = u[j] PROVE i = j
      OBVIOUS
  <2>1. plan[i] \in UndoCandidates(history) /\ plan[j] \in UndoCandidates(history)
      BY <1>2, <1>3
  <2>2. plan[i] = plan[j]
      BY <1>4, <2>1, CandidateIs
  <2> QED BY <1>2, <1>3, <2>2
<1>9. Cardinality(ToSet(u)) = n
  <2>1. IsFiniteSet(1..n) /\ Cardinality(1..n) = n
    <3>1. 1 \in Int /\ n \in Int
        BY <1>3
    <3>2. IsFiniteSet(1..n) /\ Cardinality(1..n) = IF 1 > n THEN 0 ELSE n - 1 + 1
        BY ONLY <3>1, FS_Interval
    <3> QED BY <1>3, <3>2
  <2>2. u \in [1..n -> ToSet(u)]
      BY <1>4, <1>5 DEF UndoneBy, u
  <2>3. u \in Surjection(1..n, ToSet(u))
      BY <1>4, <1>5, <2>2 DEF Surjection
  <2>4. u \in Injection(1..n, ToSet(u))
      BY <1>4, <1>8, <2>2 DEF Injection, IsInjective
  <2> QED BY <2>1, <2>3, <2>4, FS_Surjection
<1> QED BY <1>2, <1>3, <1>4, <1>5, <1>6, <1>7, <1>9 DEF u

\* Where no group is met the newest row goes first.  Either a tagged version is in what
\* was asked and wanted, or the seeds touch no group.
LEMMA OrderWithoutGroup ==
    ASSUME SchemaHistoryAssumption, HInv, NEW q, NEW plan \in UndoPlans(history, q), NEW n \in 0..Len(plan),
           NEW complete, complete => n = Len(plan),
           (IF complete THEN {plan[i].version : i \in 1..n} ELSE inPlace) \cap grouping.tagged = {}
    PROVE  \A i, j \in 1..n : i < j => plan[i].rank > plan[j].rank
<1>1. HistoryOk(history)
    BY DEF HInv, TypeInv
<1>2. /\ Len(plan) \in Nat /\ DOMAIN plan = 1..Len(plan)
      /\ \A r \in Wanted(history, q) : \E i \in 1..Len(plan) : plan[i] = r
      /\ Wanted(history, q) \subseteq UndoCandidates(history)
    BY ONLY <1>1, plan \in UndoPlans(history, q), UndoPlanIs
<1>3. ASSUME NEW r \in UndoSeeds(history, q)
      PROVE  r.version \notin grouping.tagged
  <2>1. r \in Wanted(history, q)
      BY DEF Wanted, WithParts, Expanded
  <2>2. r.version \in inPlace
      BY <1>2, <2>1, CandidateIs
  <2>3. PICK i \in 1..Len(plan) : plan[i] = r
      BY <1>2, <2>1
  <2>4. n = Len(plan) => r.version \in {plan[k].version : k \in 1..n}
      BY <2>3
  <2> QED BY <2>2, <2>4
<1>4. ~TouchesGroup(UndoSeeds(history, q))
    BY <1>3 DEF TouchesGroup
<1> SUFFICES ASSUME NEW i \in 1..n, NEW j \in 1..n, i < j PROVE plan[i].rank > plan[j].rank
    OBVIOUS
<1>5. i \in DOMAIN plan /\ j \in DOMAIN plan
  <2>1. n \in Nat /\ n <= Len(plan) /\ Len(plan) \in Nat
      BY UndoneOnce
  <2>2. i \in 1..Len(plan) /\ j \in 1..Len(plan)
      BY ONLY <2>1, i \in 1..n, j \in 1..n
  <2> QED BY ONLY <1>2, <2>2
<1> QED BY ONLY <1>4, <1>5, i < j, plan \in UndoPlans(history, q), NewestFirst

\* An undo that took its whole plan leaves no group and no generated set in part, and
\* nothing above the target, or took the newest version.
LEMMA WholeIsTaken ==
    ASSUME SchemaHistoryAssumption, HInv, NEW q \in Requests, q.versions = Versions,
           NEW taken, taken = {r.version : r \in Wanted(history, q)}
    PROVE  /\ taken \cap grouping.tagged # {} => inPlace \cap grouping.tagged \subseteq taken
           /\ (\E s \in ToSet(grouping.parts) : OnDisk(s)) =>
                LET parts == {r.version : r \in PartRows(history)}
                IN  taken \cap parts # {} => parts \subseteq taken
           /\ q.target # 0 => \A v \in inPlace \ taken : v <= q.target
           /\ q.target = 0 => \A v \in inPlace :
                (\A w \in inPlace : RanksOf(history, w).versioned <= RanksOf(history, v).versioned) => v \in taken
<1>1. HistoryOk(history) /\ q.target \in Nat /\ inPlace \subseteq Versions
    BY DEF HInv, TypeInv, SchemaHistoryAssumption
<1>2. Wanted(history, q) \subseteq UndoCandidates(history) /\ PartRows(history) \subseteq UndoCandidates(history)
    BY DEF Wanted, WithParts, Expanded, UndoSeeds, PartRows
<1>3. ASSUME NEW r \in Wanted(history, q), r.version \in grouping.tagged,
             NEW v \in inPlace, v \in grouping.tagged
      PROVE  v \in taken
  <2>1. PICK x \in UndoCandidates(history) : x.version = v
      BY CandidateOf
  <2>2. x \in Wanted(history, q)
      BY <1>3, <2>1, GroupIsWhole
  <2> QED BY <2>1, <2>2
<1>4. ASSUME \E s \in ToSet(grouping.parts) : OnDisk(s),
             NEW r \in Wanted(history, q), NEW y \in PartRows(history), y.version = r.version,
             NEW x \in PartRows(history)
      PROVE  x.version \in taken
  <2>1. y = r
      BY <1>2, <1>4, CandidateIs
  <2>2. x \in Wanted(history, q)
      BY <1>4, <2>1, SetIsWhole
  <2> QED BY <2>2
<1>5. ASSUME q.target # 0, NEW v \in inPlace, v \notin taken
      PROVE  v <= q.target
  <2>1. PICK x \in UndoCandidates(history) : x.version = v
      BY CandidateOf
  <2>2. v \in Nat
      BY <1>1 DEF Versions, Of, SchemaHistoryAssumption
  <2>3. SUFFICES ASSUME v > q.target PROVE FALSE
      BY <1>1, <2>2
  <2>4. x \in Wanted(history, q)
      BY <1>1, <1>5, <2>1, <2>3, SeedsAre
  <2> QED BY <1>5, <2>1, <2>4
<1>6. ASSUME q.target = 0, NEW v \in inPlace,
             \A w \in inPlace : RanksOf(history, w).versioned <= RanksOf(history, v).versioned
      PROVE  v \in taken
  <2>1. PICK x \in UndoCandidates(history) : x.version = v
      BY CandidateOf
  <2>2. x \in Wanted(history, q)
      BY <1>1, <1>6, <2>1, SeedsAre
  <2> QED BY <2>1, <2>2
<1>7. taken \cap grouping.tagged # {} => inPlace \cap grouping.tagged \subseteq taken
    BY <1>3
<1>8. ASSUME \E s \in ToSet(grouping.parts) : OnDisk(s),
             taken \cap {r.version : r \in PartRows(history)} # {}
      PROVE  {r.version : r \in PartRows(history)} \subseteq taken
  <2>1. PICK r \in Wanted(history, q), y \in PartRows(history) : y.version = r.version
      BY <1>8
  <2> QED BY <1>4, <1>8, <2>1
<1> QED BY <1>5, <1>6, <1>7, <1>8

\* What UndoIsExact says of a step.
Exact ==
    (last' # Idle) =>
        LET u == last'.undone
            parts == IF \E s \in ToSet(grouping.parts) : OnDisk(s)
                     THEN {r.version : r \in PartRows(history)} ELSE {}
            rankOf(v) == RanksOf(history, v).versioned
        IN  /\ ToSet(u) \subseteq inPlace /\ Cardinality(ToSet(u)) = Len(u)
            /\ (IF last'.complete THEN ToSet(u) ELSE inPlace) \cap grouping.tagged = {} =>
                \A i, j \in DOMAIN u : i < j => rankOf(u[i]) > rankOf(u[j])
            /\ last'.complete =>
                /\ \A group \in {grouping.tagged, parts} :
                    ToSet(u) \cap group # {} => inPlace' \cap group = {}
                /\ IF last'.target # 0 THEN \A v \in inPlace' : v <= last'.target
                   ELSE \A v \in inPlace : (\A w \in inPlace : rankOf(w) <= rankOf(v)) => v \in ToSet(u)

\* An undo is exact.
LEMMA UndoExact ==
    ASSUME SchemaHistoryAssumption, HInv, Undo
    PROVE  Exact
<1>1. PICK q \in Requests : \E plan \in UndoPlans(history, q) : \E n \in 0..Len(plan) :
        /\ inPlace' = inPlace \ ToSet(UndoneBy(plan, n))
        /\ last' = [complete |-> n = Len(plan) /\ q.versions = Versions,
                    target |-> q.target, undone |-> UndoneBy(plan, n)]
    BY ONLY Undo DEF Undo, UndoneBy
<1>2. PICK plan \in UndoPlans(history, q) : \E n \in 0..Len(plan) :
        /\ inPlace' = inPlace \ ToSet(UndoneBy(plan, n))
        /\ last' = [complete |-> n = Len(plan) /\ q.versions = Versions,
                    target |-> q.target, undone |-> UndoneBy(plan, n)]
    BY <1>1
<1>3. PICK n \in 0..Len(plan) :
        /\ inPlace' = inPlace \ ToSet(UndoneBy(plan, n))
        /\ last' = [complete |-> n = Len(plan) /\ q.versions = Versions,
                    target |-> q.target, undone |-> UndoneBy(plan, n)]
    BY <1>2
<1> DEFINE u == UndoneBy(plan, n)
           complete == n = Len(plan) /\ q.versions = Versions
           versions == {plan[i].version : i \in 1..n}
<1>4. last'.complete = complete /\ last'.target = q.target /\ last'.undone = u /\ inPlace' = inPlace \ ToSet(u)
    BY <1>3
<1>5. /\ n \in Nat /\ n <= Len(plan) /\ Len(plan) \in Nat
      /\ ToSet(u) = versions /\ Len(u) = n /\ DOMAIN u = 1..n
      /\ \A i \in 1..n : /\ u[i] = plan[i].version
                         /\ RanksOf(history, u[i]).versioned = plan[i].rank
      /\ ToSet(u) \subseteq inPlace /\ Cardinality(ToSet(u)) = n
    BY UndoneOnce
<1>6. (IF complete THEN versions ELSE inPlace) \cap grouping.tagged = {} =>
        \A i, j \in 1..n : i < j => plan[i].rank > plan[j].rank
    BY OrderWithoutGroup
<1>7. complete => versions = {r.version : r \in Wanted(history, q)}
  <2>1. HistoryOk(history)
      BY DEF HInv, TypeInv
  <2>2. /\ \A i \in 1..Len(plan) : plan[i] \in Wanted(history, q)
        /\ \A r \in Wanted(history, q) : \E i \in 1..Len(plan) : plan[i] = r
      BY ONLY <2>1, plan \in UndoPlans(history, q), UndoPlanIs
  <2> QED BY <2>2
<1>8. PartRows(history) \subseteq UndoCandidates(history) /\ \A r \in PartRows(history) : r.version \in inPlace
    BY CandidateIs DEF PartRows
<1> HIDE DEF u, complete, versions
<1>9. ASSUME complete
      PROVE  /\ versions \cap grouping.tagged # {} => inPlace \cap grouping.tagged \subseteq versions
             /\ (\E s \in ToSet(grouping.parts) : OnDisk(s)) =>
                  LET parts == {r.version : r \in PartRows(history)}
                  IN  versions \cap parts # {} => parts \subseteq versions
             /\ q.target # 0 => \A v \in inPlace \ versions : v <= q.target
             /\ q.target = 0 => \A v \in inPlace :
                  (\A w \in inPlace : RanksOf(history, w).versioned <= RanksOf(history, v).versioned) => v \in versions
  <2>1. versions = {r.version : r \in Wanted(history, q)} /\ q.versions = Versions
      BY <1>7, <1>9 DEF complete
  <2> QED BY ONLY <2>1, SchemaHistoryAssumption, HInv, q \in Requests, WholeIsTaken
<1> DEFINE parts == IF \E s \in ToSet(grouping.parts) : OnDisk(s)
                    THEN {r.version : r \in PartRows(history)} ELSE {}
<1>10. complete => \A group \in {grouping.tagged, parts} :
         versions \cap group # {} => (inPlace \ versions) \cap group = {}
  <2>1. ASSUME complete, versions \cap grouping.tagged # {}
        PROVE  (inPlace \ versions) \cap grouping.tagged = {}
      BY <1>9, <2>1
  <2>2. ASSUME complete, versions \cap parts # {}
        PROVE  (inPlace \ versions) \cap parts = {}
      BY <1>9, <2>2
  <2> QED BY <2>1, <2>2
<1> HIDE DEF parts
<1>11. (IF complete THEN ToSet(u) ELSE inPlace) \cap grouping.tagged = {} =>
         \A i, j \in DOMAIN u : i < j => RanksOf(history, u[i]).versioned > RanksOf(history, u[j]).versioned
    BY <1>5, <1>6
<1>12. complete =>
         /\ \A group \in {grouping.tagged, parts} : ToSet(u) \cap group # {} => inPlace' \cap group = {}
         /\ IF q.target # 0 THEN \A v \in inPlace' : v <= q.target
            ELSE \A v \in inPlace :
                   (\A w \in inPlace : RanksOf(history, w).versioned <= RanksOf(history, v).versioned) => v \in ToSet(u)
    BY <1>4, <1>5, <1>9, <1>10
<1>13. ToSet(u) \subseteq inPlace /\ Cardinality(ToSet(u)) = Len(u)
    BY <1>5
<1> QED BY ONLY <1>4, <1>11, <1>12, <1>13 DEF Exact, parts

-----------------------------------------------------------------------------
(* The theorems                                                            *)

\* The history and what it stands for fit in every reachable state.
THEOREM HistoryIsSound == Spec => []HInv
<1>1. Init => HInv
    BY InitKeeps, SchemaHistoryAssumption
<1>2. HInv /\ [Next]_vars => HInv'
    BY NextKeeps, SchemaHistoryAssumption
<1> QED BY <1>1, <1>2, PTL DEF Spec

\* After any sequence of commands, failures and edits the history tells which versions are
\* in place, which is the current one, what has to run, and info shows the same.
THEOREM HistoryAlwaysTells == Spec => []HistoryTellsTheSchema
<1>1. HInv => HistoryTellsTheSchema
    BY Tells, SchemaHistoryAssumption
<1> QED BY <1>1, HistoryIsSound, PTL

\* Two repairs leave nothing to repair, and let migrate start.
THEOREM RepairAlwaysUnblocks == Spec => []RepairUnblocks
<1>1. HInv => RepairUnblocks
    BY Unblocks, SchemaHistoryAssumption DEF HInv
<1> QED BY <1>1, HistoryIsSound, PTL

\* Strict mode refuses nothing that validation let through.
THEOREM ValidationAlwaysForesees == Spec => []ValidationForesees
<1>1. HInv => ValidationForesees
    BY Foresees DEF HInv, TypeInv
<1> QED BY <1>1, HistoryIsSound, PTL

\* Every undo that ends takes what was asked and no more: the newest version or all above
\* the target, groups and generated sets whole, the newest first where no group is met.
THEOREM UndoAlwaysExact == Spec => UndoIsExact
<1>1. HInv /\ [Next]_vars => [Exact]_vars
  <2> SUFFICES ASSUME HInv, Next PROVE Exact
      OBVIOUS
  <2>1. ASSUME last' = Idle PROVE Exact
      BY <2>1 DEF Exact
  <2>2. CASE Undo
      BY <2>2, UndoExact, SchemaHistoryAssumption
  <2>3. CASE ~Undo
    <3>1. last' = Idle
        BY <2>3 DEF Next, Migrate, MarkAsExecuted, Repair, Baseline, Edit
    <3> QED BY <2>1, <3>1
  <2> QED BY <2>2, <2>3
<1> QED BY <1>1, HistoryIsSound, PTL DEF Spec, UndoIsExact, Exact

-----------------------------------------------------------------------------
(* The order of versions.  SchemaHistory takes versions for naturals, of   *)
(* which it uses only that they are in strict and total order; so are the  *)
(* versions of scripts, up to segments of 0 at the end, whatever numbers   *)
(* and letters they are made of.                                           *)

SegmentType == Seq(Nat)
Version == Seq(SegmentType)

\* 1 and 1.0 are the same version.
SameVersion(v, w) == \A i \in Nat \ {0} : Segment(v, i) = Segment(w, i)

\* The missing segments of a version count as 0.
LEMMA SegmentIsTyped ==
  ASSUME NEW v \in Version, NEW i \in Nat \ {0}
  PROVE  Segment(v, i) \in SegmentType
BY DEF Version, SegmentType, Segment

\* A segment is not smaller than itself.
LEMMA SegmentIrreflexive ==
  ASSUME NEW a \in SegmentType
  PROVE  ~SmallerSegment(a, a)
BY DEF SegmentType, SmallerSegment

\* The order of segments is transitive.
LEMMA SegmentTransitive ==
  ASSUME NEW a \in SegmentType, NEW b \in SegmentType, NEW c \in SegmentType,
         SmallerSegment(a, b), SmallerSegment(b, c)
  PROVE  SmallerSegment(a, c)
<1>1. PICK i \in 1..Len(b) : /\ \A j \in 1..(i - 1) : j <= Len(a) /\ a[j] = b[j]
                             /\ i <= Len(a) => a[i] < b[i]
  BY DEF SmallerSegment
<1>2. PICK k \in 1..Len(c) : /\ \A j \in 1..(k - 1) : j <= Len(b) /\ b[j] = c[j]
                             /\ k <= Len(b) => b[k] < c[k]
  BY DEF SmallerSegment
<1> USE DEF SegmentType
<1>3. CASE i < k
  <2>1. i \in 1..Len(c) /\ b[i] = c[i]
    BY <1>2, <1>3
  <2>2. \A j \in 1..(i - 1) : j <= Len(a) /\ a[j] = c[j]
    BY <1>1, <1>2, <1>3
  <2>3. i <= Len(a) => a[i] < c[i]
    BY <1>1, <2>1
  <2> QED BY <2>1, <2>2, <2>3 DEF SmallerSegment
<1>4. CASE k <= i
  <2>1. \A j \in 1..(k - 1) : j <= Len(a) /\ a[j] = c[j]
    BY <1>1, <1>2, <1>4
  <2>2. k \in 1..Len(b) /\ b[k] < c[k]
    BY <1>1, <1>2, <1>4
  <2>3. k <= Len(a) => a[k] < c[k]
    <3> SUFFICES ASSUME k <= Len(a) PROVE a[k] < c[k]
      OBVIOUS
    <3>1. a[k] \in Nat /\ b[k] \in Nat /\ c[k] \in Nat
      <4>1. k \in 1..Len(a) /\ k \in 1..Len(b) /\ k \in 1..Len(c)
        BY ONLY a \in SegmentType, k \in 1..Len(c), k <= Len(a), <2>2, LenProperties
      <4> HIDE DEF SegmentType
      <4> QED BY ONLY a \in SegmentType, b \in SegmentType, c \in SegmentType, <4>1, ElementOfSeq DEF SegmentType
    <3>2. a[k] = b[k] \/ a[k] < b[k]
      BY <1>1, <1>4
    <3> QED BY ONLY <2>2, <3>1, <3>2
  <2> QED BY <1>2, <2>1, <2>3 DEF SmallerSegment
<1> QED BY <1>3, <1>4

\* Of two segments that differ one is smaller.
LEMMA SegmentTotal ==
  ASSUME NEW a \in SegmentType, NEW b \in SegmentType, a # b
  PROVE  SmallerSegment(a, b) \/ SmallerSegment(b, a)
<1> USE DEF SegmentType
<1> DEFINE Same(i) == i <= Len(a) /\ i <= Len(b) /\ a[i] = b[i]
           Differ == {i \in 1..(Len(a) + Len(b)) : ~Same(i)}
<1>1. Differ # {}
  <2> SUFFICES ASSUME Differ = {} PROVE FALSE
    OBVIOUS
  <2>1. \A i \in 1..(Len(a) + Len(b)) : Same(i)
    OBVIOUS
  <2>2. Len(a) = Len(b)
    <3>1. Len(a) \in Nat /\ Len(b) \in Nat
      OBVIOUS
    <3>2. CASE Len(a) < Len(b)
      <4>1. Same(Len(b))
        BY <2>1, <3>1, <3>2
      <4> QED BY <3>1, <3>2, <4>1
    <3>3. CASE Len(b) < Len(a)
      <4>1. Same(Len(a))
        BY <2>1, <3>1, <3>3
      <4> QED BY <3>1, <3>3, <4>1
    <3> QED BY <3>1, <3>2, <3>3
  <2>3. \A i \in 1..Len(a) : a[i] = b[i]
    BY <2>1
  <2> QED BY <2>2, <2>3
<1>2. PICK i \in Differ : \A j \in Differ : i <= j
  <2>1. Differ \in SUBSET Nat
    OBVIOUS
  <2> HIDE DEF Differ
  <2> QED BY <1>1, <2>1, LeastExists
<1>3. \A j \in 1..(i - 1) : Same(j)
  BY <1>2
<1>4. CASE i > Len(a)
  <2>1. i \in 1..Len(b)
    <3>1. Len(a) \in Nat /\ Len(b) \in Nat /\ i \in 1..(Len(a) + Len(b))
      OBVIOUS
    <3> SUFFICES ASSUME i > Len(b) PROVE FALSE
      BY <3>1
    <3>2. i - 1 >= Len(a) /\ i - 1 >= Len(b)
      BY <1>4, <3>1
    <3>3. i - 1 = Len(a) \/ i = 1
      BY <1>3, <1>4, <3>1, <3>2
    <3>4. i - 1 = Len(b) \/ i = 1
      BY <1>3, <3>1, <3>2
    <3>5. Len(a) = Len(b)
      BY <3>1, <3>2, <3>3, <3>4
    <3>6. \A j \in 1..Len(a) : a[j] = b[j]
      BY <1>3, <3>1, <3>2
    <3>7. a = b
      BY ONLY a \in SegmentType, b \in SegmentType, <3>5, <3>6, SeqEqual
    <3> QED BY <3>7
  <2>2. \A j \in 1..(i - 1) : j <= Len(a) /\ a[j] = b[j]
    BY <1>3
  <2>3. ~(i <= Len(a))
    BY <1>4, <2>1
  <2> QED BY ONLY <2>1, <2>2, <2>3 DEF SmallerSegment
<1>5. CASE i <= Len(a) /\ i > Len(b)
  <2>1. i \in 1..Len(a)
    BY <1>5
  <2> QED BY <1>3, <1>5, <2>1 DEF SmallerSegment
<1>6. CASE i <= Len(a) /\ i <= Len(b)
  <2>1. a[i] # b[i] /\ a[i] \in Nat /\ b[i] \in Nat
    BY <1>6
  <2>2. a[i] < b[i] \/ b[i] < a[i]
    BY <2>1
  <2>3. i \in 1..Len(a) /\ i \in 1..Len(b)
    BY <1>6
  <2>4. \A j \in 1..(i - 1) : j <= Len(a) /\ j <= Len(b) /\ a[j] = b[j]
    BY <1>3
  <2> HIDE DEF Differ
  <2>5. CASE a[i] < b[i]
    BY <2>3, <2>4, <2>5 DEF SmallerSegment
  <2>6. CASE b[i] < a[i]
    BY <2>3, <2>4, <2>6 DEF SmallerSegment
  <2> QED BY <2>2, <2>5, <2>6
<1>7. Len(a) \in Nat /\ Len(b) \in Nat /\ i \in Nat
  OBVIOUS
<1> QED BY <1>4, <1>5, <1>6, <1>7

\* No version is older than itself, which a sort would loop over.
THEOREM OlderIsIrreflexive ==
  ASSUME NEW v \in Version
  PROVE  ~Older(v, v)
<1> SUFFICES ASSUME NEW i \in 1..(Len(v) + Len(v)), SmallerSegment(Segment(v, i), Segment(v, i))
             PROVE  FALSE
  BY DEF Older
<1>1. i \in Nat \ {0}
  BY DEF Version
<1> QED BY <1>1, SegmentIsTyped, SegmentIrreflexive

\* The order of versions is transitive, so that sorted neighbours are sorted altogether.
THEOREM OlderIsTransitive ==
  ASSUME NEW u \in Version, NEW v \in Version, NEW w \in Version, Older(u, v), Older(v, w)
  PROVE  Older(u, w)
<1>1. PICK i \in 1..(Len(u) + Len(v)) :
        /\ \A j \in 1..(i - 1) : Segment(u, j) = Segment(v, j)
        /\ SmallerSegment(Segment(u, i), Segment(v, i))
  BY DEF Older
<1>2. PICK k \in 1..(Len(v) + Len(w)) :
        /\ \A j \in 1..(k - 1) : Segment(v, j) = Segment(w, j)
        /\ SmallerSegment(Segment(v, k), Segment(w, k))
  BY DEF Older
<1> DEFINE m == IF i < k THEN i ELSE k
<1>3. /\ Len(u) \in Nat /\ Len(v) \in Nat /\ Len(w) \in Nat
      /\ i \in Nat \ {0} /\ k \in Nat \ {0} /\ m \in Nat \ {0} /\ m <= i /\ m <= k
  BY DEF Version
<1>4. \A j \in 1..(m - 1) : Segment(u, j) = Segment(w, j)
  BY <1>1, <1>2, <1>3
<1>5. SmallerSegment(Segment(u, m), Segment(w, m))
  <2>1. CASE i < k
    BY <1>1, <1>2, <1>3, <2>1
  <2>2. CASE k < i
    BY <1>1, <1>2, <1>3, <2>2
  <2>3. CASE i = k
    BY <1>1, <1>2, <1>3, <2>3, SegmentIsTyped, SegmentTransitive
  <2> QED BY <1>3, <2>1, <2>2, <2>3
<1>6. m <= Len(u) + Len(w)
  <2> SUFFICES ASSUME m > Len(u), m > Len(w) PROVE FALSE
    BY <1>3
  <2>1. Segment(u, m) = <<0>> /\ Segment(w, m) = <<0>> /\ <<0>> \in SegmentType
    BY <1>3 DEF Segment, SegmentType
  <2> QED BY <1>5, <2>1, SegmentIrreflexive
<1> HIDE DEF m
<1>7. m \in 1..(Len(u) + Len(w))
  BY <1>3, <1>6
<1> QED BY <1>4, <1>5, <1>7 DEF Older

\* Of two versions one is older, or they are the same version.
THEOREM OlderIsTotal ==
  ASSUME NEW v \in Version, NEW w \in Version
  PROVE  Older(v, w) \/ Older(w, v) \/ SameVersion(v, w)
<1> SUFFICES ASSUME ~SameVersion(v, w) PROVE Older(v, w) \/ Older(w, v)
  OBVIOUS
<1> DEFINE Differ == {i \in Nat \ {0} : Segment(v, i) # Segment(w, i)}
<1>1. Differ # {} /\ Differ \in SUBSET Nat
  BY DEF SameVersion
<1>2. PICK i \in Differ : \A j \in Differ : i <= j
  BY <1>1, LeastExists
<1>3. Len(v) \in Nat /\ Len(w) \in Nat /\ i \in Nat \ {0} /\ Segment(v, i) # Segment(w, i)
  BY DEF Version
<1>4. \A j \in 1..(i - 1) : Segment(v, j) = Segment(w, j)
  BY <1>2, <1>3
<1>5. i \in 1..(Len(v) + Len(w)) /\ i \in 1..(Len(w) + Len(v))
  <2> SUFFICES ASSUME i > Len(v), i > Len(w) PROVE FALSE
    BY <1>3
  <2> QED BY <1>3 DEF Segment
<1>6. SmallerSegment(Segment(v, i), Segment(w, i)) \/ SmallerSegment(Segment(w, i), Segment(v, i))
  BY <1>3, SegmentIsTyped, SegmentTotal
<1> HIDE DEF Differ
<1> QED BY <1>4, <1>5, <1>6 DEF Older

\* Equal versions are those that neither is older of: 1 and 1.0 are duplicates of each other.
THEOREM SameVersionsAreNotOrdered ==
  ASSUME NEW v \in Version, NEW w \in Version
  PROVE  SameVersion(v, w) <=> ~Older(v, w) /\ ~Older(w, v)
<1>1. ASSUME SameVersion(v, w), Older(v, w) \/ Older(w, v) PROVE FALSE
  <2>1. PICK i \in 1..(Len(v) + Len(w)) :
          SmallerSegment(Segment(v, i), Segment(w, i)) \/ SmallerSegment(Segment(w, i), Segment(v, i))
    <3>1. Len(v) \in Nat /\ Len(w) \in Nat
      BY DEF Version
    <3> QED BY <1>1, <3>1 DEF Older
  <2>2. i \in Nat \ {0}
    BY DEF Version
  <2> QED BY <1>1, <2>1, <2>2, SegmentIsTyped, SegmentIrreflexive DEF SameVersion
<1> QED BY <1>1, OlderIsTotal
=============================================================================
