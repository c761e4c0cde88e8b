---------------------------- MODULE SchemaHistory ----------------------------
(***************************************************************************)
(* The state a command derives from the history table and the script      *)
(* files, and the plans it makes of it: what migrate runs, what undo       *)
(* reverts, what repair rewrites, what validate refuses.  Every command is *)
(* one step (their interleavings are MigrateRun's); a run stops at a       *)
(* script that fails.  Between commands the user edits, removes and        *)
(* restores files.  inPlace and accepted are the truth the history is      *)
(* compared with.                                                          *)
(***************************************************************************)
EXTENDS Naturals, FiniteSets, SequencesExt

CONSTANTS
    Scripts,      \* names of the script files
    KindOf,       \* [Scripts -> {"SQL", "UNDO_SQL", "REPEATABLE"}]
    VersionOf,    \* [Scripts -> Nat], 0 for a repeatable script
    Contents,     \* the contents a file can have, each with a checksum
    Groupings,    \* [present : scripts there at first, edited : those the user edits,
                  \*  tagged : versions with a dblift-group tag,
                  \*  parts : scripts of a generated set, in part order; their names
                  \*    differ in the part's number only, so all carry the tag or none,
                  \*  paired : each part has an undo part of its own]
    Requests,     \* what migrate and undo are asked: [target : a version or 0 for none,
                  \*  versions : the ones to run, strict : BOOLEAN]
    MaxRows, MaxEdits

ASSUME SchemaHistoryAssumption ==
    /\ IsFiniteSet(Scripts) /\ "baseline" \notin Scripts
    /\ KindOf \in [Scripts -> {"SQL", "UNDO_SQL", "REPEATABLE"}] /\ VersionOf \in [Scripts -> Nat]
    /\ \A s \in Scripts : KindOf[s] = "REPEATABLE" <=> VersionOf[s] = 0
    /\ Contents # {} /\ Contents \subseteq Nat \ {0}
    /\ \A g \in Groupings : /\ g.present \subseteq Scripts /\ g.edited \subseteq Scripts
                           /\ g.tagged \subseteq Nat /\ g.parts \in Seq(Scripts)
                           /\ \A s, t \in ToSet(g.parts) : VersionOf[s] \in g.tagged => VersionOf[t] \in g.tagged
    /\ \A q \in Requests : q.target \in Nat /\ q.strict \in BOOLEAN
    /\ MaxRows \in Nat /\ MaxEdits \in Nat

VARIABLES
    files,        \* [Scripts -> content, 0 for no file]
    history,      \* the rows, a set; a row's rank is its place
    grouping,     \* the member of Groupings these files are
    edits,
    inPlace,      \* versions whose script ran last, and not its undo script
    accepted,     \* [Scripts -> content that ran or was repaired in, 0 none]
    last          \* what an undo that just ran was asked and did

vars == <<files, history, grouping, edits, inPlace, accepted, last>>

Of(kind) == {s \in Scripts : KindOf[s] = kind}
Versions == {VersionOf[s] : s \in Of("SQL")}
Row(rank, kind, version, script, sum, ok) ==
    [rank |-> rank, kind |-> kind, version |-> version, script |-> script, sum |-> sum, ok |-> ok]
Greatest(S) == Max(S \cup {0})
Top(h) == Greatest({r.rank : r \in h})

Idle == [complete |-> FALSE, target |-> 0, undone |-> <<>>]

Init ==
    /\ grouping \in Groupings
    /\ files = [s \in Scripts |-> IF s \in grouping.present THEN CHOOSE c \in Contents : TRUE ELSE 0]
    /\ history = {} /\ edits = 0
    /\ inPlace = {} /\ accepted = [s \in Scripts |-> 0]
    /\ last = Idle

-----------------------------------------------------------------------------
(* What the rows say.                                                      *)

RanksOf(h, v) ==
    LET Latest(kind) == Greatest({r.rank : r \in {x \in h :
                            x.kind = kind /\ x.version = v /\ x.ok}})
    IN  [versioned |-> Latest("SQL"), undo |-> Latest("UNDO_SQL")]

CurrentlyUndone(h, v) == LET ranks == RanksOf(h, v) IN ranks.undo > ranks.versioned

Reapplied(h, v) == LET ranks == RanksOf(h, v) IN ranks.undo > 0 /\ ranks.versioned > ranks.undo

\* Mutant: a version that was ever undone stays undone.
UndoneEver(h) == {r.version : r \in {x \in h : x.kind = "UNDO_SQL" /\ x.ok}}

Undone(h) ==
    {v \in {r.version : r \in {x \in h : x.kind = "UNDO_SQL" /\ x.ok}} : ~Reapplied(h, v)}

WithoutUndone(h) ==
    LET undone == Undone(h) IN {r \in h : r.kind # "SQL" \/ r.version \notin undone}

BaselineVersion(h) ==
    LET b == {r \in h : r.kind = "BASELINE"}
    IN  IF b = {} THEN 0 ELSE (CHOOSE r \in b : \A x \in b : r.rank <= x.rank).version

CurrentVersion(h) ==
    LET undone == Undone(h)
    IN  Greatest({r.version : r \in {x \in h : x.ok /\
            (x.kind = "BASELINE" \/ (x.kind = "SQL" /\ x.version \notin undone))}})

OnDisk(s) == files[s] # 0

FailedRows(h) == {r \in h : r.kind # "DELETE" /\ ~r.ok}

ExecutedVersions(h) ==
    ({r.version : r \in {x \in h : x.kind = "SQL" /\ x.ok}} \ Undone(h))
    \cup {r.version : r \in FailedRows(h)}

ExecutedScripts(h) ==
    {r.script : r \in {x \in WithoutUndone(h) : x.ok /\ (x.kind = "REPEATABLE"
        \/ (x.kind = "SQL" /\ x.rank = RanksOf(h, x.version).versioned))}}
    \cup {r.script : r \in FailedRows(h)}

VersionedPending(h) ==
    LET undone == Undone(h)
        versions == ExecutedVersions(h)
        scripts == ExecutedScripts(h)
    IN  {s \in Of("SQL") : OnDisk(s) /\ (VersionOf[s] \in undone
                           \/ (VersionOf[s] \notin versions /\ s \notin scripts))}

RepeatableStatus(h, s) ==
    LET runs == {r \in h : r.kind = "REPEATABLE" /\ r.script = s}
        latest == CHOOSE r \in runs : \A x \in runs : x.rank <= r.rank
    IN  IF runs = {} THEN "NEW"
        ELSE IF latest.ok THEN IF latest.sum = files[s] THEN "UNCHANGED" ELSE "CHANGED"
        ELSE IF latest.sum = files[s] THEN "FAILED_UNCHANGED" ELSE "FAILED_CHANGED"

Reapplies(h, s) == RepeatableStatus(h, s) \in {"NEW", "CHANGED", "FAILED_CHANGED"}

\* The latest successful row of a script that is neither a marker nor an undo.
LatestSuccess(h, s) ==
    Greatest({r.rank : r \in {x \in h : x.script = s /\ x.ok /\ x.kind \notin {"DELETE", "UNDO_SQL"}}})
Successful(h, s) == LatestSuccess(h, s) # 0
SuccessRow(h, s) == CHOOSE r \in h : r.rank = LatestSuccess(h, s)

Drift(h, S) ==
    {s \in S : OnDisk(s) /\ KindOf[s] # "UNDO_SQL" /\ Successful(h, s) /\ SuccessRow(h, s).sum # files[s]}

Deleted(h) == {r.script : r \in {x \in h : x.kind = "DELETE"}}
Missing(h) == {s \in Scripts : ~OnDisk(s) /\ s \notin Deleted(h) /\ Successful(h, s)}

-----------------------------------------------------------------------------
(* Validation and the plan of migrate.                                     *)

Passes(q, version) ==
    version = 0 \/ ((q.target = 0 \/ version <= q.target) /\ version \in q.versions)

Selected(q) == {s \in Scripts : OnDisk(s) /\ Passes(q, VersionOf[s])}

Eligible(h, q, S) ==
    LET baseline == BaselineVersion(h)
    IN  {s \in S : VersionOf[s] > baseline /\ (q.target = 0 \/ VersionOf[s] <= q.target)}

PendingSet(h, q) ==
    {s \in Eligible(h, q, VersionedPending(h)) \cup {r \in Of("REPEATABLE") : OnDisk(r) /\ Reapplies(h, r)} :
        Passes(q, VersionOf[s])}

OutOfOrder(S, current) ==
    current # 0 /\ \E s \in S : KindOf[s] = "SQL" /\ VersionOf[s] <= current

\* Versioned scripts in the order of their versions, then the repeatable ones.
Precedes(a, b) == IF KindOf[a] = KindOf[b] THEN VersionOf[a] <= VersionOf[b] ELSE KindOf[a] = "SQL"

Pending(h, q) ==
    {plan \in SetToSeqs(PendingSet(h, q)) :
        \A i, j \in DOMAIN plan : i < j => Precedes(plan[i], plan[j])}

StrictRefuses(h, q) == q.strict /\ OutOfOrder(PendingSet(h, q), CurrentVersion(h))

\* Mutant: validation compares with the versions in its own scope only.
SnapshotOutOfOrderScoped(h, q) ==
    OutOfOrder(PendingSet(h, q), CurrentVersion({r \in h : Passes(q, r.version)}))

SnapshotOutOfOrder(h, q) == OutOfOrder(PendingSet(h, q), CurrentVersion(WithoutUndone(h)))

\* The rows a request is about.
Scoped(h, q) == {r \in h : Passes(q, r.version)}

RepeatableFails(h, S) == \E s \in S : KindOf[s] = "REPEATABLE" /\ RepeatableStatus(h, s) = "FAILED_UNCHANGED"

DuplicateVersions(S) == \E s, t \in S \cap Of("SQL") : s # t /\ VersionOf[s] = VersionOf[t]

StrictRulesHold(h, q) == Missing(WithoutUndone(Scoped(h, q))) = {} /\ ~SnapshotOutOfOrder(h, q)

\* A failed row blocks, unless it is of a repeatable script that is to run again.
BlockingFailures(h, q) ==
    {r \in FailedRows(Scoped(h, q)) :
        ~(r.kind = "REPEATABLE" /\ r.script \in Selected(q) /\ Reapplies(h, r.script))}

Modified(h, q) == Drift(Scoped(h, q), Selected(q)) \cap Of("SQL")

Reappeared(h, q) == Deleted(Scoped(h, q)) \cap Selected(q)

Valid(h, q) ==
    LET S == Selected(q) IN
    IF S = {} THEN ~(q.strict /\ h # {})
    ELSE /\ ~RepeatableFails(h, S)
         /\ \/ S \subseteq Of("REPEATABLE")
            \/ /\ ~DuplicateVersions(S)
               /\ q.strict => StrictRulesHold(h, q)
               /\ BlockingFailures(h, q) = {} /\ Modified(h, q) = {} /\ Reappeared(h, q) = {}

-----------------------------------------------------------------------------
(* What info shows.                                                        *)

\* Repeatable scripts whose file is no longer what ran last.
Changed(h) ==
    {s \in Of("REPEATABLE") : OnDisk(s) /\ Reapplies(h, s) /\ Successful(h, s) /\ SuccessRow(h, s).sum # files[s]}

\* Versions that ran below a version in place at that time: one that ran before and was
\* not undone in between.
OutOfOrderVersions(h) ==
    LET Between(x, u, y) == x.rank < u.rank /\ u.rank < y.rank
        UndoneBetween(x, y) ==
            \E u \in h : u.kind = "UNDO_SQL" /\ u.ok /\ u.version = x.version /\ Between(x, u, y)
    IN  {r.version : r \in {y \in h : y.kind = "SQL" /\ \E x \in h :
            x.kind = "SQL" /\ x.rank < y.rank /\ x.version > y.version /\ ~UndoneBetween(x, y)}}

Unresolved(h, r) ==
    IF r.version # 0 /\ CurrentVersion(h) # 0 /\ r.version > CurrentVersion(h) THEN "Future" ELSE "Missing"

Shown(h, r) ==
    IF r.kind = "DELETE" THEN "Deleted"
    ELSE IF r.kind = "BASELINE" THEN "Baseline"
    ELSE IF ~r.ok THEN IF OnDisk(r.script) THEN "Failed" ELSE "Failed " \o Unresolved(h, r)
    ELSE IF r.kind = "UNDO_SQL" THEN "Success"
    ELSE IF r.version \in Undone(h) THEN "Undone"
    ELSE IF r.version \in OutOfOrderVersions(h) THEN "Out of order"
    ELSE IF r.kind = "REPEATABLE" /\ SuccessRow(h, r.script).sum # r.sum THEN "Superseded"
    ELSE IF r.kind = "REPEATABLE" /\ r.script \in Changed(h) THEN "Outdated"
    ELSE IF OnDisk(r.script) THEN "Success" ELSE Unresolved(h, r)

\* The rows of the listing; a successful undo is told by the version it undid.
Listed(h) == {r \in h : r.kind # "UNDO_SQL" \/ ~r.ok}

-----------------------------------------------------------------------------
(* The plan of undo: the rows to revert, in order; no plan is a refusal.    *)

\* The latest successful row of each version that undo may take.
UndoCandidates(h) ==
    {r \in h : /\ r.kind = "SQL" /\ r.ok
               /\ r.rank = RanksOf(h, r.version).versioned /\ ~CurrentlyUndone(h, r.version)}

\* The rows a request selects: the newest one, or all above the target.
UndoSeeds(h, q) ==
    LET rows == {r \in UndoCandidates(h) : r.version \in q.versions}
    IN  IF q.target # 0 THEN {r \in rows : r.version > q.target}
        ELSE {r \in rows : \A x \in rows : x.rank <= r.rank}

\* A dblift-group is undone whole.
TouchesGroup(seeds) == \E r \in seeds : r.version \in grouping.tagged
Expanded(h, q) ==
    LET seeds == UndoSeeds(h, q)
    IN  seeds \cup IF TouchesGroup(seeds)
                   THEN {r \in UndoCandidates(h) : r.version \in q.versions \cap grouping.tagged} ELSE {}

UndoScripts(v) == {u \in Of("UNDO_SQL") : OnDisk(u) /\ VersionOf[u] = v}

\* The rows of the parts of the generated set.
PartRows(h) == {r \in UndoCandidates(h) : r.script \in ToSet(grouping.parts)}
Applied(h, s) == \E r \in PartRows(h) : r.script = s
TouchesParts(h, rows) == (\E s \in ToSet(grouping.parts) : OnDisk(s)) /\ rows \cap PartRows(h) # {}
RankOfPart(h, s) == (CHOOSE r \in PartRows(h) : r.script = s).rank

\* Parts are paired with undo parts, and the first of them were applied in one go.
PairedPrefix(h) ==
    LET parts == grouping.parts
    IN  /\ grouping.paired
        /\ \A i \in DOMAIN parts : Applied(h, parts[i]) =>
              /\ \A j \in 1..i : Applied(h, parts[j])
              /\ RankOfPart(h, parts[i]) = RankOfPart(h, parts[1]) + i - 1

\* A generated set is refused that is not whole, unless a prefix of it may be undone, or
\* that was applied out of its order.  The rank of every versioned row is looked up, a
\* baseline's as well: KeyError.
PartsRefused(h, rows) ==
    LET parts == grouping.parts
    IN  /\ rows # {} /\ \E s \in ToSet(parts) : OnDisk(s)
        /\ \/ \E r \in h : r.kind = "BASELINE" /\ RanksOf(h, r.version) = [versioned |-> 0, undo |-> 0]
           \/ /\ TouchesParts(h, rows)
              /\ \/ \E s \in ToSet(parts) : ~OnDisk(s)
                 \/ grouping.paired /\ \E s \in ToSet(parts) : Cardinality(UndoScripts(VersionOf[s])) # 1
                 \/ (\E s \in ToSet(parts) : ~Applied(h, s)) /\ ~PairedPrefix(h)
                 \/ \E i, j \in DOMAIN parts : /\ i < j /\ Applied(h, parts[i]) /\ Applied(h, parts[j])
                                              /\ RankOfPart(h, parts[i]) > RankOfPart(h, parts[j])

\* Mutant: only a tag makes a group.
WithPartsUntagged(h, rows) == rows

\* A generated set is undone whole as well.
WithParts(h, rows) == rows \cup IF TouchesParts(h, rows) THEN PartRows(h) ELSE {}

\* The newest row first, a group by its versions.  A part takes its place among the rows
\* selected; where it has none, or the parts are not in order, undo refuses.
UndoPlans(h, q) ==
    LET rows == Expanded(h, q)
        all == WithParts(h, rows)
        First(a, b) == IF {a, b} \subseteq rows /\ TouchesGroup(UndoSeeds(h, q))
                       THEN a.version > b.version ELSE a.rank > b.rank
    IN  IF PartsRefused(h, rows) \/ \E r \in all : UndoScripts(r.version) = {} THEN {}
        ELSE {plan \in SetToSeqs(all) : \A i, j \in DOMAIN plan : i < j =>
                /\ First(plan[i], plan[j])
                /\ TouchesParts(h, rows) /\ {plan[i], plan[j]} \subseteq PartRows(h) => plan[i].rank > plan[j].rank}

-----------------------------------------------------------------------------
(* The plan of repair, and the history after it: files that are gone are   *)
(* marked, failed rows removed, checksums realigned.                       *)

FailedScripts(h) == {r.script : r \in FailedRows(h)}
Gone(h) == Missing(WithoutUndone(h))

\* Mutant: a version that is undone keeps its checksum.
RealignedInPlace(h) ==
    (Changed(h) \cup ((Drift(WithoutUndone(h), Scripts) \cap Of("SQL")) \ Gone(h))) \ FailedScripts(h)

Realigned(h) == (Changed(h) \cup ((Drift(h, Scripts) \cap Of("SQL")) \ Gone(h))) \ FailedScripts(h)

RepairRefused(h) == Gone(h) # {} /\ \A s \in Scripts : ~OnDisk(s)
NothingToRepair(h) == Gone(h) = {} /\ FailedScripts(h) = {} /\ Realigned(h) = {}

Repaired(h) ==
    LET gone == SetToSeq(Gone(h))
        marked == h \cup {Row(Top(h) + i, "DELETE", VersionOf[gone[i]], gone[i], 0, TRUE) : i \in DOMAIN gone}
        Aligned(r) == IF r.script \in Realigned(h) THEN [r EXCEPT !.sum = files[r.script], !.ok = TRUE] ELSE r
    IN  {r \in {Aligned(x) : x \in marked} : r.ok}

-----------------------------------------------------------------------------
(* Commands.                                                               *)

Fits(h) == Cardinality(h) <= MaxRows
HasRoom(h) == Cardinality(h) < MaxRows

\* The first n scripts of the plan succeed; the next one, if any, fails, and the
\* row that says so is written or is lost.
Ran(h, plan, n, noted) ==
    h \cup {Row(Top(h) + i, KindOf[plan[i]], VersionOf[plan[i]], plan[i], files[plan[i]], i <= n) :
              i \in 1..(IF noted /\ n < Len(plan) THEN n + 1 ELSE n)}

\* What the first n scripts of the plan leave in the database.
RanInto(plan, n) ==
    LET done == {plan[i] : i \in 1..n}
    IN  /\ inPlace' = inPlace \cup {VersionOf[s] : s \in done \cap Of("SQL")}
        /\ accepted' = [s \in Scripts |-> IF s \in done THEN files[s] ELSE accepted[s]]

Migrate ==
    HasRoom(history) /\ \E q \in Requests : \E plan \in Pending(history, q) :
        /\ ~StrictRefuses(history, q) /\ Valid(history, q) /\ plan # <<>>
        /\ \E n \in 0..Len(plan), noted \in BOOLEAN :
            history' = Ran(history, plan, n, noted) /\ RanInto(plan, n)
        /\ Fits(history') /\ last' = Idle
        /\ UNCHANGED <<files, grouping, edits>>

\* mark_as_executed writes the rows and runs nothing: the user says the objects are there.
MarkAsExecuted ==
    HasRoom(history) /\ \E q \in Requests : \E plan \in Pending(history, q) :
        /\ ~StrictRefuses(history, q) /\ Valid(history, q) /\ plan # <<>>
        /\ history' = Ran(history, plan, Len(plan), FALSE) /\ RanInto(plan, Len(plan))
        /\ Fits(history') /\ last' = Idle
        /\ UNCHANGED <<files, grouping, edits>>

UndoRow(rank, v, ok) ==
    LET u == CHOOSE x \in UndoScripts(v) : TRUE IN Row(rank, "UNDO_SQL", v, u, files[u], ok)

Undo ==
    HasRoom(history) /\ \E q \in {x \in Requests : ~x.strict} : \E plan \in UndoPlans(history, q) :
        /\ plan # <<>>
        /\ \E n \in 0..Len(plan), noted \in BOOLEAN :
            LET done == [i \in 1..n |-> plan[i].version]
            IN  /\ history' = history \cup
                     {UndoRow(Top(history) + i, plan[i].version, i <= n) :
                        i \in 1..(IF noted /\ n < Len(plan) THEN n + 1 ELSE n)}
                /\ inPlace' = inPlace \ ToSet(done)
                /\ last' = [complete |-> n = Len(plan) /\ q.versions = Versions,
                            target |-> q.target, undone |-> done]
        /\ Fits(history')
        /\ UNCHANGED <<files, grouping, edits, accepted>>

Repair ==
    /\ ~RepairRefused(history) /\ ~NothingToRepair(history)
    /\ history' = Repaired(history)
    /\ Fits(history')
    /\ accepted' = [s \in Scripts |-> IF s \in Realigned(history) THEN files[s] ELSE accepted[s]]
    /\ last' = Idle
    /\ UNCHANGED <<files, grouping, edits, inPlace>>

Baseline(v) ==
    /\ history = {}
    /\ history' = {Row(1, "BASELINE", v, "baseline", 0, TRUE)} /\ Fits(history')
    /\ last' = Idle
    /\ UNCHANGED <<files, grouping, edits, inPlace, accepted>>

\* The user changes, removes or restores a file.
Edit(s, c) ==
    /\ edits < MaxEdits /\ s \in grouping.edited /\ c # files[s]
    /\ files' = [files EXCEPT ![s] = c]
    /\ edits' = edits + 1
    /\ last' = Idle
    /\ UNCHANGED <<history, grouping, inPlace, accepted>>

Next ==
    \/ Migrate \/ MarkAsExecuted \/ Undo \/ Repair
    \/ \E v \in Versions : Baseline(v)
    \/ \E s \in Scripts, c \in Contents \cup {0} : Edit(s, c)

Spec == Init /\ [][Next]_vars

-----------------------------------------------------------------------------
(* Properties.                                                             *)

Doubtful == {r.version : r \in FailedRows(history)}
Baselined == {r.version : r \in {x \in history : x.kind = "BASELINE"}}

\* A version is listed as applied, in order or not, exactly when it is in place, and as
\* undone when it is not; one that ran below a version in place is listed as out of
\* order; a repeatable script listed as a success ran with the file's content.
InfoIsTrue ==
    LET Places(v) == {Shown(history, r) : r \in {x \in Listed(history) : x.kind = "SQL" /\ x.version = v /\ x.ok}}
        Before(v) == {r \in history : r.rank < RanksOf(history, v).versioned}
    IN  /\ \A v \in Versions \ Doubtful :
            /\ v \in inPlace <=> Places(v) \cap {"Success", "Out of order", "Missing"} # {}
            /\ v \in inPlace => Places(v) \cap {"Undone", "Future"} = {}
            /\ v \in inPlace /\ (\E r \in WithoutUndone(Before(v)) : r.kind = "SQL" /\ r.ok /\ r.version > v) => Places(v) = {"Out of order"}
        /\ \A r \in Listed(history) :
            r.kind = "REPEATABLE" /\ Shown(history, r) = "Success" /\ r.script \notin FailedScripts(history)
            => accepted[r.script] = files[r.script]

\* After any sequence of migrates, undos, repairs and edits the history and the
\* database agree on which versions are in place, what the current version is and
\* what still has to run; versions with a failed row are the repair's first.
HistoryTellsTheSchema ==
    /\ \A v \in Versions \ Doubtful : v \in inPlace <=> v \in ExecutedVersions(history)
    /\ CurrentVersion(history) = Greatest(inPlace \cup Baselined)
    /\ \A q \in Requests : \A s \in PendingSet(history, q) :
        IF KindOf[s] = "SQL" THEN VersionOf[s] \notin inPlace
        ELSE accepted[s] # files[s] \/ s \in FailedScripts(history)
    /\ \A s \in Of("REPEATABLE") : OnDisk(s) /\ s \notin FailedScripts(history) /\ ~Reapplies(history, s)
        => accepted[s] = files[s]
    /\ InfoIsTrue

\* Repairing until nothing is left to repair takes at most two repairs, leaves no
\* failed row, and lets migrate start unless a script that was marked as deleted is
\* back, two scripts have one version, or a strict order is asked for.
RepairUnblocks ==
    LET repaired == Repaired(history)
        settled == Repaired(repaired)
        clash == \E s, t \in Of("SQL") : s # t /\ OnDisk(s) /\ OnDisk(t) /\ VersionOf[s] = VersionOf[t]
    IN  ~RepairRefused(history) =>
            /\ NothingToRepair(settled)
            /\ FailedRows(repaired) = {}
            /\ ~clash /\ (\A s \in Deleted(settled) : ~OnDisk(s))
               => \A q \in Requests : ~q.strict => Valid(settled, q)

\* The order that validate checks is the one migrate enforces, for every target and
\* every choice of versions.
ValidationForesees ==
    \A q \in Requests : q.strict /\ Valid(history, q) => ~StrictRefuses(history, q)

\* An undo that ends reverts the newest version, or all above the target: it takes
\* nothing that is not in place, leaves nothing above the target, splits no group and no
\* generated set of which a file is left, and where no group is met takes the newest first.
UndoIsExact ==
    [][(last' # Idle) =>
        LET u == last'.undone
            parts == IF \E s \in ToSet(grouping.parts) : OnDisk(s)
                     THEN {r.version : r \in PartRows(history)} ELSE {}
            rankOf(v) == RanksOf(history, v).versioned
        IN  /\ ToSet(u) \subseteq inPlace /\ Cardinality(ToSet(u)) = Len(u)
            /\ (IF last'.complete THEN ToSet(u) ELSE inPlace) \cap grouping.tagged = {} =>
                \A i, j \in DOMAIN u : i < j => rankOf(u[i]) > rankOf(u[j])
            /\ last'.complete =>
                /\ \A group \in {grouping.tagged, parts} :
                    ToSet(u) \cap group # {} => inPlace' \cap group = {}
                /\ IF last'.target # 0 THEN \A v \in inPlace' : v <= last'.target
                   ELSE \A v \in inPlace : (\A w \in inPlace : rankOf(w) <= rankOf(v)) => v \in ToSet(u)]_vars

\* "A contiguous applied prefix of paired generated sync parts can be undone"
\* (CHANGELOG.md): with its files there and its parts the newest rows, undo takes them.
PrefixCanBeUndone ==
    LET parts == grouping.parts
        q == [target |-> 0, versions |-> Versions, strict |-> FALSE]
        n == Cardinality({i \in DOMAIN parts : VersionOf[parts[i]] \in inPlace})
        newest == SetToSortSeq(UndoCandidates(history), LAMBDA a, b : a.rank < b.rank)
    IN  (/\ grouping.paired /\ n > 0 /\ Len(newest) >= n
         /\ \A i \in 1..n : newest[Len(newest) - n + i].script = parts[i]
         /\ \A i \in 2..n : newest[Len(newest) - n + i].rank = newest[Len(newest) - n + i - 1].rank + 1
         /\ \A s \in ToSet(parts) : OnDisk(s) /\ Cardinality(UndoScripts(VersionOf[s])) = 1)
        => UndoPlans(history, q) # {}
=============================================================================
