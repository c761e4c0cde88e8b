--------------------------- MODULE CommandRunProofs ---------------------------
(***************************************************************************)
(* Proofs about CommandRun for any commands, numbers of scripts, of        *)
(* statements and of runs, with and without signals.                       *)
(***************************************************************************)
EXTENDS CommandRun, TLAPS

-----------------------------------------------------------------------------
(* The inductive invariant.  It is stated of a record, because an exception *)
(* passes several handlers within one step.                                 *)

MarksOf(x) == Range(x.trace)
IsScript(m) == Started(m) \/ Terminal(m)
Kind(x) == IF x.cmd = "undo" THEN "U" ELSE "V"

LoopPhases == {"loop", "eachBefore", "exec", "eachAfter"}
LatePhases == {"after", "final", "release", "footer", "idle", "dead"}

\* What may come after a mark, and what a mark says of the lock.
MayFollow(cmd, a, b) ==
  /\ a.s = b.s => ~(Started(a) /\ Started(b)) /\ ~(Terminal(a) /\ Terminal(b))
  /\ IsError(a) => b.k = "footer" \/ (cmd = "undo" /\ IsError(b))
LockedMark(x, m) ==
  IF m.k = "footer" THEN ~m.lock
  ELSE ~x.dry /\ (x.cmd = "undo" \/ (x.cmd = "migrate" /\ ~IsError(m))) => m.lock

\* The journal's entries are statements of scripts, with one end for each script.
Sound(j) ==
  \A key \in Keys : \A e \in j.of[key] :
     /\ e.own
     /\ e.t = "end" => e.i = 0 /\ \A f \in j.of[key] : f.t = "end" => f = e

Starts(x, s) == \E y \in MarksOf(x) : Started(y) /\ y.s = s
Ends(x, s) == \E y \in MarksOf(x) : Terminal(y) /\ y.s = s

\* The end in the journal that belongs to a terminal event.
EndOf(j, m, run) ==
  \E e \in j.of[m.s] : e.t = "end" /\ e.run = run /\ (e.ok <=> m.k = "completed")

\* What holds of a mark wherever the command is.
MarkOk(x, run, m) ==
  /\ LockedMark(x, m)
  /\ IsScript(m) => m.s[1] = Kind(x) /\ m.s[2] <= x.cur
  /\ Terminal(m) => Starts(x, m.s) /\ EndOf(x.journal, m, run)

Ordered(x) == \A i, j \in DOMAIN x.trace : i < j => MayFollow(x.cmd, x.trace[i], x.trace[j])

Story(x, run) ==
  /\ x \in Command /\ Ordered(x) /\ Sound(x.journal)
  /\ \A m \in MarksOf(x) : MarkOk(x, run, m)

\* No script is under way, or the current one is.
Closed(x) ==
  /\ x.journal.current = None /\ ~x.jopen
  /\ \A m \in MarksOf(x) : Started(m) => Ends(x, m.s)
Open(x) ==
  /\ x.cur <= Scripts /\ x.journal.current = Key(x) /\ x.jopen /\ x.started /\ ~x.terminal
  /\ Starts(x, Key(x)) /\ ~Ends(x, Key(x))
  /\ \A m \in MarksOf(x) : Started(m) /\ m.s # Key(x) => Ends(x, m.s)

\* Which commands a phase belongs to.
Path(x) ==
  /\ x.pc \notin {"idle", "dead"} => x.cmd # "none"
  /\ x.pc \in {"target", "drop"} => x.cmd = "clean"
  /\ x.pc = "plan" => x.cmd \in {"migrate", "mark"}
  /\ x.pc = "lock" => x.cmd \in {"migrate", "mark", "undo", "baseline"}
  /\ x.pc \in {"replan", "final"} => x.cmd \in {"migrate", "mark", "undo"}
  /\ x.pc \in {"before", "after"} => x.cmd \in {"migrate", "undo", "clean", "validate"}
  /\ x.pc \in LoopPhases => x.cmd \in {"migrate", "undo"}
  /\ x.pc = "record" => x.cmd \in {"mark", "baseline", "validate"}
  /\ x.pc = "release" => x.cmd # "clean" /\ (x.next = "final" => x.cmd \in {"migrate", "mark"})

\* Where the lock is held.
Locking(x) ==
  /\ x.pc \in {"preflight", "target", "plan", "lock", "footer", "idle", "dead"} => ~x.lock
  /\ x.cmd \in {"clean", "validate"} => ~x.lock
  /\ x.pc = "final" /\ x.cmd # "undo" => ~x.lock
  /\ ~x.dry /\ x.cmd \in {"migrate", "undo"}
       /\ x.pc \in {"replan", "before", "after"} \cup LoopPhases => x.lock
  /\ ~x.dry /\ x.cmd = "undo" /\ x.pc = "final" => x.lock

Completed(x, k) == \E m \in MarksOf(x) : m.k = "completed" /\ m.s[2] = k
HasClosed(x) == \E m \in MarksOf(x) : m.k = "cb" /\ m.e = Closing(x.cmd)
Scripted(x) == x.cmd \in {"migrate", "undo"} /\ \E m \in MarksOf(x) : Started(m)

\* Which marks a phase can have behind it.
Behind(x, m) ==
  /\ m.k = "footer" => x.pc = "idle" /\ (m.ok => ~x.err)
  /\ IsError(m) => x.pc \in LatePhases /\ (x.pc = "after" => x.err /\ x.cmd \in {"migrate", "undo"})
  /\ IsScript(m) => x.pc \in LoopPhases \cup LatePhases
  /\ IsScript(m) /\ x.pc \in {"loop", "eachBefore"} => m.s[2] < x.cur
  /\ ~x.err => m.ok

\* How far a run has come that has not failed.
Progress(x) ==
  /\ x.err => x.pc \in LatePhases
  /\ x.pc \in {"eachBefore", "exec", "eachAfter"} => x.cur <= Scripts
  /\ x.pc = "eachBefore" => ~x.started /\ ~x.terminal
  /\ x.pc = "eachAfter" => x.terminal /\ Completed(x, x.cur)
  /\ x.pc \in {"loop", "eachBefore"} /\ Scripted(x) => Completed(x, x.cur - 1)
  /\ ~x.err /\ x.pc = "after" /\ Scripted(x) =>
       /\ Completed(x, Scripts)
       /\ IF x.todo = << >> THEN HasClosed(x) ELSE x.todo[Len(x.todo)] = Closing(x.cmd)
  /\ ~x.err /\ x.pc \in {"final", "release", "footer", "idle"} /\ Scripted(x) =>
       Completed(x, Scripts) /\ HasClosed(x)

Steady(x, run) ==
  /\ Story(x, run) /\ Path(x) /\ Locking(x) /\ Progress(x)
  /\ \A m \in MarksOf(x) : Behind(x, m)
  /\ x.pc = "exec" => Open(x)
  /\ x.pc \notin {"exec", "dead"} => Closed(x)

CommandInv == n \in 0..MaxRuns /\ Steady(c, n)

-----------------------------------------------------------------------------
(* Marks and journals                                                       *)

\* A trace with one more mark.
LEMMA MarkAppended ==
    ASSUME NEW t \in Seq(Mark), NEW m \in Mark
    PROVE  /\ Append(t, m) \in Seq(Mark)
           /\ DOMAIN Append(t, m) = 1..Len(t) + 1 /\ DOMAIN t = 1..Len(t) /\ Len(t) \in Nat
           /\ \A i \in DOMAIN t : Append(t, m)[i] = t[i]
           /\ Append(t, m)[Len(t) + 1] = m
           /\ Range(Append(t, m)) = Range(t) \cup {m}
<1>1. /\ Append(t, m) \in Seq(Mark)
      /\ DOMAIN Append(t, m) = 1..Len(t) + 1 /\ DOMAIN t = 1..Len(t) /\ Len(t) \in Nat
      /\ \A i \in DOMAIN t : Append(t, m)[i] = t[i]
      /\ Append(t, m)[Len(t) + 1] = m
    OBVIOUS
<1>2. Range(Append(t, m)) \subseteq Range(t) \cup {m}
  <2> SUFFICES ASSUME NEW i \in 1..Len(t) + 1 PROVE Append(t, m)[i] \in Range(t) \cup {m}
      BY <1>1 DEF Range
  <2>1. CASE i \in DOMAIN t
      BY <1>1, <2>1 DEF Range
  <2>2. CASE i = Len(t) + 1
      BY <1>1, <2>2
  <2> QED BY <1>1, <2>1, <2>2
<1>3. Range(t) \cup {m} \subseteq Range(Append(t, m))
  <2>1. m \in Range(Append(t, m))
      BY <1>1 DEF Range
  <2>2. ASSUME NEW i \in DOMAIN t PROVE t[i] \in Range(Append(t, m))
    <3>1. i \in DOMAIN Append(t, m) /\ Append(t, m)[i] = t[i]
        BY <1>1
    <3> QED BY <3>1 DEF Range
  <2> QED BY <2>1, <2>2 DEF Range
<1> QED BY <1>1, <1>2, <1>3

\* Writing entries of a script changes that script's entries only.
LEMMA WrittenIs ==
    ASSUME NEW j \in Journal, NEW key \in Keys, NEW entries \in SUBSET Entry
    PROVE  /\ Written(j, key, entries) \in Journal
           /\ Written(j, key, entries).current = j.current
           /\ \A other \in Keys : other # key => Written(j, key, entries).of[other] = j.of[other]
           /\ Written(j, key, entries).of[key] =
                {old \in j.of[key] : \A e \in entries : ~SameSlot(old, e)} \cup entries
<1> DEFINE left == {old \in j.of[key] : \A e \in entries : ~SameSlot(old, e)} \cup entries
           of2 == [j.of EXCEPT ![key] = left]
<1>1. j.of \in [Keys -> SUBSET Entry] /\ j.current \in Keys \cup {None}
    BY DEF Journal
<1>2. left \in SUBSET Entry
    BY <1>1
<1> HIDE DEF left
<1>3. of2 \in [Keys -> SUBSET Entry] /\ of2[key] = left
      /\ \A other \in Keys : other # key => of2[other] = j.of[other]
    BY <1>1, <1>2
<1> HIDE DEF of2
<1>4. Written(j, key, entries) = [j EXCEPT !.of = of2]
    BY DEF Written, left, of2, Journal
<1>5. [j EXCEPT !.of = of2] \in Journal /\ [j EXCEPT !.of = of2].of = of2
      /\ [j EXCEPT !.of = of2].current = j.current
    BY <1>3 DEF Journal
<1> QED BY <1>3, <1>4, <1>5 DEF left

\* Entries of scripts, no end among them, keep a journal sound.
LEMMA WritingIsSound ==
    ASSUME NEW j \in Journal, Sound(j), NEW key \in Keys, NEW entries \in SUBSET Entry,
           \A e \in entries : e.own /\ e.t # "end"
    PROVE  Sound(Written(j, key, entries))
<1> DEFINE w == Written(j, key, entries)
<1>1. \A other \in Keys : other # key => w.of[other] = j.of[other]
    BY WrittenIs
<1>2. \A e \in w.of[key] : e \in j.of[key] \/ e \in entries
    BY WrittenIs
<1> HIDE DEF w
<1> SUFFICES ASSUME NEW k \in Keys, NEW e \in w.of[k]
             PROVE  e.own /\ (e.t = "end" => e.i = 0 /\ \A f \in w.of[k] : f.t = "end" => f = e)
    BY DEF Sound, w
<1>3. CASE k # key
    BY <1>1, <1>3 DEF Sound
<1>4. CASE k = key
    BY <1>2, <1>4 DEF Sound
<1> QED BY <1>3, <1>4

\* What a script does to the journal keeps it sound and changes its own entries only.
Journalled(j, j2, key) ==
  j2 \in Journal /\ Sound(j2) /\ \A other \in Keys : other # key => j2.of[other] = j.of[other]

\* A migration that starts.
LEMMA StartJournals ==
    ASSUME CommandAssumption, n \in 0..MaxRuns, NEW j \in Journal, Sound(j), NEW key \in Keys
    PROVE  Journalled(j, StartMigration(j, key), key) /\ StartMigration(j, key).current = key
<1> DEFINE j1 == [j EXCEPT !.current = key]
           entries == {NewEntry("start", 0, TRUE, TRUE)}
<1>1. j1 \in Journal /\ j1.of = j.of /\ j1.current = key
    BY DEF Journal
<1>2. Sound(j1)
    BY <1>1 DEF Sound
<1>3. entries \in SUBSET Entry /\ \A e \in entries : e.own /\ e.t # "end"
  <2>1. 0 \in 0..Stmts
      BY DEF CommandAssumption
  <2> QED BY <2>1 DEF NewEntry, Entry
<1>4. StartMigration(j, key) = Written(j1, key, entries)
    BY DEF StartMigration
<1> HIDE DEF j1, entries
<1> QED BY <1>1, <1>2, <1>3, <1>4, WrittenIs, WritingIsSound DEF Journalled

\* The statements of the script under way.
LEMMA ScriptJournals ==
    ASSUME CommandAssumption, n \in 0..MaxRuns, NEW j \in Journal, Sound(j), j.current \in Keys,
           NEW k \in 0..Stmts, NEW fails \in BOOLEAN, fails => k < Stmts
    PROVE  /\ Journalled(j, RecordScript(j, k, fails), j.current)
           /\ RecordScript(j, k, fails).current = j.current
<1> DEFINE entries == (UNION {Statement(i, TRUE, TRUE) : i \in 1..k})
                        \cup (IF fails THEN Statement(k + 1, FALSE, TRUE) ELSE {})
<1>1. \A i \in 0..Stmts : \A ok \in BOOLEAN :
        /\ Statement(i, ok, TRUE) \in SUBSET Entry
        /\ \A e \in Statement(i, ok, TRUE) : e.own /\ e.t # "end"
  <2> TAKE i \in 0..Stmts
  <2> TAKE ok \in BOOLEAN
  <2>1. \A t \in {"stmt", "done", "stmtFailed"} : \A b \in BOOLEAN :
          NewEntry(t, i, b, TRUE) \in Entry /\ NewEntry(t, i, b, TRUE).own /\ NewEntry(t, i, b, TRUE).t = t
      BY DEF NewEntry, Entry
  <2> QED BY <2>1 DEF Statement
<1>2. entries \in SUBSET Entry /\ \A e \in entries : e.own /\ e.t # "end"
  <2>1. \A i \in 1..k : i \in 0..Stmts
      BY DEF CommandAssumption
  <2>2. fails => k + 1 \in 0..Stmts
      BY DEF CommandAssumption
  <2>3. \A i \in 1..k : Statement(i, TRUE, TRUE) \in SUBSET Entry
          /\ \A e \in Statement(i, TRUE, TRUE) : e.own /\ e.t # "end"
      BY <1>1, <2>1
  <2>4. fails => Statement(k + 1, FALSE, TRUE) \in SUBSET Entry
          /\ \A e \in Statement(k + 1, FALSE, TRUE) : e.own /\ e.t # "end"
      BY <1>1, <2>2
  <2> SUFFICES ASSUME NEW e \in entries PROVE e \in Entry /\ e.own /\ e.t # "end"
      OBVIOUS
  <2>5. CASE e \in UNION {Statement(i, TRUE, TRUE) : i \in 1..k}
    <3>1. PICK i \in 1..k : e \in Statement(i, TRUE, TRUE)
        BY <2>5
    <3> QED BY <2>3, <3>1
  <2>6. CASE e \notin UNION {Statement(i, TRUE, TRUE) : i \in 1..k}
    <3>1. fails /\ e \in Statement(k + 1, FALSE, TRUE)
        BY <2>6
    <3> QED BY <2>4, <3>1
  <2> QED BY <2>5, <2>6
<1>3. j.current # None
    BY DEF None, Keys
<1>4. RecordScript(j, k, fails) = Written(j, j.current, entries)
    BY <1>3 DEF RecordScript, RecordStatements
<1> HIDE DEF entries
<1> QED BY <1>2, <1>4, WrittenIs, WritingIsSound DEF Journalled

\* The end of the migration under way.
LEMMA EndJournals ==
    ASSUME CommandAssumption, n \in 0..MaxRuns, NEW j \in Journal, Sound(j), NEW key \in Keys,
           j.current = key, NEW ok \in BOOLEAN
    PROVE  /\ Journalled(j, EndMigration(j, key, ok), key)
           /\ EndMigration(j, key, ok).current = None
           /\ \E e \in EndMigration(j, key, ok).of[key] : e.t = "end" /\ e.run = n /\ e.ok = ok
<1> DEFINE end == NewEntry("end", 0, ok, TRUE)
           w == Written(j, key, {end})
           j2 == [w EXCEPT !.current = None]
<1>1. end \in Entry /\ end.t = "end" /\ end.i = 0 /\ end.ok = ok /\ end.own /\ end.run = n
  <2>1. 0 \in 0..Stmts
      BY DEF CommandAssumption
  <2> QED BY <2>1 DEF NewEntry, Entry
<1>2. EndMigration(j, key, ok) = j2
    BY DEF EndMigration
<1> HIDE DEF end
<1>3. w \in Journal /\ (\A other \in Keys : other # key => w.of[other] = j.of[other])
      /\ w.of[key] = {old \in j.of[key] : \A e \in {end} : ~SameSlot(old, e)} \cup {end}
    BY <1>1, WrittenIs
<1> HIDE DEF w
<1>4. j2 \in Journal /\ j2.of = w.of /\ j2.current = None
    BY <1>3 DEF Journal
<1> HIDE DEF j2
<1>5. \A e \in w.of[key] : e = end \/ (e \in j.of[key] /\ e.t # "end")
    BY <1>1, <1>3 DEF Sound, SameSlot
<1>6. Sound(j2)
  <2> SUFFICES ASSUME NEW k \in Keys, NEW e \in w.of[k]
               PROVE  e.own /\ (e.t = "end" => e.i = 0 /\ \A f \in w.of[k] : f.t = "end" => f = e)
      BY <1>4 DEF Sound
  <2>1. CASE k # key
      BY <1>3, <2>1 DEF Sound
  <2>2. CASE k = key
      BY <1>1, <1>5, <2>2 DEF Sound
  <2> QED BY <2>1, <2>2
<1> QED BY <1>1, <1>2, <1>3, <1>4, <1>6 DEF Journalled

-----------------------------------------------------------------------------
(* How a story goes on                                                      *)

\* A step that leaves no mark.
LEMMA StoryMoves ==
    ASSUME NEW run, NEW x, NEW y \in Command, Story(x, run),
           y.cmd = x.cmd, y.dry = x.dry, y.trace = x.trace, y.journal = x.journal,
           \A m \in MarksOf(x) : IsScript(m) => m.s[2] <= y.cur
    PROVE  Story(y, run) /\ MarksOf(y) = MarksOf(x) /\ (Closed(x) /\ ~y.jopen => Closed(y))
<1>1. MarksOf(y) = MarksOf(x)
    BY DEF MarksOf
<1>2. Ordered(y) /\ Sound(y.journal)
    BY DEF Story, Ordered
<1>3. \A m \in MarksOf(y) : MarkOk(y, run, m)
    BY <1>1 DEF Story, MarkOk, LockedMark, Kind, Starts
<1>4. Closed(x) /\ ~y.jopen => Closed(y)
    BY <1>1 DEF Closed, Ends
<1> QED BY <1>1, <1>2, <1>3, <1>4 DEF Story

\* A step that leaves one mark.
Grows(x, y, m, run) ==
  /\ Story(x, run) /\ y \in Command /\ m \in Mark /\ Sound(y.journal)
  /\ y.cmd = x.cmd /\ y.dry = x.dry /\ y.cur = x.cur /\ y.trace = Append(x.trace, m)
  /\ \A a \in MarksOf(x) : /\ Terminal(a) => y.journal.of[a.s] = x.journal.of[a.s]
                           /\ MayFollow(x.cmd, a, m)
  /\ LockedMark(x, m)
  /\ IsScript(m) => m.s[1] = Kind(x) /\ m.s[2] <= x.cur
  /\ Terminal(m) => Starts(x, m.s) /\ EndOf(y.journal, m, run)

\* Such a step keeps the story.
LEMMA StoryGrows ==
    ASSUME NEW run, NEW x, NEW y, NEW m, Grows(x, y, m, run)
    PROVE  Story(y, run) /\ MarksOf(y) = MarksOf(x) \cup {m}
<1>a. /\ Story(x, run) /\ y \in Command /\ m \in Mark /\ Sound(y.journal)
      /\ y.cmd = x.cmd /\ y.dry = x.dry /\ y.cur = x.cur /\ y.trace = Append(x.trace, m)
    BY DEF Grows
<1>b. /\ \A a \in MarksOf(x) : /\ Terminal(a) => y.journal.of[a.s] = x.journal.of[a.s]
                               /\ MayFollow(x.cmd, a, m)
      /\ LockedMark(x, m)
      /\ IsScript(m) => m.s[1] = Kind(x) /\ m.s[2] <= x.cur
      /\ Terminal(m) => Starts(x, m.s) /\ EndOf(y.journal, m, run)
    BY DEF Grows
<1> USE <1>a
<1>1. x.trace \in Seq(Mark)
    BY DEF Story, Command
<1>2. MarksOf(y) = MarksOf(x) \cup {m}
    BY <1>1, MarkAppended DEF MarksOf
<1>3. Ordered(y)
  <2> SUFFICES ASSUME NEW i \in DOMAIN y.trace, NEW j \in DOMAIN y.trace, i < j
               PROVE  MayFollow(x.cmd, y.trace[i], y.trace[j])
      BY DEF Ordered
  <2>1. /\ DOMAIN y.trace = 1..Len(x.trace) + 1 /\ DOMAIN x.trace = 1..Len(x.trace) /\ Len(x.trace) \in Nat
        /\ \A l \in DOMAIN x.trace : y.trace[l] = x.trace[l]
        /\ y.trace[Len(x.trace) + 1] = m
      BY <1>1, MarkAppended
  <2>2. i \in DOMAIN x.trace /\ y.trace[i] = x.trace[i]
      BY <2>1
  <2>3. CASE j \in DOMAIN x.trace
      BY <2>1, <2>2, <2>3 DEF Story, Ordered
  <2>4. CASE j \notin DOMAIN x.trace
    <3>1. y.trace[j] = m
        BY <2>1, <2>4
    <3>2. x.trace[i] \in MarksOf(x)
        BY <2>2 DEF MarksOf, Range
    <3> QED BY <1>b, <2>2, <3>1, <3>2
  <2> QED BY <2>3, <2>4
<1>4. \A a \in MarksOf(x) : MarkOk(y, run, a)
  <2> TAKE a \in MarksOf(x)
  <2>1. MarkOk(x, run, a)
      BY DEF Story
  <2>2. LockedMark(y, a) /\ (IsScript(a) => a.s[1] = Kind(y) /\ a.s[2] <= y.cur)
      BY <2>1 DEF MarkOk, LockedMark, Kind
  <2>3. Terminal(a) => Starts(y, a.s)
      BY <1>2, <2>1 DEF MarkOk, Starts
  <2>4. Terminal(a) => EndOf(y.journal, a, run)
      BY <1>b, <2>1 DEF MarkOk, EndOf
  <2> QED BY <2>2, <2>3, <2>4 DEF MarkOk
<1>5. MarkOk(y, run, m)
  <2>1. LockedMark(y, m) /\ (IsScript(m) => m.s[1] = Kind(y) /\ m.s[2] <= y.cur)
      BY <1>b DEF LockedMark, Kind
  <2>2. Terminal(m) => Starts(y, m.s)
      BY <1>b, <1>2 DEF Starts
  <2> QED BY <1>b, <2>1, <2>2 DEF MarkOk
<1> QED BY <1>2, <1>3, <1>4, <1>5 DEF Story

\* The callbacks of an event.
CallbackMark(x, e, ok) == [k |-> "cb", e |-> e, s |-> None, lock |-> x.lock, ok |-> ok]

\* Records that differ in what an event's callbacks change only.
Alike(x, y) ==
  /\ y \in Command
  /\ y.cmd = x.cmd /\ y.dry = x.dry /\ y.pc = x.pc /\ y.next = x.next /\ y.todo = x.todo
  /\ y.cur = x.cur /\ y.lock = x.lock /\ y.err = x.err /\ y.jopen = x.jopen
  /\ y.started = x.started /\ y.terminal = x.terminal /\ y.journal = x.journal

\* Callbacks that run while no script is under way are not journalled.
LEMMA RanIs ==
    ASSUME NEW x \in Command, NEW e \in RegularEvents \cup ErrorEvents, NEW ok \in BOOLEAN,
           x.journal.current = None
    PROVE  Alike(x, Ran(x, e, ok)) /\ Ran(x, e, ok).trace = Append(x.trace, CallbackMark(x, e, ok))
           /\ CallbackMark(x, e, ok) \in Mark
<1> DEFINE m == CallbackMark(x, e, ok)
           t == Append(x.trace, m)
<1>1. m \in Mark
    BY DEF CallbackMark, Mark, Command
<1>2. t \in Seq(Mark)
    BY <1>1, MarkAppended DEF Command
<1>3. RecordStatements(x.journal, Statement(0, ok, FALSE)) = x.journal
    BY DEF RecordStatements
<1>4. Ran(x, e, ok) = [x EXCEPT !.trace = t, !.catalog = TRUE, !.journal = x.journal]
    BY <1>3 DEF Ran, Noted, CallbackMark, Command
<1> HIDE DEF m, t
<1>5. Ran(x, e, ok) \in Command
    BY <1>2, <1>4 DEF Command
<1>6. Ran(x, e, ok).trace = t
    BY <1>4 DEF Command
<1> QED BY <1>1, <1>4, <1>5, <1>6 DEF Alike, m, t, Command

\* They may run when no error event was fired, or when undo fires one again.
LEMMA CallbackTold ==
    ASSUME NEW run, NEW x, Story(x, run), Closed(x),
           NEW e \in RegularEvents \cup ErrorEvents, NEW ok \in BOOLEAN,
           \A a \in MarksOf(x) : IsError(a) => x.cmd = "undo" /\ e \in ErrorEvents,
           ~x.dry /\ (x.cmd = "undo" \/ (x.cmd = "migrate" /\ e \notin ErrorEvents)) => x.lock
    PROVE  /\ Story(Ran(x, e, ok), run) /\ Closed(Ran(x, e, ok)) /\ Alike(x, Ran(x, e, ok))
           /\ MarksOf(Ran(x, e, ok)) = MarksOf(x) \cup {CallbackMark(x, e, ok)}
<1> DEFINE m == CallbackMark(x, e, ok)
           y == Ran(x, e, ok)
<1>1. x \in Command /\ x.journal.current = None
    BY DEF Story, Closed
<1>2. Alike(x, y) /\ y.trace = Append(x.trace, m) /\ m \in Mark
    BY <1>1, RanIs
<1>3. m.k = "cb" /\ m.e = e /\ m.lock = x.lock /\ m.s = None
    BY DEF CallbackMark
<1> HIDE DEF m, y
<1>4. \A a \in MarksOf(x) : MayFollow(x.cmd, a, m)
    BY <1>3 DEF MayFollow, Started, Terminal, IsError
<1>5. LockedMark(x, m) /\ ~IsScript(m) /\ ~Started(m) /\ ~Terminal(m)
    BY <1>3 DEF LockedMark, IsError, IsScript, Started, Terminal
<1>6. Story(y, run) /\ MarksOf(y) = MarksOf(x) \cup {m}
  <2>1. /\ y \in Command /\ y.cmd = x.cmd /\ y.dry = x.dry /\ y.cur = x.cur
        /\ y.journal = x.journal /\ Sound(x.journal)
      BY <1>2 DEF Alike, Story
  <2>2. Grows(x, y, m, run)
      BY <1>2, <1>4, <1>5, <2>1 DEF Grows
  <2> QED BY <2>2, StoryGrows
<1>7. Closed(y)
    BY <1>2, <1>5, <1>6 DEF Closed, Alike, Ends
<1> QED BY <1>2, <1>6, <1>7 DEF m, y

-----------------------------------------------------------------------------
(* Where exceptions land                                                    *)

\* A command while an exception passes its handlers, and one without an error event.
Flight(x) ==
  /\ Story(x, n) /\ Closed(x) /\ x.cmd # "none"
  /\ \A m \in MarksOf(x) : m.k # "footer"
  /\ ~x.dry /\ x.cmd = "undo" => x.lock
  /\ x.cmd \in {"clean", "validate"} => ~x.lock
Unfired(x) == \A m \in MarksOf(x) : IsError(m) => x.cmd = "undo"

\* The error of a command changes nothing of this.
LEMMA FailedFlies ==
    ASSUME NEW x, Flight(x), Unfired(x)
    PROVE  Flight(Failed(x)) /\ Unfired(Failed(x)) /\ Failed(x).err
           /\ Failed(x).cmd = x.cmd /\ Failed(x).dry = x.dry /\ Failed(x).lock = x.lock
<1>1. x \in Command
    BY DEF Flight, Story
<1>2. Failed(x) \in Command
    BY <1>1 DEF Failed, Command
<1>3. /\ Failed(x).trace = x.trace /\ Failed(x).err
      /\ Failed(x).cmd = x.cmd /\ Failed(x).dry = x.dry /\ Failed(x).journal = x.journal
      /\ Failed(x).cur = x.cur /\ Failed(x).jopen = x.jopen /\ Failed(x).lock = x.lock
    BY <1>1 DEF Failed, Command
<1>4. \A m \in MarksOf(x) : IsScript(m) => m.s[2] <= x.cur
    BY DEF Flight, Story, MarkOk
<1>5. Story(Failed(x), n) /\ MarksOf(Failed(x)) = MarksOf(x) /\ Closed(Failed(x))
  <2>1. Story(x, n) /\ Closed(x) /\ ~x.jopen
      BY DEF Flight, Closed
  <2> QED BY <1>2, <1>3, <1>4, <2>1, StoryMoves
<1> QED BY <1>3, <1>5 DEF Flight, Unfired

\* The error callbacks of a command run at most once more, after a failed one too.
LEMMA ErrorFires ==
    ASSUME CommandAssumption, n \in 0..MaxRuns, NEW x, Flight(x), Unfired(x), NEW f \in FireError(x)
    PROVE  Flight(f.to) /\ Alike(x, f.to) /\ (f.raised => f.to = x)
<1>1. CASE f \in {[to |-> Ran(x, ErrorEvent(x.cmd), ok), raised |-> FALSE] : ok \in BOOLEAN}
  <2>1. PICK ok \in BOOLEAN : f = [to |-> Ran(x, ErrorEvent(x.cmd), ok), raised |-> FALSE]
      BY <1>1
  <2>2. f.to = Ran(x, ErrorEvent(x.cmd), ok) /\ ~f.raised
      BY <2>1
  <2>3. ErrorEvent(x.cmd) \in ErrorEvents
      BY DEF ErrorEvent, ErrorEvents
  <2>4. /\ Story(f.to, n) /\ Closed(f.to) /\ Alike(x, f.to)
        /\ MarksOf(f.to) = MarksOf(x) \cup {CallbackMark(x, ErrorEvent(x.cmd), ok)}
      BY <2>2, <2>3, CallbackTold DEF Flight, Unfired
  <2>5. CallbackMark(x, ErrorEvent(x.cmd), ok).k # "footer"
      BY DEF CallbackMark
  <2> QED BY <2>2, <2>4, <2>5 DEF Flight, Alike
<1>2. CASE f = [to |-> x, raised |-> TRUE]
    BY <1>2 DEF Alike, Flight, Story
<1> QED BY <1>1, <1>2 DEF FireError

\* A command that failed may be at its closing events (which it skips), its release or
\* its report.
LEMMA FlightLands ==
    ASSUME NEW x, Flight(x), NEW y \in Command,
           y.cmd = x.cmd, y.dry = x.dry, y.trace = x.trace, y.journal = x.journal,
           y.cur = x.cur, y.jopen = x.jopen, y.err,
           y.pc \in {"after", "release", "footer"}, Path(y), Locking(y),
           y.pc = "after" => y.cmd \in {"migrate", "undo"}
    PROVE  Steady(y, n)
<1>1. \A m \in MarksOf(x) : IsScript(m) => m.s[2] <= x.cur
    BY DEF Flight, Story, MarkOk
<1>2. Story(y, n) /\ MarksOf(y) = MarksOf(x) /\ Closed(y)
  <2>1. Story(x, n) /\ Closed(x) /\ ~x.jopen
      BY DEF Flight, Closed
  <2> QED BY <1>1, <2>1, StoryMoves
<1>3. \A m \in MarksOf(y) : Behind(y, m)
    BY <1>2 DEF Behind, Flight, LatePhases
<1>4. Progress(y)
    BY DEF Progress, LatePhases
<1> QED BY <1>2, <1>3, <1>4 DEF Steady

\* It may be about to release.
LEMMA ReleaseLands ==
    ASSUME NEW x, Flight(x), x.err, NEW next \in {"final", "footer"}, x.cmd # "clean",
           next = "final" => x.cmd \in {"migrate", "mark"}
    PROVE  Steady(Release(x, next), n)
<1> DEFINE y == Release(x, next)
<1>1. x \in Command
    BY DEF Flight, Story
<1>2. y \in Command
    BY <1>1 DEF Release, Goto, Command, Phases
<1>3. /\ y.cmd = x.cmd /\ y.dry = x.dry /\ y.trace = x.trace /\ y.journal = x.journal
      /\ y.cur = x.cur /\ y.jopen = x.jopen /\ y.err = x.err /\ y.lock = x.lock
      /\ y.pc = "release" /\ y.next = next
    BY <1>1 DEF Release, Goto, Command
<1> HIDE DEF y
<1>4. Path(y)
    BY <1>3 DEF Path, LoopPhases, Flight
<1>5. Locking(y)
    BY <1>3 DEF Locking, LoopPhases, Flight
<1>6. Steady(y, n)
    BY <1>2, <1>3, <1>4, <1>5, FlightLands
<1> QED BY <1>6 DEF y

\* clean has nothing to release.
LEMMA ReportLands ==
    ASSUME NEW x, Flight(x), x.err, x.cmd = "clean"
    PROVE  Steady(Goto(x, "footer"), n)
<1> DEFINE y == Goto(x, "footer")
<1>1. x \in Command
    BY DEF Flight, Story
<1>2. y \in Command
    BY <1>1 DEF Goto, Command, Phases
<1>3. /\ y.cmd = x.cmd /\ y.dry = x.dry /\ y.trace = x.trace /\ y.journal = x.journal
      /\ y.cur = x.cur /\ y.jopen = x.jopen /\ y.err = x.err /\ y.lock = x.lock /\ y.pc = "footer"
    BY <1>1 DEF Goto, Command
<1> HIDE DEF y
<1>4. Path(y)
    BY <1>3 DEF Path, LoopPhases
<1>5. Locking(y)
    BY <1>3 DEF Locking, LoopPhases, Flight
<1>6. Steady(y, n)
    BY <1>2, <1>3, <1>4, <1>5, FlightLands
<1> QED BY <1>6 DEF y

\* The closing events of each command.
LEMMA AfterEventsIs ==
    ASSUME NEW cmd \in {"migrate", "undo", "clean", "validate"}
    PROVE  /\ AfterEvents(cmd) \in Seq(RegularEvents) /\ AfterEvents(cmd) # << >>
           /\ AfterEvents(cmd)[Len(AfterEvents(cmd))] = Closing(cmd)
<1>1. \A a, b \in RegularEvents :
        /\ <<a>> \in Seq(RegularEvents) /\ <<a, b>> \in Seq(RegularEvents)
        /\ <<a>> # << >> /\ <<a, b>> # << >> /\ Len(<<a>>) = 1 /\ Len(<<a, b>>) = 2
    OBVIOUS
<1>2. \/ AfterEvents(cmd) = <<"afterVersioned", "afterMigrate">>
      \/ \E a \in {"afterUndo", "afterClean", "afterValidate"} : AfterEvents(cmd) = <<a>>
    BY DEF AfterEvents
<1>3. {"afterVersioned", "afterMigrate", "afterUndo", "afterClean", "afterValidate"} \subseteq RegularEvents
    BY DEF RegularEvents
<1> QED BY <1>1, <1>2, <1>3 DEF Closing

\* A run of scripts that failed goes to its closing events.
LEMMA AfterLands ==
    ASSUME NEW x, Flight(x), x.err, x.cmd \in {"migrate", "undo"}, ~x.dry => x.lock
    PROVE  Steady(ToAfter(x), n)
<1> DEFINE y == ToAfter(x)
<1>1. x \in Command /\ AfterEvents(x.cmd) \in Seq(RegularEvents)
    BY AfterEventsIs DEF Flight, Story
<1>2. y \in Command
    BY <1>1 DEF ToAfter, Goto, Command, Phases
<1>3. /\ y.cmd = x.cmd /\ y.dry = x.dry /\ y.trace = x.trace /\ y.journal = x.journal
      /\ y.cur = x.cur /\ y.jopen = x.jopen /\ y.err = x.err /\ y.lock = x.lock /\ y.pc = "after"
    BY <1>1 DEF ToAfter, Goto, Command
<1> HIDE DEF y
<1>4. Path(y)
    BY <1>3 DEF Path, LoopPhases
<1>5. Locking(y)
    BY <1>3 DEF Locking, LoopPhases, Flight
<1>6. Steady(y, n)
    BY <1>2, <1>3, <1>4, <1>5, FlightLands
<1> QED BY <1>6 DEF y

\* Wherever a handler of a command takes an exception, it ends in a steady state.
LEMMA RaisesLands ==
    ASSUME CommandAssumption, n \in 0..MaxRuns, NEW x, Flight(x), Unfired(x),
           NEW refusal, NEW y \in Raises(x, refusal)
    PROVE  Steady(y, n)
<1>1. /\ Flight(Failed(x)) /\ Unfired(Failed(x)) /\ Failed(x).err /\ Failed(x).cmd = x.cmd
    BY FailedFlies
<1>2. \A f \in FireError(Failed(x)) : Flight(f.to) /\ f.to.err /\ f.to.cmd = x.cmd
    BY <1>1, ErrorFires DEF Alike
<1>3. CASE x.cmd \in {"migrate", "mark"}
  <2>1. y \in MigrateHandler(x, refusal)
      BY <1>3 DEF Raises
  <2>2. CASE y = Release(Failed(x), "final")
      BY <1>1, <1>3, <2>2, ReleaseLands
  <2>3. CASE y \in {Release(f.to, IF f.raised THEN "footer" ELSE "final") : f \in FireError(Failed(x))}
      BY <1>2, <1>3, <2>3, ReleaseLands
  <2> QED BY <2>1, <2>2, <2>3 DEF MigrateHandler
<1>4. CASE x.cmd = "undo"
  <2>1. y \in UndoHandler(x, refusal)
      BY <1>4 DEF Raises
  <2>2. CASE y = Release(Failed(x), "footer")
      BY <1>1, <1>4, <2>2, ReleaseLands
  <2>3. CASE y \in {Release(f.to, "footer") : f \in FireError(Failed(x))}
      BY <1>2, <1>4, <2>3, ReleaseLands
  <2> QED BY <2>1, <2>2, <2>3 DEF UndoHandler
<1>5. CASE x.cmd = "clean"
  <2>1. y \in {Goto(f.to, "footer") : f \in FireError(Failed(x))}
      BY <1>5 DEF Raises
  <2> QED BY <1>2, <1>5, <2>1, ReportLands
<1>6. CASE x.cmd \notin {"migrate", "mark", "undo", "clean"}
  <2>1. y = Release(Failed(x), "footer")
      BY <1>6 DEF Raises
  <2> QED BY <1>1, <1>6, <2>1, ReleaseLands
<1> QED BY <1>3, <1>4, <1>5, <1>6

-----------------------------------------------------------------------------
(* The events of a script                                                   *)

ScriptMark(x, k, ok) == [k |-> k, e |-> "", s |-> Key(x), lock |-> x.lock, ok |-> ok]

\* A script event.
LEMMA ToldIs ==
    ASSUME NEW x \in Command, x.cur <= Scripts, NEW k \in {"started", "completed", "failed"},
           NEW ok \in BOOLEAN
    PROVE  /\ Alike(x, Told(x, k, ok)) /\ Told(x, k, ok).trace = Append(x.trace, ScriptMark(x, k, ok))
           /\ ScriptMark(x, k, ok) \in Mark /\ Key(x) \in Keys
<1> DEFINE m == ScriptMark(x, k, ok)
           t == Append(x.trace, m)
<1>1. Key(x) \in Keys
    BY DEF Key, Keys, Command
<1>2. m \in Mark
    BY <1>1 DEF ScriptMark, Mark, Command
<1>3. t \in Seq(Mark)
    BY <1>2, MarkAppended DEF Command
<1>4. Told(x, k, ok) = [x EXCEPT !.trace = t]
    BY DEF Told, ScriptMark
<1> HIDE DEF m, t
<1>5. Told(x, k, ok) \in Command
    BY <1>3, <1>4 DEF Command
<1>6. Told(x, k, ok).trace = t
    BY <1>4 DEF Command
<1> QED BY <1>1, <1>2, <1>4, <1>5, <1>6 DEF Alike, m, t, Command

\* The end of the script under way: the terminal event and the end in the journal agree.
LEMMA ScriptEnds ==
    ASSUME CommandAssumption, n \in 0..MaxRuns, NEW x, Story(x, n), Open(x),
           \A a \in MarksOf(x) : ~IsError(a), ~x.dry => x.lock,
           NEW k \in {"completed", "failed"}, NEW ok \in BOOLEAN, ok <=> k = "completed",
           NEW j, Journalled(x.journal, j, Key(x)), j.current = Key(x),
           NEW y \in Command, y.cmd = x.cmd, y.dry = x.dry, y.cur = x.cur, ~y.jopen,
           y.journal = EndMigration(j, Key(x), ok),
           y.trace = Append(x.trace, ScriptMark(x, k, ok))
    PROVE  /\ Story(y, n) /\ Closed(y)
           /\ MarksOf(y) = MarksOf(x) \cup {ScriptMark(x, k, ok)}
<1> DEFINE m == ScriptMark(x, k, ok)
<1>1. x \in Command /\ x.cur <= Scripts /\ x.cur \in Nat
    BY DEF Story, Open, Command, CommandAssumption
<1>2. m \in Mark /\ Key(x) \in Keys
    BY <1>1, ToldIs
<1>3. m.k = k /\ m.s = Key(x) /\ m.lock = x.lock /\ Terminal(m) /\ ~Started(m) /\ IsScript(m) /\ ~IsError(m)
      /\ m.k # "footer"
    BY DEF ScriptMark, Terminal, Started, IsScript, IsError
<1>4. (ok <=> m.k = "completed")
    BY <1>3
<1>a. y.trace = Append(x.trace, m)
    OBVIOUS
<1> HIDE DEF m
<1>5. j \in Journal /\ Sound(j) /\ \A o \in Keys : o # Key(x) => j.of[o] = x.journal.of[o]
    BY DEF Journalled
<1>6. /\ Sound(y.journal) /\ y.journal.current = None
      /\ \A o \in Keys : o # Key(x) => y.journal.of[o] = j.of[o]
      /\ \E e \in y.journal.of[Key(x)] : e.t = "end" /\ e.run = n /\ e.ok = ok
    BY <1>2, <1>5, EndJournals DEF Journalled
<1>7. \A a \in MarksOf(x) : Terminal(a) => y.journal.of[a.s] = x.journal.of[a.s]
  <2> SUFFICES ASSUME NEW a \in MarksOf(x), Terminal(a) PROVE y.journal.of[a.s] = x.journal.of[a.s]
      OBVIOUS
  <2>1. a \in Mark
      BY <1>1 DEF MarksOf, Range, Command
  <2>2. a.s \in Keys
      BY <2>1 DEF Mark, Terminal
  <2>3. a.s # Key(x)
      BY DEF Open, Ends
  <2> QED BY <1>5, <1>6, <2>2, <2>3
<1>8. \A a \in MarksOf(x) : MayFollow(x.cmd, a, m)
    BY <1>3 DEF MayFollow, Open, Ends
<1>9. LockedMark(x, m)
    BY <1>3 DEF LockedMark
<1>10. m.s[1] = Kind(x) /\ m.s[2] <= x.cur
    BY <1>1, <1>3 DEF Key, Kind
<1>11. Starts(x, m.s) /\ EndOf(y.journal, m, n)
    BY <1>3, <1>4, <1>6 DEF Open, EndOf
<1>12. Story(y, n) /\ MarksOf(y) = MarksOf(x) \cup {m}
  <2>1. Grows(x, y, m, n)
      BY <1>a, <1>2, <1>6, <1>7, <1>8, <1>9, <1>10, <1>11 DEF Grows
  <2> QED BY <2>1, StoryGrows
<1>13. Closed(y)
    BY <1>3, <1>6, <1>12 DEF Closed, Open, Ends
<1> QED BY <1>12, <1>13 DEF m

\* A script under way, and a runner between scripts' events, before anything failed.
Working(x) ==
  /\ Story(x, n) /\ x.cmd \in {"migrate", "undo"} /\ (~x.dry => x.lock)
  /\ \A m \in MarksOf(x) : m.k # "footer" /\ ~IsError(m)
Running(x) == Working(x) /\ (Open(x) \/ (Closed(x) /\ ~(x.started /\ ~x.terminal)))

\* What the runner does first when something raises under way.
LEMMA RunnerCloses ==
    ASSUME CommandAssumption, n \in 0..MaxRuns, NEW x, Working(x), Open(x)
    PROVE  LET closed == [x EXCEPT !.jopen = FALSE, !.journal = EndMigration(@, Key(x), FALSE)]
               failed == [Failed(Told(closed, "failed", FALSE)) EXCEPT !.terminal = TRUE]
           IN  Flight(failed) /\ Unfired(failed) /\ failed.err /\ failed.cmd = x.cmd
               /\ failed.dry = x.dry /\ failed.lock = x.lock
<1> DEFINE closed == [x EXCEPT !.jopen = FALSE, !.journal = EndMigration(@, Key(x), FALSE)]
           told == Told(closed, "failed", FALSE)
           failed == [Failed(told) EXCEPT !.terminal = TRUE]
           m == ScriptMark(x, "failed", FALSE)
<1>1. x \in Command /\ x.cur <= Scripts /\ x.journal \in Journal /\ Sound(x.journal) /\ x.journal.current = Key(x)
    BY DEF Working, Story, Open, Command
<1>2. Key(x) \in Keys
    BY <1>1, ToldIs
<1>3. Journalled(x.journal, x.journal, Key(x))
    BY <1>1 DEF Journalled
<1>4. EndMigration(x.journal, Key(x), FALSE) \in Journal
    BY <1>1, <1>2, EndJournals DEF Journalled
<1>5. closed \in Command
    BY <1>1, <1>4 DEF Command
<1>6. /\ closed.cmd = x.cmd /\ closed.dry = x.dry /\ closed.cur = x.cur /\ closed.lock = x.lock
      /\ closed.trace = x.trace /\ closed.journal = EndMigration(x.journal, Key(x), FALSE) /\ ~closed.jopen
    BY <1>1 DEF Command
<1> HIDE DEF closed
<1>7. Alike(closed, told) /\ told.trace = Append(x.trace, m)
  <2>1. ScriptMark(closed, "failed", FALSE) = m
      BY <1>6 DEF ScriptMark, Key
  <2> QED BY <1>1, <1>5, <1>6, <2>1, ToldIs
<1> HIDE DEF told
<1>8. failed \in Command
    BY <1>7 DEF Alike, Failed, Command
<1>9. /\ failed.cmd = x.cmd /\ failed.dry = x.dry /\ failed.cur = x.cur /\ failed.lock = x.lock
      /\ failed.trace = Append(x.trace, m) /\ failed.journal = EndMigration(x.journal, Key(x), FALSE)
      /\ ~failed.jopen /\ failed.err
  <2>1. told \in Command
      BY <1>7 DEF Alike
  <2>2. /\ failed.cmd = told.cmd /\ failed.dry = told.dry /\ failed.cur = told.cur /\ failed.lock = told.lock
        /\ failed.trace = told.trace /\ failed.journal = told.journal
        /\ failed.jopen = told.jopen /\ failed.err
      BY <2>1 DEF Failed, Command
  <2> QED BY <1>6, <1>7, <2>2 DEF Alike
<1> HIDE DEF failed, m
<1>10. Story(failed, n) /\ Closed(failed) /\ MarksOf(failed) = MarksOf(x) \cup {m}
  <2>1. Story(x, n) /\ (\A a \in MarksOf(x) : ~IsError(a)) /\ (~x.dry => x.lock)
      BY DEF Working
  <2>2. m = ScriptMark(x, "failed", FALSE)
      BY DEF m
  <2> QED BY <1>1, <1>3, <1>8, <1>9, <2>1, <2>2, ScriptEnds
<1>11. m.k # "footer" /\ ~IsError(m)
    BY DEF m, ScriptMark, IsError
<1>12. Flight(failed) /\ Unfired(failed)
    BY <1>9, <1>10, <1>11 DEF Flight, Unfired, Working
<1> QED BY <1>9, <1>12 DEF failed, told, closed

\* Between the events of a script there is nothing to close.
LEMMA RunnerIdles ==
    ASSUME NEW x, Working(x), Closed(x)
    PROVE  LET closed == [x EXCEPT !.jopen = FALSE, !.journal = x.journal]
               failed == [Failed(closed) EXCEPT !.terminal = TRUE]
           IN  Flight(failed) /\ Unfired(failed) /\ failed.err /\ failed.cmd = x.cmd
               /\ failed.dry = x.dry /\ failed.lock = x.lock
<1> DEFINE closed == [x EXCEPT !.jopen = FALSE, !.journal = x.journal]
           failed == [Failed(closed) EXCEPT !.terminal = TRUE]
<1>1. x \in Command
    BY DEF Working, Story
<1>2. failed = [x EXCEPT !.jopen = FALSE, !.err = TRUE, !.terminal = TRUE]
    BY <1>1 DEF Failed, Command
<1>3. failed \in Command
    BY <1>1, <1>2 DEF Command
<1>4. /\ failed.cmd = x.cmd /\ failed.dry = x.dry /\ failed.cur = x.cur /\ failed.lock = x.lock
      /\ failed.trace = x.trace /\ failed.journal = x.journal /\ ~failed.jopen /\ failed.err
    BY <1>1, <1>2 DEF Command
<1> HIDE DEF failed
<1>5. \A m \in MarksOf(x) : IsScript(m) => m.s[2] <= x.cur
    BY DEF Working, Story, MarkOk
<1>6. Story(failed, n) /\ MarksOf(failed) = MarksOf(x) /\ Closed(failed)
  <2>1. Story(x, n)
      BY DEF Working
  <2> QED BY <1>3, <1>4, <1>5, <2>1, StoryMoves
<1>7. Flight(failed) /\ Unfired(failed)
    BY <1>4, <1>6 DEF Flight, Unfired, Working
<1> QED BY <1>4, <1>7 DEF failed

\* An exception in the runner ends its script and stops the loop.
LEMMA RunnerLands ==
    ASSUME CommandAssumption, n \in 0..MaxRuns, NEW x, Running(x), NEW refusal,
           NEW y \in RunnerFails(x, refusal)
    PROVE  Steady(y, n)
<1> DEFINE closed == [x EXCEPT !.jopen = FALSE,
                               !.journal = IF x.jopen THEN EndMigration(@, Key(x), FALSE) ELSE @]
           ended == IF x.started /\ ~x.terminal THEN Told(closed, "failed", FALSE) ELSE closed
           failed == [Failed(ended) EXCEPT !.terminal = TRUE]
<1>1. /\ Flight(failed) /\ Unfired(failed) /\ failed.err /\ failed.cmd = x.cmd
      /\ failed.dry = x.dry /\ failed.lock = x.lock
  <2>1. CASE Open(x)
    <3>1. x.jopen /\ x.started /\ ~x.terminal
        BY <2>1 DEF Open
    <3>2. closed = [x EXCEPT !.jopen = FALSE, !.journal = EndMigration(@, Key(x), FALSE)]
        BY <3>1
    <3>3. ended = Told(closed, "failed", FALSE)
        BY <3>1
    <3> HIDE DEF closed, ended
    <3> QED BY <2>1, <3>2, <3>3, RunnerCloses DEF Running
  <2>2. CASE Closed(x) /\ ~(x.started /\ ~x.terminal)
    <3>1. closed = [x EXCEPT !.jopen = FALSE, !.journal = x.journal]
        BY <2>2 DEF Closed
    <3>2. ended = closed
        BY <2>2
    <3> HIDE DEF closed, ended
    <3> QED BY <2>2, <3>1, <3>2, RunnerIdles DEF Running
  <2> QED BY <2>1, <2>2 DEF Running
<1>2. y \in (IF refusal THEN {ToAfter(failed)}
             ELSE UNION {IF f.raised THEN Raises(f.to, FALSE) ELSE {ToAfter(f.to)} : f \in FireError(failed)})
    BY DEF RunnerFails
<1> HIDE DEF failed
<1>3. failed.cmd \in {"migrate", "undo"} /\ (~failed.dry => failed.lock)
    BY <1>1 DEF Running, Working
<1>4. CASE y = ToAfter(failed)
    BY <1>1, <1>3, <1>4, AfterLands
<1>5. CASE \E f \in FireError(failed) : y \in (IF f.raised THEN Raises(f.to, FALSE) ELSE {ToAfter(f.to)})
  <2>1. PICK f \in FireError(failed) : y \in (IF f.raised THEN Raises(f.to, FALSE) ELSE {ToAfter(f.to)})
      BY <1>5
  <2>2. Flight(f.to) /\ Alike(failed, f.to) /\ (f.raised => f.to = failed)
      BY <1>1, ErrorFires
  <2>3. CASE f.raised
      BY <1>1, <2>1, <2>2, <2>3, RaisesLands
  <2>4. CASE ~f.raised
      BY <1>1, <1>3, <2>1, <2>2, <2>4, AfterLands DEF Alike
  <2> QED BY <2>3, <2>4
<1> QED BY <1>2, <1>4, <1>5

\* An exception while the opening events run.
LEMMA BeforeLands ==
    ASSUME CommandAssumption, n \in 0..MaxRuns, NEW x, Flight(x), Unfired(x),
           NEW refusal, NEW y \in BeforeFails(x, refusal)
    PROVE  Steady(y, n)
<1>1. CASE x.cmd \in {"undo", "clean"} /\ ~refusal
  <2>1. PICK f \in FireError(Failed(x)) :
          y \in (IF f.raised THEN Raises(f.to, FALSE)
                 ELSE {IF x.cmd = "undo" THEN Release(f.to, "footer") ELSE Goto(f.to, "footer")})
      BY <1>1 DEF BeforeFails
  <2>2. Flight(Failed(x)) /\ Unfired(Failed(x)) /\ Failed(x).err /\ Failed(x).cmd = x.cmd
      BY FailedFlies
  <2>3. Flight(f.to) /\ Alike(Failed(x), f.to) /\ (f.raised => f.to = Failed(x))
      BY <2>2, ErrorFires
  <2>4. CASE f.raised
      BY <2>1, <2>2, <2>3, <2>4, RaisesLands
  <2>5. CASE ~f.raised /\ x.cmd = "undo"
    <3>1. y = Release(f.to, "footer") /\ f.to.err /\ f.to.cmd = "undo"
        BY <2>1, <2>2, <2>3, <2>5 DEF Alike
    <3> QED BY <2>3, <3>1, ReleaseLands
  <2>6. CASE ~f.raised /\ x.cmd = "clean"
    <3>1. y = Goto(f.to, "footer") /\ f.to.err /\ f.to.cmd = "clean"
        BY <2>1, <2>2, <2>3, <2>6 DEF Alike
    <3> QED BY <2>3, <3>1, ReportLands
  <2> QED BY <1>1, <2>4, <2>5, <2>6
<1>2. CASE ~(x.cmd \in {"undo", "clean"} /\ ~refusal)
    BY <1>2, RaisesLands DEF BeforeFails
<1> QED BY <1>1, <1>2

\* Where a command may raise.
Throwable(x) ==
  IF x.pc \in {"eachBefore", "exec", "eachAfter"} THEN Running(x) ELSE Flight(x) /\ Unfired(x)

\* Whatever raises there lands in a steady state.
LEMMA ThrownLands ==
    ASSUME CommandAssumption, n \in 0..MaxRuns, NEW x, Throwable(x), NEW refusal,
           NEW y \in Thrown(x, refusal)
    PROVE  Steady(y, n)
<1>1. CASE x.pc \in {"eachBefore", "exec", "eachAfter"}
    BY <1>1, RunnerLands DEF Throwable, Thrown
<1>2. CASE x.pc = "before"
    BY <1>2, BeforeLands DEF Throwable, Thrown
<1>3. CASE x.pc \notin {"eachBefore", "exec", "eachAfter", "before"}
    BY <1>3, RaisesLands DEF Throwable, Thrown
<1> QED BY <1>1, <1>2, <1>3

\* A steady command may raise where its code does.
LEMMA SteadyThrows ==
    ASSUME Steady(c, n),
           c.pc \in {"target", "lock", "replan", "before", "eachBefore", "exec", "eachAfter",
                     "after", "drop", "final"},
           c.pc = "lock" => c.cmd # "undo", c.pc = "final" => c.cmd = "undo", ~SkipsAfter(c)
    PROVE  Throwable(c)
<1>1. CASE c.pc \in {"eachBefore", "exec", "eachAfter"}
  <2>1. Working(c)
      BY <1>1 DEF Steady, Working, Path, Locking, Behind, LoopPhases, LatePhases
  <2>2. Open(c) \/ (Closed(c) /\ ~(c.started /\ ~c.terminal))
      BY <1>1 DEF Steady, Progress
  <2> QED BY <1>1, <2>1, <2>2 DEF Throwable, Running
<1>2. CASE c.pc \notin {"eachBefore", "exec", "eachAfter"}
  <2>1. Story(c, n) /\ Closed(c) /\ c.cmd # "none" /\ (c.cmd \in {"clean", "validate"} => ~c.lock)
      BY <1>2 DEF Steady, Path, Locking
  <2>2. \A m \in MarksOf(c) : m.k # "footer"
      BY DEF Steady, Behind
  <2>3. ~c.dry /\ c.cmd = "undo" => c.lock
      BY <1>2 DEF Steady, Locking, Path
  <2>4. Unfired(c)
      BY <1>2 DEF Steady, Behind, Unfired, LatePhases, SkipsAfter
  <2> QED BY <1>2, <2>1, <2>2, <2>3, <2>4 DEF Throwable, Flight
<1> QED BY <1>1, <1>2

-----------------------------------------------------------------------------
(* The steps of a command                                                   *)

\* A step that leaves no mark and touches no script.
Moved(y) ==
  /\ y \in Command /\ y.cmd = c.cmd /\ y.dry = c.dry /\ y.trace = c.trace
  /\ y.journal = c.journal /\ ~y.jopen

\* Such a step keeps the invariant when its phase does.
LEMMA MovesSteady ==
    ASSUME Steady(c, n), c.pc \notin {"exec", "dead"}, NEW y, Moved(y), y.pc # "exec",
           \A m \in MarksOf(c) : Behind(y, m) /\ (IsScript(m) => m.s[2] <= y.cur),
           Path(y), Locking(y), Progress(y)
    PROVE  Steady(y, n)
<1>1. Story(c, n) /\ Closed(c)
    BY DEF Steady
<1>2. Story(y, n) /\ MarksOf(y) = MarksOf(c) /\ Closed(y)
    BY <1>1, StoryMoves DEF Moved
<1> QED BY <1>2 DEF Steady

EarlyPhases == {"preflight", "target", "plan", "lock", "replan", "before", "drop", "record"}

\* Before the scripts nothing has failed and nothing is to be remembered.
LEMMA EarlyIs ==
    ASSUME Steady(c, n), c.pc \in EarlyPhases
    PROVE  ~c.err /\ \A m \in MarksOf(c) : m.ok /\ m.k # "footer" /\ ~IsError(m) /\ ~IsScript(m)
<1>1. c.pc \notin LatePhases \cup LoopPhases /\ c.pc # "idle"
    BY DEF EarlyPhases, LatePhases, LoopPhases
<1> QED BY <1>1 DEF Steady, Behind, Progress

\* So an early step may go on anywhere it is allowed to.
LEMMA EarlyMoves ==
    ASSUME Steady(c, n), c.pc \in EarlyPhases, NEW y, Moved(y),
           y.pc \notin {"exec", "eachBefore", "eachAfter"}, y.err => y.pc \in LatePhases,
           Path(y), Locking(y)
    PROVE  Steady(y, n)
<1>1. ~c.err /\ \A m \in MarksOf(c) : m.ok /\ m.k # "footer" /\ ~IsError(m) /\ ~IsScript(m)
    BY EarlyIs
<1>2. MarksOf(y) = MarksOf(c)
    BY DEF MarksOf, Moved
<1>3. ~Scripted(y)
    BY <1>1, <1>2 DEF Scripted, IsScript
<1>4. Progress(y)
    BY <1>3 DEF Progress
<1>5. \A m \in MarksOf(c) : Behind(y, m) /\ (IsScript(m) => m.s[2] <= y.cur)
    BY <1>1 DEF Behind
<1>6. c.pc \notin {"exec", "dead"}
    BY DEF EarlyPhases
<1> QED BY <1>4, <1>5, <1>6, MovesSteady

\* The records that early steps make of the command.
LEMMA Departures ==
    ASSUME Steady(c, n), c.pc \in EarlyPhases
    PROVE  /\ \A pc \in Phases :
                /\ Moved(Goto(c, pc)) /\ Goto(c, pc).pc = pc /\ Goto(c, pc).lock = c.lock
                /\ Goto(c, pc).err = c.err
                /\ Moved(Goto(Failed(c), pc)) /\ Goto(Failed(c), pc).pc = pc
                /\ Goto(Failed(c), pc).lock = c.lock /\ Goto(Failed(c), pc).err
           /\ \A next \in {"final", "footer"} :
                /\ Moved(Release(c, next)) /\ Release(c, next).pc = "release"
                /\ Release(c, next).next = next /\ Release(c, next).lock = c.lock
                /\ Release(c, next).err = c.err
                /\ Moved(Release(Failed(c), next)) /\ Release(Failed(c), next).pc = "release"
                /\ Release(Failed(c), next).next = next /\ Release(Failed(c), next).lock = c.lock
<1>1. c \in Command /\ ~c.jopen
    BY DEF Steady, Story, Closed, EarlyPhases
<1>2. "release" \in Phases
    BY DEF Phases
<1>3. \A pc \in Phases : Moved(Goto(c, pc)) /\ Goto(c, pc).pc = pc /\ Goto(c, pc).lock = c.lock
                         /\ Goto(c, pc).err = c.err
    BY <1>1 DEF Moved, Goto, Command
<1>4. \A pc \in Phases : Moved(Goto(Failed(c), pc)) /\ Goto(Failed(c), pc).pc = pc
                         /\ Goto(Failed(c), pc).lock = c.lock /\ Goto(Failed(c), pc).err
    BY <1>1 DEF Moved, Goto, Failed, Command
<1>5. \A next \in {"final", "footer"} :
        /\ Moved(Release(c, next)) /\ Release(c, next).pc = "release"
        /\ Release(c, next).next = next /\ Release(c, next).lock = c.lock
        /\ Release(c, next).err = c.err
    BY <1>1, <1>2 DEF Moved, Release, Goto, Command
<1>6. \A next \in {"final", "footer"} :
        /\ Moved(Release(Failed(c), next)) /\ Release(Failed(c), next).pc = "release"
        /\ Release(Failed(c), next).next = next /\ Release(Failed(c), next).lock = c.lock
    BY <1>1, <1>2 DEF Moved, Release, Goto, Failed, Command
<1> QED BY <1>3, <1>4, <1>5, <1>6

\* The opening events of each command.
LEMMA BeforeEventsIs ==
    ASSUME NEW cmd \in {"migrate", "undo", "clean", "validate"}
    PROVE  BeforeEvents(cmd) \in Seq(RegularEvents)
<1>1. \A a, b \in RegularEvents : <<a>> \in Seq(RegularEvents) /\ <<a, b>> \in Seq(RegularEvents)
    OBVIOUS
<1>2. \/ BeforeEvents(cmd) = <<"beforeMigrate", "beforeVersioned">>
      \/ \E a \in {"beforeUndo", "beforeClean", "beforeValidate"} : BeforeEvents(cmd) = <<a>>
    BY DEF BeforeEvents
<1>3. {"beforeMigrate", "beforeVersioned", "beforeUndo", "beforeClean", "beforeValidate"} \subseteq RegularEvents
    BY DEF RegularEvents
<1> QED BY <1>1, <1>2, <1>3

\* The opening events, and the plan's first script with them.
LEMMA Opens ==
    ASSUME CommandAssumption, Steady(c, n), c.pc \in EarlyPhases,
           c.cmd \in {"migrate", "undo", "clean", "validate"}, NEW cur \in 1..Scripts + 1
    PROVE  LET y == [Goto(c, "before") EXCEPT !.cur = cur, !.todo = BeforeEvents(c.cmd)]
           IN  Moved(y) /\ y.pc = "before" /\ y.lock = c.lock /\ y.err = c.err
<1>1. c \in Command /\ ~c.jopen
    BY DEF Steady, Story, Closed, EarlyPhases
<1>2. BeforeEvents(c.cmd) \in Seq(RegularEvents)
    BY BeforeEventsIs
<1>3. "before" \in Phases
    BY DEF Phases
<1> QED BY <1>1, <1>2, <1>3 DEF Moved, Goto, Command

\* The command without and with its preflight.
LEMMA PreflightSteps ==
    ASSUME CommandAssumption, Steady(c, n), NEW y, At("preflight"),
           \/ y = Goto(Failed(c), "idle")
           \/ y = CASE c.cmd \in {"migrate", "mark"} -> Goto(c, "plan")
                    [] c.cmd \in {"undo", "baseline"} -> Goto(c, "lock")
                    [] c.cmd = "clean" -> Goto(c, "target")
                    [] OTHER -> [Goto(c, "before") EXCEPT !.todo = BeforeEvents(c.cmd)]
    PROVE  Steady(y, n)
<1>1. c.pc \in EarlyPhases /\ c \in Command /\ ~c.lock /\ c.cmd # "none" /\ ~c.err
    BY EarlyIs DEF At, EarlyPhases, Steady, Story, Locking, Path
<1>2. c.cmd \in Known
    BY <1>1 DEF Command, CommandAssumption
<1>3. {"idle", "plan", "lock", "target", "before"} \subseteq Phases
    BY DEF Phases
<1>4. CASE y = Goto(Failed(c), "idle")
  <2>1. Moved(y) /\ y.pc = "idle" /\ ~y.lock
      BY <1>1, <1>3, <1>4, Departures
  <2>2. Path(y) /\ Locking(y)
      BY <2>1 DEF Path, Locking, LoopPhases
  <2> QED BY <1>1, <2>1, <2>2, EarlyMoves DEF LatePhases
<1>5. ASSUME NEW pc \in {"plan", "lock", "target"}, y = Goto(c, pc),
             pc = "plan" => c.cmd \in {"migrate", "mark"},
             pc = "lock" => c.cmd \in {"undo", "baseline"}, pc = "target" => c.cmd = "clean"
      PROVE  Steady(y, n)
  <2>1. Moved(y) /\ y.pc = pc /\ ~y.lock /\ ~y.err
      BY <1>1, <1>3, <1>5, Departures
  <2>2. Path(y) /\ Locking(y)
      BY <1>1, <1>5, <2>1 DEF Path, Locking, LoopPhases, Moved
  <2> QED BY <1>1, <2>1, <2>2, EarlyMoves
<1>6. CASE c.cmd = "validate" /\ y = [Goto(c, "before") EXCEPT !.todo = BeforeEvents(c.cmd)]
  <2>1. c.cur \in 1..Scripts + 1
      BY <1>1 DEF Command
  <2>2. y = [Goto(c, "before") EXCEPT !.cur = c.cur, !.todo = BeforeEvents(c.cmd)]
      BY <1>1, <1>6 DEF Goto, Command
  <2>3. Moved(y) /\ y.pc = "before" /\ ~y.lock /\ ~y.err
      BY <1>1, <1>6, <2>1, <2>2, Opens
  <2>4. Path(y) /\ Locking(y)
      BY <1>1, <1>6, <2>3 DEF Path, Locking, LoopPhases, Moved
  <2> QED BY <1>1, <2>3, <2>4, EarlyMoves
<1> QED BY <1>2, <1>4, <1>5, <1>6 DEF Known

\* clean's target.
LEMMA CleanTargetSteps ==
    ASSUME CommandAssumption, n \in 0..MaxRuns, Steady(c, n), NEW y, At("target"),
           \/ y = Goto(Failed(c), "footer")
           \/ y \in Thrown(c, FALSE)
           \/ y = IF c.dry THEN Goto(c, "footer")
                  ELSE [Goto(c, "before") EXCEPT !.todo = BeforeEvents("clean")]
    PROVE  Steady(y, n)
<1>1. c.pc \in EarlyPhases /\ c \in Command /\ ~c.lock /\ c.cmd = "clean" /\ ~c.err
    BY EarlyIs DEF At, EarlyPhases, Steady, Story, Locking, Path
<1>2. "footer" \in Phases
    BY DEF Phases
<1>3. CASE y = Goto(Failed(c), "footer") \/ y = Goto(c, "footer")
  <2>1. Moved(y) /\ y.pc = "footer" /\ ~y.lock
      BY <1>1, <1>2, <1>3, Departures
  <2>2. Path(y) /\ Locking(y)
      BY <1>1, <2>1 DEF Path, Locking, LoopPhases, Moved
  <2> QED BY <1>1, <2>1, <2>2, EarlyMoves DEF LatePhases
<1>4. CASE y \in Thrown(c, FALSE)
  <2>1. Throwable(c)
      BY <1>1, SteadyThrows DEF At, SkipsAfter
  <2> QED BY <1>4, <2>1, ThrownLands
<1>5. CASE y = [Goto(c, "before") EXCEPT !.todo = BeforeEvents("clean")]
  <2>1. c.cur \in 1..Scripts + 1
      BY <1>1 DEF Command
  <2>2. y = [Goto(c, "before") EXCEPT !.cur = c.cur, !.todo = BeforeEvents(c.cmd)]
      BY <1>1, <1>5 DEF Goto, Command
  <2>3. Moved(y) /\ y.pc = "before" /\ ~y.lock /\ ~y.err
      BY <1>1, <2>1, <2>2, Opens
  <2>4. Path(y) /\ Locking(y)
      BY <1>1, <2>3 DEF Path, Locking, LoopPhases, Moved
  <2> QED BY <1>1, <2>3, <2>4, EarlyMoves
<1> QED BY <1>3, <1>4, <1>5

\* The plan before the lock.
LEMMA PlanSteps ==
    ASSUME Steady(c, n), NEW y, At("plan"),
           \/ y = Goto(c, "lock")
           \/ y = Goto(c, "footer")
           \/ y = Goto(Failed(c), "footer")
           \/ y = Goto(Failed(c), "idle")
    PROVE  Steady(y, n)
<1>1. c.pc \in EarlyPhases /\ ~c.lock /\ c.cmd \in {"migrate", "mark"} /\ ~c.err
    BY EarlyIs DEF At, EarlyPhases, Steady, Locking, Path
<1>2. {"lock", "footer", "idle"} \subseteq Phases
    BY DEF Phases
<1>3. /\ Moved(y) /\ y.pc \in {"lock", "footer", "idle"} /\ ~y.lock
      /\ y.err => y.pc \in {"footer", "idle"}
    BY <1>1, <1>2, Departures
<1>4. Path(y) /\ Locking(y)
    BY <1>1, <1>3 DEF Path, Locking, LoopPhases, Moved
<1> QED BY <1>1, <1>3, <1>4, EarlyMoves DEF LatePhases

\* The lock, which a dry run goes on without.
LEMMA LockSteps ==
    ASSUME CommandAssumption, n \in 0..MaxRuns, Steady(c, n), NEW y, At("lock"),
           \/ y = [Goto(c, IF c.cmd = "baseline" THEN "record" ELSE "replan") EXCEPT !.lock = ~c.dry]
           \/ y = Goto(Failed(c), "footer")
           \/ y = Goto(c, "footer")
           \/ c.cmd \in {"migrate", "mark"} /\ y \in Thrown(c, FALSE)
    PROVE  Steady(y, n)
<1>1. /\ c.pc \in EarlyPhases /\ c \in Command /\ ~c.lock /\ ~c.err
      /\ c.cmd \in {"migrate", "mark", "undo", "baseline"}
    BY EarlyIs DEF At, EarlyPhases, Steady, Story, Locking, Path
<1>2. {"footer", "record", "replan"} \subseteq Phases
    BY DEF Phases
<1>3. CASE y = Goto(Failed(c), "footer") \/ y = Goto(c, "footer")
  <2>1. Moved(y) /\ y.pc = "footer" /\ ~y.lock
      BY <1>1, <1>2, <1>3, Departures
  <2>2. Path(y) /\ Locking(y)
      BY <1>1, <2>1 DEF Path, Locking, LoopPhases, Moved
  <2> QED BY <1>1, <2>1, <2>2, EarlyMoves DEF LatePhases
<1>4. CASE y = [Goto(c, IF c.cmd = "baseline" THEN "record" ELSE "replan") EXCEPT !.lock = ~c.dry]
  <2> DEFINE pc == IF c.cmd = "baseline" THEN "record" ELSE "replan"
  <2>1. pc \in Phases /\ pc \in {"record", "replan"} /\ (pc = "record" <=> c.cmd = "baseline")
      BY <1>2
  <2> HIDE DEF pc
  <2>2. y = [c EXCEPT !.pc = pc, !.lock = ~c.dry] /\ ~c.jopen
      BY <1>1, <1>4 DEF pc, Goto, Command, Steady, Closed, At
  <2>3. Moved(y) /\ y.pc = pc /\ y.lock = ~c.dry /\ ~y.err
      BY <1>1, <2>1, <2>2 DEF Moved, Command
  <2>4. Path(y) /\ Locking(y)
      BY <1>1, <2>1, <2>3 DEF Path, Locking, LoopPhases, Moved
  <2> QED BY <1>1, <2>1, <2>3, <2>4, EarlyMoves
<1>5. CASE c.cmd \in {"migrate", "mark"} /\ y \in Thrown(c, FALSE)
  <2>1. Throwable(c)
      BY <1>1, <1>5, SteadyThrows DEF At, SkipsAfter
  <2> QED BY <1>5, <2>1, ThrownLands
<1> QED BY <1>3, <1>4, <1>5

\* The plan under the lock.
LEMMA ReplanSteps ==
    ASSUME CommandAssumption, n \in 0..MaxRuns, Steady(c, n), NEW y, At("replan"),
           \/ \E first \in 1..Scripts :
                y = IF c.cmd = "mark" THEN Goto(c, "record")
                    ELSE [Goto(c, "before") EXCEPT !.cur = first, !.todo = BeforeEvents(c.cmd)]
           \/ y = Release(c, IF c.cmd = "undo" THEN "footer" ELSE "final")
           \/ y = Release(Failed(c), "footer")
           \/ \E refusal \in BOOLEAN : y \in Thrown(c, refusal)
    PROVE  Steady(y, n)
<1>1. /\ c.pc \in EarlyPhases /\ c \in Command /\ ~c.err /\ c.cmd \in {"migrate", "mark", "undo"}
      /\ ~c.dry /\ c.cmd \in {"migrate", "undo"} => c.lock
    BY EarlyIs DEF At, EarlyPhases, Steady, Story, Locking, Path
<1>2. CASE y = Goto(c, "record") /\ c.cmd = "mark"
  <2>1. Moved(y) /\ y.pc = "record" /\ ~y.err
      BY <1>1, <1>2, Departures DEF Phases
  <2>2. Path(y) /\ Locking(y)
      BY <1>2, <2>1 DEF Path, Locking, LoopPhases, Moved
  <2> QED BY <1>1, <2>1, <2>2, EarlyMoves
<1>3. ASSUME NEW first \in 1..Scripts, c.cmd # "mark",
             y = [Goto(c, "before") EXCEPT !.cur = first, !.todo = BeforeEvents(c.cmd)]
      PROVE  Steady(y, n)
  <2>1. first \in 1..Scripts + 1
    <3>1. Scripts \in Nat
        BY DEF CommandAssumption
    <3> QED BY ONLY <3>1, first \in 1..Scripts
  <2>2. Moved(y) /\ y.pc = "before" /\ y.lock = c.lock /\ ~y.err
      BY <1>1, <1>3, <2>1, Opens
  <2>3. Path(y) /\ Locking(y)
      BY <1>1, <1>3, <2>2 DEF Path, Locking, LoopPhases, Moved
  <2> QED BY <1>1, <2>2, <2>3, EarlyMoves
<1>4. CASE y = Release(Failed(c), "footer") \/ y = Release(c, IF c.cmd = "undo" THEN "footer" ELSE "final")
  <2>1. Moved(y) /\ y.pc = "release" /\ (y.next = "final" => c.cmd # "undo")
      BY <1>1, <1>4, Departures
  <2>2. Path(y) /\ Locking(y)
      BY <1>1, <2>1 DEF Path, Locking, LoopPhases, Moved
  <2> QED BY <1>1, <2>1, <2>2, EarlyMoves DEF LatePhases
<1>5. CASE \E refusal \in BOOLEAN : y \in Thrown(c, refusal)
  <2>1. Throwable(c)
      BY SteadyThrows DEF At, SkipsAfter
  <2> QED BY <1>5, <2>1, ThrownLands
<1> QED BY <1>2, <1>3, <1>4, <1>5

\* The end of the opening events.
LEMMA BeforeDoneSteps ==
    ASSUME Steady(c, n), NEW y, At("before"),
           y = Goto(c, CASE c.cmd = "clean" -> "drop" [] c.cmd = "validate" -> "record"
                         [] OTHER -> "loop")
    PROVE  Steady(y, n)
<1>1. /\ c.pc \in EarlyPhases /\ ~c.err /\ c.cmd \in {"migrate", "undo", "clean", "validate"}
      /\ ~c.dry /\ c.cmd \in {"migrate", "undo"} => c.lock
      /\ c.cmd \in {"clean", "validate"} => ~c.lock
    BY EarlyIs DEF At, EarlyPhases, Steady, Locking, Path
<1>2. PICK pc \in {"drop", "record", "loop"} :
        /\ y = Goto(c, pc) /\ (pc = "drop" => c.cmd = "clean") /\ (pc = "record" => c.cmd = "validate")
        /\ (pc = "loop" => c.cmd \in {"migrate", "undo"})
    BY <1>1
<1>3. Moved(y) /\ y.pc = pc /\ y.lock = c.lock /\ ~y.err
    BY <1>1, <1>2, Departures DEF Phases
<1>4. Path(y) /\ Locking(y)
    BY <1>1, <1>2, <1>3 DEF Path, Locking, LoopPhases, Moved
<1> QED BY <1>1, <1>2, <1>3, <1>4, EarlyMoves

\* The closing events of clean and of validate, whatever they found.
LEMMA Closes ==
    ASSUME Steady(c, n), c.pc \in {"drop", "record"}, c.cmd \in {"clean", "validate"},
           NEW err \in BOOLEAN
    PROVE  Steady([ToAfter(c) EXCEPT !.err = err], n)
<1> DEFINE y == [ToAfter(c) EXCEPT !.err = err]
<1>1. c.pc \in EarlyPhases /\ c \in Command /\ ~c.jopen /\ ~c.lock
    BY DEF EarlyPhases, Steady, Story, Closed, Locking
<1>2. AfterEvents(c.cmd) \in Seq(RegularEvents)
    BY AfterEventsIs
<1>3. y = [c EXCEPT !.pc = "after", !.todo = AfterEvents(c.cmd), !.err = err]
    BY <1>1 DEF ToAfter, Goto, Command
<1>4. Moved(y) /\ y.pc = "after" /\ y.lock = c.lock
    BY <1>1, <1>2, <1>3 DEF Moved, Command, Phases
<1> HIDE DEF y
<1>5. Path(y) /\ Locking(y)
    BY <1>1, <1>4 DEF Path, Locking, LoopPhases, Moved
<1>6. Steady(y, n)
    BY <1>1, <1>4, <1>5, EarlyMoves DEF LatePhases
<1> QED BY <1>6 DEF y

\* clean's drops.
LEMMA DropSteps ==
    ASSUME CommandAssumption, n \in 0..MaxRuns, Steady(c, n), NEW y, At("drop"),
           (\E err \in BOOLEAN : y = [ToAfter(c) EXCEPT !.err = err]) \/ y \in Thrown(c, FALSE)
    PROVE  Steady(y, n)
<1>1. c.cmd = "clean"
    BY DEF At, Steady, Path
<1>2. CASE \E err \in BOOLEAN : y = [ToAfter(c) EXCEPT !.err = err]
    BY <1>1, <1>2, Closes DEF At
<1>3. CASE y \in Thrown(c, FALSE)
  <2>1. Throwable(c)
      BY <1>1, SteadyThrows DEF At, SkipsAfter
  <2> QED BY <1>3, <2>1, ThrownLands
<1> QED BY <1>2, <1>3

\* validate's verdict and the rows of mark and of baseline.
LEMMA RecordSteps ==
    ASSUME Steady(c, n), NEW y, At("record"),
           \/ c.cmd = "validate" /\ \E valid \in BOOLEAN : y = [ToAfter(c) EXCEPT !.err = ~valid]
           \/ c.cmd = "mark" /\ y = Release(c, "final")
           \/ c.cmd = "baseline" /\ y = Release(c, "footer")
           \/ y = Release(Failed(c), "footer")
    PROVE  Steady(y, n)
<1>1. c.pc \in EarlyPhases /\ c.cmd \in {"mark", "baseline", "validate"} /\ (c.cmd = "validate" => ~c.lock)
    BY DEF At, EarlyPhases, Steady, Path, Locking
<1>2. CASE c.cmd = "validate" /\ \E valid \in BOOLEAN : y = [ToAfter(c) EXCEPT !.err = ~valid]
    BY <1>2, Closes DEF At
<1>3. CASE \/ c.cmd = "mark" /\ y = Release(c, "final")
           \/ c.cmd = "baseline" /\ y = Release(c, "footer")
           \/ y = Release(Failed(c), "footer")
  <2>1. Moved(y) /\ y.pc = "release" /\ y.lock = c.lock /\ (y.next = "final" => c.cmd = "mark")
      BY <1>1, <1>3, Departures
  <2>2. Path(y) /\ Locking(y)
      BY <1>1, <2>1 DEF Path, Locking, LoopPhases, Moved
  <2> QED BY <1>1, <2>1, <2>2, EarlyMoves DEF LatePhases
<1> QED BY <1>2, <1>3

\* Where the runner has the command, nothing has failed yet.
LEMMA LoopIs ==
    ASSUME Steady(c, n), c.pc \in LoopPhases
    PROVE  /\ ~c.err /\ c.cmd \in {"migrate", "undo"} /\ (~c.dry => c.lock) /\ c \in Command
           /\ \A m \in MarksOf(c) : /\ m.ok /\ m.k # "footer" /\ ~IsError(m)
                                    /\ IsScript(m) => m.s[2] <= c.cur
<1>1. c.pc \notin LatePhases /\ c.pc # "idle"
    BY DEF LatePhases, LoopPhases
<1>2. ~c.err /\ c.cmd \in {"migrate", "undo"} /\ (~c.dry => c.lock) /\ c \in Command
    BY <1>1 DEF Steady, Progress, Path, Locking, Story
<1>3. \A m \in MarksOf(c) : MarkOk(c, n, m) /\ Behind(c, m)
    BY DEF Steady, Story
<1> QED BY <1>1, <1>2, <1>3 DEF Behind, MarkOk

\* The loop over the scripts.
LEMMA NextScriptSteps ==
    ASSUME CommandAssumption, Steady(c, n), NEW y, At("loop"),
           \/ /\ MoreScripts(c)
              /\ y = [Goto(c, "eachBefore") EXCEPT !.todo = EachBefore(c.cmd), !.started = FALSE,
                                                   !.terminal = FALSE]
           \/ y = ToAfter(Failed(c))
           \/ ~MoreScripts(c) /\ y = ToAfter(c)
    PROVE  Steady(y, n)
<1>1. /\ ~c.err /\ c.cmd \in {"migrate", "undo"} /\ (~c.dry => c.lock) /\ c \in Command
      /\ \A m \in MarksOf(c) : m.ok /\ m.k # "footer" /\ ~IsError(m) /\ (IsScript(m) => m.s[2] <= c.cur)
    BY LoopIs DEF At, LoopPhases
<1>2. Closed(c) /\ ~c.jopen /\ Story(c, n)
    BY DEF Steady, Closed, At
<1>3. /\ \A m \in MarksOf(c) : IsScript(m) => m.s[2] < c.cur
      /\ Scripted(c) => Completed(c, c.cur - 1)
    BY DEF Steady, Behind, Progress, At
<1>4. CASE MoreScripts(c) /\ y = [Goto(c, "eachBefore") EXCEPT !.todo = EachBefore(c.cmd),
                                                   !.started = FALSE, !.terminal = FALSE]
  <2>1. EachBefore(c.cmd) \in Seq(RegularEvents)
    <3>1. \A a, b \in RegularEvents : <<a>> \in Seq(RegularEvents) /\ <<a, b>> \in Seq(RegularEvents)
        OBVIOUS
    <3>2. {"beforeEach", "beforeEachMigrate"} \subseteq RegularEvents
        BY DEF RegularEvents
    <3> QED BY <3>1, <3>2 DEF EachBefore
  <2>2. y = [c EXCEPT !.pc = "eachBefore", !.todo = EachBefore(c.cmd), !.started = FALSE,
                      !.terminal = FALSE]
      BY <1>1, <1>4 DEF Goto, Command
  <2>3. Moved(y) /\ y.pc = "eachBefore" /\ y.lock = c.lock /\ ~y.err /\ y.cur = c.cur
        /\ ~y.started /\ ~y.terminal
      BY <1>1, <1>2, <2>1, <2>2 DEF Moved, Command, Phases
  <2>4. Path(y) /\ Locking(y)
      BY <1>1, <2>3 DEF Path, Locking, LoopPhases, Moved
  <2>5. \A m \in MarksOf(c) : Behind(y, m) /\ (IsScript(m) => m.s[2] <= y.cur)
      BY <1>1, <1>3, <2>3 DEF Behind, LoopPhases
  <2>6. MarksOf(y) = MarksOf(c) /\ y.cmd = c.cmd
      BY <2>3 DEF Moved, MarksOf
  <2>7. Progress(y)
      BY <1>3, <1>4, <2>3, <2>6 DEF Progress, Scripted, Completed, MoreScripts
  <2> QED BY <2>3, <2>4, <2>5, <2>7, MovesSteady DEF At
<1>5. CASE y = ToAfter(Failed(c))
  <2>1. Flight(c) /\ Unfired(c)
      BY <1>1, <1>2 DEF Flight, Unfired
  <2>2. Flight(Failed(c)) /\ Failed(c).err /\ Failed(c).cmd = c.cmd /\ Failed(c).dry = c.dry
        /\ Failed(c).lock = c.lock
      BY <2>1, FailedFlies
  <2> QED BY <1>1, <1>5, <2>2, AfterLands
<1>6. CASE ~MoreScripts(c) /\ y = ToAfter(c)
  <2>1. AfterEvents(c.cmd) \in Seq(RegularEvents) /\ AfterEvents(c.cmd) # << >>
        /\ AfterEvents(c.cmd)[Len(AfterEvents(c.cmd))] = Closing(c.cmd)
      BY <1>1, AfterEventsIs
  <2>2. y = [c EXCEPT !.pc = "after", !.todo = AfterEvents(c.cmd)]
      BY <1>1, <1>6 DEF ToAfter, Goto, Command
  <2>3. Moved(y) /\ y.pc = "after" /\ y.lock = c.lock /\ ~y.err /\ y.cur = c.cur
        /\ y.todo = AfterEvents(c.cmd)
      BY <1>1, <1>2, <2>1, <2>2 DEF Moved, Command, Phases
  <2>4. Path(y) /\ Locking(y)
      BY <1>1, <2>3 DEF Path, Locking, LoopPhases, Moved
  <2>5. \A m \in MarksOf(c) : Behind(y, m) /\ (IsScript(m) => m.s[2] <= y.cur)
      BY <1>1, <2>3 DEF Behind, LatePhases
  <2>6. MarksOf(y) = MarksOf(c) /\ y.cmd = c.cmd
      BY <2>3 DEF Moved, MarksOf
  <2>7. c.cur - 1 = Scripts
      BY <1>1, <1>6 DEF MoreScripts, Command, CommandAssumption
  <2>8. Progress(y)
      BY <1>3, <2>1, <2>3, <2>6, <2>7 DEF Progress, Scripted, Completed
  <2> QED BY <2>3, <2>4, <2>5, <2>8, MovesSteady DEF At
<1> QED BY <1>4, <1>5, <1>6

\* A script that is done.
LEMMA ScriptDoneSteps ==
    ASSUME CommandAssumption, Steady(c, n), NEW y, At("eachAfter"),
           y = [Goto(c, "loop") EXCEPT !.cur = @ + 1]
    PROVE  Steady(y, n)
<1>1. /\ ~c.err /\ c.cmd \in {"migrate", "undo"} /\ (~c.dry => c.lock) /\ c \in Command
      /\ \A m \in MarksOf(c) : m.ok /\ m.k # "footer" /\ ~IsError(m) /\ (IsScript(m) => m.s[2] <= c.cur)
    BY LoopIs DEF At, LoopPhases
<1>2. ~c.jopen /\ c.cur <= Scripts /\ Completed(c, c.cur)
    BY DEF Steady, Closed, Progress, At
<1>3. c.cur \in Nat /\ c.cur + 1 \in 1..Scripts + 1 /\ (c.cur + 1) - 1 = c.cur
    BY <1>1, <1>2 DEF Command, CommandAssumption
<1>4. y = [c EXCEPT !.pc = "loop", !.cur = c.cur + 1]
    BY <1>1 DEF Goto, Command
<1>5. Moved(y) /\ y.pc = "loop" /\ y.lock = c.lock /\ ~y.err /\ y.cur = c.cur + 1
    BY <1>1, <1>2, <1>3, <1>4 DEF Moved, Command, Phases
<1>6. Path(y) /\ Locking(y)
    BY <1>1, <1>5 DEF Path, Locking, LoopPhases, Moved
<1>7. \A m \in MarksOf(c) : IsScript(m) => m.s[2] \in Nat
  <2> SUFFICES ASSUME NEW m \in MarksOf(c), IsScript(m) PROVE m.s[2] \in Nat
      OBVIOUS
  <2>1. m \in Mark
      BY <1>1 DEF MarksOf, Range, Command
  <2>2. m.s \in Keys
      BY <2>1 DEF Mark, IsScript, Started, Terminal
  <2> QED BY <2>2 DEF Keys
<1>8. \A m \in MarksOf(c) : Behind(y, m) /\ (IsScript(m) => m.s[2] <= y.cur)
    BY <1>1, <1>3, <1>5, <1>7 DEF Behind, LoopPhases
<1>9. MarksOf(y) = MarksOf(c) /\ y.cmd = c.cmd
    BY <1>5 DEF Moved, MarksOf
<1>10. Progress(y)
    BY <1>2, <1>3, <1>5, <1>9 DEF Progress, Scripted, Completed
<1> QED BY <1>5, <1>6, <1>8, <1>10, MovesSteady DEF At

\* What is left of a command that closed: it has fired its closing events or failed.
LEMMA LateMoves ==
    ASSUME Steady(c, n), c.pc \in {"after", "final", "release"}, NEW y, Moved(y), y.cur = c.cur,
           y.pc \in {"final", "release", "footer"}, ~y.err => ~c.err,
           c.pc = "after" /\ c.cmd \in {"migrate", "undo"} => c.todo = << >> \/ c.err,
           Path(y), Locking(y)
    PROVE  Steady(y, n)
<1>1. \A m \in MarksOf(c) : MarkOk(c, n, m) /\ Behind(c, m)
    BY DEF Steady, Story
<1>2. \A m \in MarksOf(c) : Behind(y, m) /\ (IsScript(m) => m.s[2] <= y.cur)
    BY <1>1 DEF Behind, MarkOk, LatePhases
<1>3. MarksOf(y) = MarksOf(c) /\ y.cmd = c.cmd
    BY DEF Moved, MarksOf
<1>4. ~c.err /\ Scripted(c) => Completed(c, Scripts) /\ HasClosed(c)
    BY DEF Steady, Progress, Scripted
<1>5. Progress(y)
    BY <1>3, <1>4 DEF Progress, Scripted, Completed, HasClosed, LatePhases
<1> QED BY <1>2, <1>5, MovesSteady

\* The end of the closing events.
LEMMA AfterDoneSteps ==
    ASSUME Steady(c, n), NEW y, At("after"), c.todo = << >> \/ SkipsAfter(c),
           y = CASE c.cmd = "migrate" -> Release(c, "final") [] c.cmd = "undo" -> Goto(c, "final")
                 [] OTHER -> Goto(c, "footer")
    PROVE  Steady(y, n)
<1>1. /\ c \in Command /\ ~c.jopen /\ c.cmd \in {"migrate", "undo", "clean", "validate"}
      /\ ~c.dry /\ c.cmd = "undo" => c.lock
      /\ c.cmd \in {"clean", "validate"} => ~c.lock
    BY DEF Steady, Story, Closed, Path, Locking, At
<1>2. \/ c.cmd = "migrate" /\ y = Release(c, "final")
      \/ c.cmd = "undo" /\ y = Goto(c, "final")
      \/ c.cmd \in {"clean", "validate"} /\ y = Goto(c, "footer")
    BY <1>1
<1>3. Moved(y) /\ y.cur = c.cur /\ y.err = c.err /\ y.lock = c.lock
    BY <1>1, <1>2 DEF Moved, Release, Goto, Command, Phases
<1>4. \/ c.cmd = "migrate" /\ y.pc = "release"
      \/ c.cmd = "undo" /\ y.pc = "final"
      \/ c.cmd \in {"clean", "validate"} /\ y.pc = "footer"
    BY <1>1, <1>2 DEF Release, Goto, Command
<1>5. Path(y) /\ Locking(y)
    BY <1>1, <1>3, <1>4 DEF Path, Locking, LoopPhases, Moved
<1> QED BY <1>3, <1>4, <1>5, LateMoves DEF At, SkipsAfter

\* The state for the report.
LEMMA FinalSteps ==
    ASSUME CommandAssumption, n \in 0..MaxRuns, Steady(c, n), NEW y, At("final"),
           \/ y = IF c.cmd = "undo" THEN Release(c, "footer") ELSE Goto(c, "footer")
           \/ IF c.cmd = "undo" THEN y \in Thrown(c, FALSE) ELSE y = Goto(Failed(c), "footer")
    PROVE  Steady(y, n)
<1>1. /\ c \in Command /\ ~c.jopen /\ c.cmd \in {"migrate", "mark", "undo"} /\ (c.cmd # "undo" => ~c.lock)
    BY DEF Steady, Story, Closed, Path, Locking, At
<1>2. CASE c.cmd = "undo" /\ y = Release(c, "footer")
  <2>1. Moved(y) /\ y.cur = c.cur /\ y.err = c.err /\ y.pc = "release" /\ y.next = "footer"
      BY <1>1, <1>2 DEF Moved, Release, Goto, Command, Phases
  <2>2. Path(y) /\ Locking(y)
      BY <1>2, <2>1 DEF Path, Locking, LoopPhases, Moved
  <2> QED BY <2>1, <2>2, LateMoves DEF At
<1>3. CASE c.cmd # "undo" /\ y \in {Goto(c, "footer"), Goto(Failed(c), "footer")}
  <2>1. Moved(y) /\ y.cur = c.cur /\ (~y.err => ~c.err) /\ y.pc = "footer" /\ ~y.lock
    <3>1. CASE y = Goto(c, "footer")
        BY <1>1, <1>3, <3>1 DEF Moved, Goto, Command, Phases
    <3>2. CASE y = Goto(Failed(c), "footer")
        BY <1>1, <1>3, <3>2 DEF Moved, Goto, Failed, Command, Phases
    <3> QED BY <1>3, <3>1, <3>2
  <2>2. Path(y) /\ Locking(y)
      BY <1>1, <1>3, <2>1 DEF Path, Locking, LoopPhases, Moved
  <2> QED BY <2>1, <2>2, LateMoves DEF At
<1>4. CASE c.cmd = "undo" /\ y \in Thrown(c, FALSE)
  <2>1. Throwable(c)
      BY <1>4, SteadyThrows DEF At, SkipsAfter
  <2> QED BY <1>4, <2>1, ThrownLands
<1> QED BY <1>2, <1>3, <1>4

\* The release.
LEMMA ReleaseSteps ==
    ASSUME Steady(c, n), NEW y, At("release"), y = [Goto(c, c.next) EXCEPT !.lock = FALSE]
    PROVE  Steady(y, n)
<1>1. /\ c \in Command /\ ~c.jopen /\ c.cmd \notin {"clean", "none"} /\ c.next \in {"final", "footer"}
      /\ c.next = "final" => c.cmd \in {"migrate", "mark"}
    BY DEF Steady, Story, Closed, Path, At, Command
<1>2. Moved(y) /\ y.cur = c.cur /\ y.err = c.err /\ y.pc = c.next /\ ~y.lock
    BY <1>1 DEF Moved, Goto, Command, Phases
<1>3. Path(y) /\ Locking(y)
    BY <1>1, <1>2 DEF Path, Locking, LoopPhases, Moved
<1> QED BY <1>1, <1>2, <1>3, LateMoves DEF At

\* A signal.
LEMMA InterruptSteps ==
    ASSUME Steady(c, n), NEW y, c.pc \notin {"idle", "dead"},
           y = [Goto(c, "dead") EXCEPT !.lock = FALSE]
    PROVE  Steady(y, n)
<1>1. c \in Command /\ Story(c, n)
    BY DEF Steady, Story
<1>2. /\ y \in Command /\ y.cmd = c.cmd /\ y.dry = c.dry /\ y.trace = c.trace /\ y.journal = c.journal
      /\ y.cur = c.cur /\ y.err = c.err /\ y.pc = "dead" /\ ~y.lock
    BY <1>1 DEF Goto, Command, Phases
<1>3. \A m \in MarksOf(c) : MarkOk(c, n, m) /\ Behind(c, m)
    BY DEF Steady, Story
<1>4. Story(y, n) /\ MarksOf(y) = MarksOf(c)
  <2>1. \A m \in MarksOf(c) : IsScript(m) => m.s[2] <= y.cur
      BY <1>2, <1>3 DEF MarkOk
  <2> QED BY ONLY <1>1, <1>2, <2>1, StoryMoves
<1>5. Path(y) /\ Locking(y)
    BY <1>2 DEF Path, Locking, LoopPhases
<1>6. \A m \in MarksOf(y) : Behind(y, m)
    BY <1>2, <1>3, <1>4 DEF Behind, LatePhases
<1>7. Progress(y)
    BY <1>2 DEF Progress, LatePhases
<1> QED BY <1>2, <1>4, <1>5, <1>6, <1>7 DEF Steady

\* The report.
LEMMA FooterSteps ==
    ASSUME Steady(c, n), NEW y, At("footer"), y = Noted(Goto(c, "idle"), "footer", c.cmd, ~c.err)
    PROVE  Steady(y, n)
<1> DEFINE m == [k |-> "footer", e |-> c.cmd, s |-> None, lock |-> c.lock, ok |-> ~c.err]
<1>1. c \in Command /\ Story(c, n) /\ Closed(c) /\ ~c.lock /\ c.cmd # "none"
    BY DEF Steady, Story, Locking, Path, At
<1>2. m \in Mark
    BY <1>1 DEF Mark, Command
<1>3. Append(c.trace, m) \in Seq(Mark)
    BY <1>1, <1>2, MarkAppended DEF Command
<1>4. y = [c EXCEPT !.pc = "idle", !.trace = Append(c.trace, m)]
    BY <1>1 DEF Noted, Goto, Command
<1>5. m.k = "footer" /\ ~m.lock /\ m.ok = ~c.err /\ ~Started(m) /\ ~Terminal(m) /\ ~IsScript(m) /\ ~IsError(m)
    BY <1>1 DEF Started, Terminal, IsScript, IsError
<1> HIDE DEF m
<1>6. /\ y \in Command /\ y.cmd = c.cmd /\ y.dry = c.dry /\ y.journal = c.journal /\ y.cur = c.cur
      /\ y.err = c.err /\ y.pc = "idle" /\ ~y.lock /\ y.jopen = c.jopen /\ y.trace = Append(c.trace, m)
    BY <1>1, <1>3, <1>4 DEF Command, Phases
<1>7. Story(y, n) /\ MarksOf(y) = MarksOf(c) \cup {m}
  <2>1. Sound(y.journal)
      BY <1>1, <1>6 DEF Story
  <2>2. LockedMark(c, m) /\ \A a \in MarksOf(c) : MayFollow(c.cmd, a, m)
      BY <1>5 DEF LockedMark, MayFollow
  <2>3. Grows(c, y, m, n)
      BY <1>1, <1>2, <1>5, <1>6, <2>1, <2>2 DEF Grows
  <2> QED BY <2>3, StoryGrows
<1>8. Closed(y)
    BY <1>1, <1>5, <1>6, <1>7 DEF Closed, Ends
<1>9. Path(y) /\ Locking(y)
    BY <1>6 DEF Path, Locking, LoopPhases
<1>10. \A a \in MarksOf(y) : Behind(y, a)
  <2>1. \A a \in MarksOf(c) : Behind(c, a)
      BY DEF Steady
  <2>2. \A a \in MarksOf(c) : Behind(y, a)
      BY <1>6, <2>1 DEF Behind, LatePhases, At
  <2>3. Behind(y, m)
      BY <1>5, <1>6 DEF Behind
  <2> QED BY <1>7, <2>2, <2>3
<1>11. Progress(y)
  <2>1. ~c.err /\ Scripted(c) => Completed(c, Scripts) /\ HasClosed(c)
      BY DEF Steady, Progress, Scripted, At
  <2>2. Scripted(y) => Scripted(c)
      BY <1>5, <1>6, <1>7 DEF Scripted
  <2> QED BY <1>6, <1>7, <2>1, <2>2 DEF Progress, Completed, HasClosed, LatePhases
<1> QED BY <1>6, <1>7, <1>8, <1>9, <1>10, <1>11 DEF Steady

\* One event's callbacks.
LEMMA Fires ==
    ASSUME Steady(c, n), c.pc \in {"before", "eachBefore", "eachAfter", "after"}, c.todo # << >>,
           ~SkipsAfter(c), NEW ok \in BOOLEAN
    PROVE  LET y == [Ran(c, Head(c.todo), ok) EXCEPT !.todo = Tail(@)]
               m == CallbackMark(c, Head(c.todo), ok)
           IN  /\ Story(y, n) /\ Closed(y) /\ y \in Command /\ MarksOf(y) = MarksOf(c) \cup {m}
               /\ Head(c.todo) \in RegularEvents /\ ~IsError(m) /\ ~IsScript(m) /\ ~Started(m)
               /\ m.k = "cb" /\ m.e = Head(c.todo) /\ m.ok = ok
               /\ y.cmd = c.cmd /\ y.dry = c.dry /\ y.cur = c.cur /\ y.lock = c.lock /\ y.err = c.err
               /\ y.pc = c.pc /\ y.next = c.next /\ y.started = c.started /\ y.terminal = c.terminal
               /\ y.todo = Tail(c.todo)
<1> DEFINE e == Head(c.todo)
           m == CallbackMark(c, e, ok)
           z == Ran(c, e, ok)
           y == [z EXCEPT !.todo = Tail(@)]
<1>1. c \in Command /\ Story(c, n) /\ Closed(c)
    BY DEF Steady, Story
<1>2. e \in RegularEvents /\ Tail(c.todo) \in Seq(RegularEvents)
  <2>1. c.todo \in Seq(RegularEvents)
      BY <1>1 DEF Command
  <2> QED BY <2>1
<1>3. m.k = "cb" /\ m.e = e /\ m.ok = ok /\ ~IsError(m) /\ ~IsScript(m) /\ ~Started(m)
  <2>1. m.k = "cb" /\ m.e = e /\ m.ok = ok
      BY DEF CallbackMark
  <2>2. e \notin ErrorEvents
      BY <1>2 DEF RegularEvents, ErrorEvents
  <2> QED BY <2>1, <2>2 DEF IsError, IsScript, Started, Terminal
<1>4. \A a \in MarksOf(c) : ~IsError(a)
    BY DEF Steady, Behind, LatePhases, SkipsAfter
<1>5. ~c.dry /\ c.cmd \in {"migrate", "undo"} => c.lock
    BY DEF Steady, Locking, LoopPhases
<1>6. Story(z, n) /\ Closed(z) /\ Alike(c, z) /\ MarksOf(z) = MarksOf(c) \cup {m}
    BY <1>1, <1>2, <1>4, <1>5, CallbackTold
<1> HIDE DEF z, m
<1>7. y \in Command
    BY <1>1, <1>2, <1>6 DEF Alike, Command
<1>8. /\ y.cmd = z.cmd /\ y.dry = z.dry /\ y.cur = z.cur /\ y.lock = z.lock /\ y.err = z.err
      /\ y.pc = z.pc /\ y.next = z.next /\ y.started = z.started /\ y.terminal = z.terminal
      /\ y.todo = Tail(z.todo) /\ y.trace = z.trace /\ y.journal = z.journal /\ y.jopen = z.jopen
    BY <1>6 DEF Alike, Command
<1> HIDE DEF y
<1>9. Story(y, n) /\ Closed(y) /\ MarksOf(y) = MarksOf(z)
  <2>1. \A a \in MarksOf(z) : IsScript(a) => a.s[2] <= y.cur
      BY <1>6, <1>8 DEF Story, MarkOk
  <2>2. ~y.jopen
      BY <1>6, <1>8 DEF Closed
  <2> QED BY ONLY <1>6, <1>7, <1>8, <2>1, <2>2, StoryMoves
<1>10. /\ y.cmd = c.cmd /\ y.dry = c.dry /\ y.cur = c.cur /\ y.lock = c.lock /\ y.err = c.err
       /\ y.pc = c.pc /\ y.next = c.next /\ y.started = c.started /\ y.terminal = c.terminal
       /\ y.todo = Tail(c.todo)
    BY <1>6, <1>8 DEF Alike
<1> QED BY <1>2, <1>3, <1>6, <1>7, <1>9, <1>10 DEF y, z, m

\* Events that fire, fail or cannot be read.
FireOutcome(y) ==
  \/ y = [Ran(c, Head(c.todo), TRUE) EXCEPT !.todo = Tail(@)]
  \/ \E refusal \in BOOLEAN :
       y \in Thrown([Ran(c, Head(c.todo), FALSE) EXCEPT !.todo = Tail(@)], refusal)
  \/ y \in Thrown(c, FALSE)

\* Each outcome of an event lands in a steady state.
LEMMA FireSteps ==
    ASSUME CommandAssumption, n \in 0..MaxRuns, Steady(c, n), NEW y, FireOutcome(y),
           c.pc \in {"before", "eachBefore", "eachAfter", "after"}, c.todo # << >>, ~SkipsAfter(c)
    PROVE  Steady(y, n)
<1>1. CASE y = [Ran(c, Head(c.todo), TRUE) EXCEPT !.todo = Tail(@)]
  <2> DEFINE m == CallbackMark(c, Head(c.todo), TRUE)
  <2>1. /\ Story(y, n) /\ Closed(y) /\ y \in Command /\ MarksOf(y) = MarksOf(c) \cup {m}
        /\ ~IsError(m) /\ ~IsScript(m) /\ ~Started(m) /\ m.k = "cb" /\ m.e = Head(c.todo) /\ m.ok
        /\ y.cmd = c.cmd /\ y.dry = c.dry /\ y.cur = c.cur /\ y.lock = c.lock /\ y.err = c.err
        /\ y.pc = c.pc /\ y.next = c.next /\ y.started = c.started /\ y.terminal = c.terminal
        /\ y.todo = Tail(c.todo)
      BY <1>1, Fires
  <2> HIDE DEF m
  <2>2. Path(y) /\ Locking(y)
      BY <2>1 DEF Steady, Path, Locking
  <2>3. \A a \in MarksOf(y) : Behind(y, a)
    <3>1. \A a \in MarksOf(c) : Behind(c, a)
        BY DEF Steady
    <3>2. \A a \in MarksOf(c) : Behind(y, a)
        BY <2>1, <3>1 DEF Behind
    <3>3. Behind(y, m)
        BY <2>1 DEF Behind
    <3> QED BY <2>1, <3>2, <3>3
  <2>4. Progress(y)
    <3>1. Progress(c)
        BY DEF Steady
    <3>2. (Scripted(y) => Scripted(c)) /\ \A k : Completed(c, k) => Completed(y, k)
        BY <2>1 DEF Scripted, Completed
    <3>3. ~c.err /\ c.pc = "after" /\ Scripted(c) =>
            IF Tail(c.todo) = << >> THEN HasClosed(y)
            ELSE Tail(c.todo)[Len(Tail(c.todo))] = Closing(c.cmd)
      <4> SUFFICES ASSUME ~c.err, c.pc = "after", Scripted(c)
                   PROVE  IF Tail(c.todo) = << >> THEN HasClosed(y)
                          ELSE Tail(c.todo)[Len(Tail(c.todo))] = Closing(c.cmd)
          OBVIOUS
      <4>1. c.todo[Len(c.todo)] = Closing(c.cmd)
          BY <3>1 DEF Progress
      <4>2. c.todo \in Seq(RegularEvents)
          BY DEF Steady, Story, Command
      <4>3. CASE Tail(c.todo) = << >>
        <5>a. Len(Tail(c.todo)) = Len(c.todo) - 1 /\ Head(c.todo) = c.todo[1] /\ Len(c.todo) \in Nat
            BY <4>2
        <5>b. Len(Tail(c.todo)) = 0
          <6>1. Len(<< >>) = 0
              OBVIOUS
          <6> QED BY ONLY <4>3, <6>1
        <5>1. Len(c.todo) = 1 /\ Head(c.todo) = c.todo[1]
            BY <5>a, <5>b
        <5>2. m.k = "cb" /\ m.e = Closing(y.cmd) /\ m \in MarksOf(y)
            BY <2>1, <4>1, <5>1
        <5> QED BY <4>3, <5>2 DEF HasClosed
      <4>4. CASE Tail(c.todo) # << >>
        <5>1. Tail(c.todo)[Len(Tail(c.todo))] = c.todo[Len(c.todo)]
            BY <4>2, <4>4
        <5> QED BY <4>1, <4>4, <5>1
      <4> QED BY <4>3, <4>4
    <3> QED BY <2>1, <3>1, <3>2, <3>3 DEF Progress
  <2> QED BY <2>1, <2>2, <2>3, <2>4 DEF Steady
<1>2. CASE \E refusal \in BOOLEAN :
             y \in Thrown([Ran(c, Head(c.todo), FALSE) EXCEPT !.todo = Tail(@)], refusal)
  <2> DEFINE z == [Ran(c, Head(c.todo), FALSE) EXCEPT !.todo = Tail(@)]
             m == CallbackMark(c, Head(c.todo), FALSE)
  <2>1. /\ Story(z, n) /\ Closed(z) /\ z \in Command /\ MarksOf(z) = MarksOf(c) \cup {m}
        /\ ~IsError(m) /\ m.k = "cb"
        /\ z.cmd = c.cmd /\ z.dry = c.dry /\ z.cur = c.cur /\ z.lock = c.lock
        /\ z.pc = c.pc /\ z.started = c.started /\ z.terminal = c.terminal
      BY Fires
  <2>2. PICK refusal \in BOOLEAN : y \in Thrown(z, refusal)
      BY <1>2
  <2> HIDE DEF z, m
  <2>3. Throwable(c)
      BY SteadyThrows
  <2>4. CASE c.pc \in {"eachBefore", "eachAfter"}
    <3>1. Working(c) /\ ~(c.started /\ ~c.terminal)
      <4>1. ~(c.started /\ ~c.terminal)
          BY <2>4 DEF Steady, Progress
      <4> QED BY <2>3, <2>4, <4>1 DEF Throwable, Running
    <3>2. Running(z)
        BY <2>1, <3>1 DEF Running, Working
    <3> QED BY <2>1, <2>2, <2>4, <3>2, ThrownLands DEF Throwable
  <2>5. CASE c.pc \in {"before", "after"}
    <3>1. Flight(z) /\ Unfired(z)
        BY <2>1, <2>3, <2>5 DEF Throwable, Flight, Unfired
    <3> QED BY <2>1, <2>2, <2>5, <3>1, ThrownLands DEF Throwable
  <2> QED BY <2>4, <2>5
<1>3. CASE y \in Thrown(c, FALSE)
  <2>1. Throwable(c)
      BY SteadyThrows
  <2> QED BY <1>3, <2>1, ThrownLands
<1> QED BY <1>1, <1>2, <1>3 DEF FireOutcome

\* A script that starts is the one under way, in the events and in the journal.
LEMMA Begins ==
    ASSUME CommandAssumption, n \in 0..MaxRuns, Steady(c, n), NEW y, At("eachBefore"),
           y = Told([Goto(c, "exec") EXCEPT !.journal = StartMigration(@, Key(c)),
                                            !.jopen = TRUE, !.started = TRUE], "started", TRUE)
    PROVE  Steady(y, n)
<1> DEFINE z == [Goto(c, "exec") EXCEPT !.journal = StartMigration(@, Key(c)),
                                        !.jopen = TRUE, !.started = TRUE]
           m == ScriptMark(c, "started", TRUE)
<1>1. /\ ~c.err /\ c.cmd \in {"migrate", "undo"} /\ (~c.dry => c.lock) /\ c \in Command
      /\ \A a \in MarksOf(c) : a.ok /\ a.k # "footer" /\ ~IsError(a)
    BY LoopIs DEF At, LoopPhases
<1>2. /\ c.cur <= Scripts /\ ~c.terminal /\ Closed(c) /\ Story(c, n) /\ c.cur \in Nat
      /\ \A a \in MarksOf(c) : IsScript(a) => a.s[2] < c.cur
    BY <1>1 DEF Steady, Progress, Behind, At, Command, CommandAssumption
<1>3. Key(c) \in Keys /\ m \in Mark
    BY <1>1, <1>2, ToldIs
<1>4. /\ Journalled(c.journal, StartMigration(c.journal, Key(c)), Key(c))
      /\ StartMigration(c.journal, Key(c)).current = Key(c)
    BY <1>1, <1>2, <1>3, StartJournals DEF Story, Command
<1>5. z \in Command
    BY <1>1, <1>4 DEF Goto, Command, Phases, Journalled
<1>6. /\ z.cmd = c.cmd /\ z.dry = c.dry /\ z.cur = c.cur /\ z.lock = c.lock /\ z.err = c.err
      /\ z.pc = "exec" /\ z.jopen /\ z.started /\ ~z.terminal /\ z.trace = c.trace
      /\ z.journal = StartMigration(c.journal, Key(c))
    BY <1>1, <1>2 DEF Goto, Command
<1> HIDE DEF z
<1>7. ScriptMark(z, "started", TRUE) = m
    BY <1>6 DEF ScriptMark, Key
<1>8. Alike(z, y) /\ y.trace = Append(c.trace, m)
  <2>1. z.cur <= Scripts /\ y = Told(z, "started", TRUE)
      BY <1>2, <1>6 DEF z
  <2> QED BY <1>5, <1>6, <1>7, <2>1, ToldIs
<1>9. m.k = "started" /\ m.s = Key(c) /\ m.lock = c.lock /\ m.ok
      /\ Started(m) /\ ~Terminal(m) /\ IsScript(m) /\ ~IsError(m)
    BY DEF ScriptMark, Started, Terminal, IsScript, IsError
<1> HIDE DEF m
<1>10. Key(c) = <<Kind(c), c.cur>>
    BY DEF Key, Kind
<1>11. \A a \in MarksOf(c) : IsScript(a) => a.s # Key(c)
  <2> SUFFICES ASSUME NEW a \in MarksOf(c), IsScript(a) PROVE a.s # Key(c)
      OBVIOUS
  <2>1. a.s[2] < c.cur
      BY <1>2
  <2>2. Key(c)[2] = c.cur
      BY <1>10
  <2> QED BY <1>2, <2>1, <2>2
<1>12. \A a \in MarksOf(c) : Terminal(a) => y.journal.of[a.s] = c.journal.of[a.s]
  <2> SUFFICES ASSUME NEW a \in MarksOf(c), Terminal(a) PROVE y.journal.of[a.s] = c.journal.of[a.s]
      OBVIOUS
  <2>1. a \in Mark
      BY <1>1 DEF MarksOf, Range, Command
  <2>2. a.s \in Keys /\ a.s # Key(c)
      BY <1>11, <2>1 DEF Mark, Terminal, IsScript
  <2>3. y.journal = StartMigration(c.journal, Key(c))
      BY <1>6, <1>8 DEF Alike
  <2> QED BY ONLY <1>4, <2>2, <2>3 DEF Journalled
<1>13. Grows(c, y, m, n)
  <2>1. Sound(y.journal) /\ y \in Command /\ y.cmd = c.cmd /\ y.dry = c.dry /\ y.cur = c.cur
      BY <1>4, <1>6, <1>8 DEF Alike, Journalled
  <2>2. \A a \in MarksOf(c) : MayFollow(c.cmd, a, m)
      BY <1>1, <1>9, <1>11 DEF MayFollow, IsScript
  <2>3. LockedMark(c, m)
      BY <1>1, <1>9 DEF LockedMark
  <2>4. m.s[1] = Kind(c) /\ m.s[2] <= c.cur
      BY <1>2, <1>9, <1>10
  <2> QED BY <1>2, <1>3, <1>8, <1>9, <1>12, <2>1, <2>2, <2>3, <2>4 DEF Grows
<1>14. Story(y, n) /\ MarksOf(y) = MarksOf(c) \cup {m}
    BY ONLY <1>13, StoryGrows
<1>15. /\ y.cmd = c.cmd /\ y.dry = c.dry /\ y.cur = c.cur /\ y.lock = c.lock /\ y.err = c.err
       /\ y.pc = "exec" /\ y.jopen /\ y.started /\ ~y.terminal /\ y.journal.current = Key(c)
       /\ Key(y) = Key(c)
  <2>1. /\ y.cmd = c.cmd /\ y.dry = c.dry /\ y.cur = c.cur /\ y.lock = c.lock /\ y.err = c.err
        /\ y.pc = "exec" /\ y.jopen /\ y.started /\ ~y.terminal
      BY ONLY <1>6, <1>8 DEF Alike
  <2>2. y.journal.current = Key(c)
      BY ONLY <1>4, <1>6, <1>8 DEF Alike
  <2> QED BY ONLY <2>1, <2>2 DEF Key
<1>16. Open(y)
  <2>1. Starts(y, Key(c)) /\ ~Ends(y, Key(c))
      BY <1>9, <1>11, <1>14 DEF Starts, Ends, IsScript
  <2>2. \A a \in MarksOf(y) : Started(a) /\ a.s # Key(c) => Ends(y, a.s)
      BY <1>2, <1>9, <1>14 DEF Closed, Ends
  <2> QED BY <1>2, <1>15, <2>1, <2>2 DEF Open
<1>17. Path(y) /\ Locking(y)
    BY <1>1, <1>15 DEF Path, Locking, LoopPhases
<1>18. \A a \in MarksOf(y) : Behind(y, a)
    BY <1>1, <1>9, <1>14, <1>15 DEF Behind, LoopPhases
<1>19. Progress(y)
    BY <1>1, <1>2, <1>15 DEF Progress
<1> QED BY <1>14, <1>15, <1>16, <1>17, <1>18, <1>19 DEF Steady

\* A script starts, or a registered check refuses it.
LEMMA StartSteps ==
    ASSUME CommandAssumption, n \in 0..MaxRuns, Steady(c, n), NEW y, At("eachBefore"),
           \/ y = Told([Goto(c, "exec") EXCEPT !.journal = StartMigration(@, Key(c)),
                                               !.jopen = TRUE, !.started = TRUE], "started", TRUE)
           \/ y \in Thrown(c, TRUE)
    PROVE  Steady(y, n)
<1>1. CASE y \in Thrown(c, TRUE)
  <2>1. Throwable(c)
      BY SteadyThrows DEF At, SkipsAfter
  <2> QED BY <1>1, <2>1, ThrownLands
<1> QED BY <1>1, Begins

\* What the statements of a script do to the journal is its own, and leaves the story.
LEMMA StoryJournals ==
    ASSUME CommandAssumption, Steady(c, n), At("exec"),
           NEW j, Journalled(c.journal, j, Key(c)), j.current = Key(c)
    PROVE  Throwable([c EXCEPT !.journal = j])
<1> DEFINE z == [c EXCEPT !.journal = j]
<1>1. /\ ~c.err /\ c.cmd \in {"migrate", "undo"} /\ (~c.dry => c.lock) /\ c \in Command
      /\ \A a \in MarksOf(c) : a.ok /\ a.k # "footer" /\ ~IsError(a)
    BY LoopIs DEF At, LoopPhases
<1>2. Open(c) /\ Story(c, n)
    BY DEF Steady, At
<1>3. z \in Command
    BY <1>1 DEF Command, Journalled
<1>4. /\ z.cmd = c.cmd /\ z.dry = c.dry /\ z.cur = c.cur /\ z.lock = c.lock /\ z.pc = c.pc
      /\ z.jopen = c.jopen /\ z.started = c.started /\ z.terminal = c.terminal
      /\ z.trace = c.trace /\ z.journal = j
    BY <1>1 DEF Command
<1> HIDE DEF z
<1>5. MarksOf(z) = MarksOf(c) /\ Key(z) = Key(c)
    BY <1>4 DEF MarksOf, Key
<1>6. \A a \in MarksOf(z) : MarkOk(z, n, a)
  <2> SUFFICES ASSUME NEW a \in MarksOf(c) PROVE MarkOk(z, n, a)
      BY <1>5
  <2>1. MarkOk(c, n, a)
      BY <1>2 DEF Story
  <2>2. LockedMark(z, a) /\ (IsScript(a) => a.s[1] = Kind(z) /\ a.s[2] <= z.cur)
      BY <1>4, <2>1 DEF MarkOk, LockedMark, Kind
  <2>3. Terminal(a) => Starts(z, a.s)
      BY <1>5, <2>1 DEF MarkOk, Starts
  <2>4. Terminal(a) => EndOf(z.journal, a, n)
    <3> SUFFICES ASSUME Terminal(a) PROVE EndOf(z.journal, a, n)
        OBVIOUS
    <3>1. a \in Mark
        BY <1>1 DEF MarksOf, Range, Command
    <3>2. a.s \in Keys
        BY <3>1 DEF Mark, Terminal
    <3>3. a.s # Key(c)
        BY <1>2 DEF Open, Ends
    <3>4. z.journal.of[a.s] = c.journal.of[a.s]
        BY <1>4, <3>2, <3>3 DEF Journalled
    <3> QED BY <2>1, <3>4 DEF MarkOk, EndOf
  <2> QED BY <2>2, <2>3, <2>4 DEF MarkOk
<1>7. Story(z, n)
    BY <1>2, <1>3, <1>4, <1>6 DEF Story, Ordered, Journalled
<1>8. Open(z)
    BY <1>2, <1>4, <1>5 DEF Open, Starts, Ends
<1>9. Running(z)
    BY <1>1, <1>4, <1>5, <1>7, <1>8 DEF Running, Working
<1> QED BY <1>4, <1>9 DEF Throwable, At, z

\* The engine ran the script under way: what its statements do to the journal.
LEMMA EngineRuns ==
    ASSUME CommandAssumption, n \in 0..MaxRuns, Steady(c, n), At("exec"),
           NEW k \in 0..Stmts, NEW fails \in BOOLEAN, fails => k < Stmts
    PROVE  /\ Journalled(c.journal, RecordScript(c.journal, k, fails), Key(c))
           /\ RecordScript(c.journal, k, fails).current = Key(c)
<1>1. c.journal \in Journal /\ Sound(c.journal) /\ c.journal.current = Key(c) /\ Key(c) \in Keys
  <2>1. c \in Command /\ Sound(c.journal) /\ Open(c)
      BY DEF Steady, Story, At
  <2> QED BY <2>1, ToldIs DEF Open, Command
<1> QED BY <1>1, ScriptJournals

\* A script that completed.
LEMMA CompletedSteps ==
    ASSUME CommandAssumption, n \in 0..MaxRuns, Steady(c, n), NEW y, At("exec"),
           LET done == [c EXCEPT !.jopen = FALSE, !.terminal = TRUE,
                        !.journal = EndMigration(RecordScript(@, Stmts, FALSE), Key(c), TRUE)]
           IN  y = [Told(Goto(done, "eachAfter"), "completed", TRUE) EXCEPT !.todo = EachAfter(c.cmd)]
    PROVE  Steady(y, n)
<1> DEFINE j == RecordScript(c.journal, Stmts, FALSE)
           j2 == EndMigration(j, Key(c), TRUE)
           done == [c EXCEPT !.jopen = FALSE, !.terminal = TRUE, !.journal = j2]
           z == Goto(done, "eachAfter")
           t == Told(z, "completed", TRUE)
           m == ScriptMark(c, "completed", TRUE)
<1>1. /\ ~c.err /\ c.cmd \in {"migrate", "undo"} /\ (~c.dry => c.lock) /\ c \in Command
      /\ \A a \in MarksOf(c) : a.ok /\ a.k # "footer" /\ ~IsError(a)
    BY LoopIs DEF At, LoopPhases
<1>2. Open(c) /\ Story(c, n) /\ Key(c) \in Keys /\ c.cur <= Scripts
  <2>1. Open(c) /\ Story(c, n)
      BY DEF Steady, At
  <2> QED BY <1>1, <2>1, ToldIs DEF Open
<1>3. Journalled(c.journal, j, Key(c)) /\ j.current = Key(c)
  <2>1. Stmts \in 0..Stmts
      BY DEF CommandAssumption
  <2> QED BY <2>1, EngineRuns
<1> HIDE DEF j
<1>4. j2 \in Journal
  <2>1. j \in Journal /\ Sound(j)
      BY <1>3 DEF Journalled
  <2> QED BY ONLY CommandAssumption, n \in 0..MaxRuns, <1>2, <1>3, <2>1, EndJournals DEF Journalled
<1> HIDE DEF j2
<1>5. z = [c EXCEPT !.jopen = FALSE, !.terminal = TRUE, !.journal = j2, !.pc = "eachAfter"]
    BY <1>1 DEF Goto, Command
<1>6. z \in Command
    BY ONLY <1>1, <1>4, <1>5 DEF Command, Phases
<1>7. /\ z.cmd = c.cmd /\ z.dry = c.dry /\ z.cur = c.cur /\ z.lock = c.lock /\ z.err = c.err
      /\ z.pc = "eachAfter" /\ ~z.jopen /\ z.terminal /\ z.trace = c.trace /\ z.journal = j2
    BY <1>1, <1>5 DEF Command
<1>8. y = [t EXCEPT !.todo = EachAfter(c.cmd)]
    BY DEF j, j2
<1> HIDE DEF z
<1>9. Alike(z, t) /\ t.trace = Append(c.trace, m)
  <2>1. ScriptMark(z, "completed", TRUE) = m
      BY <1>7 DEF ScriptMark, Key
  <2> QED BY <1>2, <1>6, <1>7, <2>1, ToldIs
<1> HIDE DEF t
<1>10. EachAfter(c.cmd) \in Seq(RegularEvents)
  <2>1. \A a, b \in RegularEvents : <<a>> \in Seq(RegularEvents) /\ <<a, b>> \in Seq(RegularEvents)
      OBVIOUS
  <2>2. {"afterEachMigrate", "afterEach"} \subseteq RegularEvents
      BY DEF RegularEvents
  <2> QED BY <2>1, <2>2 DEF EachAfter
<1>11. y \in Command
    BY <1>8, <1>9, <1>10 DEF Alike, Command
<1>12. /\ y.cmd = t.cmd /\ y.dry = t.dry /\ y.cur = t.cur /\ y.lock = t.lock /\ y.err = t.err
       /\ y.pc = t.pc /\ y.jopen = t.jopen /\ y.terminal = t.terminal /\ y.trace = t.trace
       /\ y.journal = t.journal
    BY <1>8, <1>9 DEF Alike, Command
<1>13. /\ y.cmd = c.cmd /\ y.dry = c.dry /\ y.cur = c.cur /\ y.lock = c.lock /\ y.err = c.err
       /\ y.pc = "eachAfter" /\ ~y.jopen /\ y.terminal /\ y.trace = Append(c.trace, m)
       /\ y.journal = EndMigration(j, Key(c), TRUE)
    BY <1>7, <1>9, <1>12 DEF Alike, j2
<1>14. m = ScriptMark(c, "completed", TRUE)
    OBVIOUS
<1>15. m.k = "completed" /\ m.s[2] = c.cur /\ m.ok /\ ~IsError(m) /\ IsScript(m) /\ m.k # "footer"
       /\ ~Started(m)
    BY DEF ScriptMark, Key, IsError, IsScript, Started, Terminal
<1> HIDE DEF m
<1>16. Story(y, n) /\ Closed(y) /\ MarksOf(y) = MarksOf(c) \cup {m}
  <2>1. Story(c, n) /\ Open(c) /\ (\A a \in MarksOf(c) : ~IsError(a)) /\ (~c.dry => c.lock)
      BY <1>1, <1>2
  <2>2. y.trace = Append(c.trace, ScriptMark(c, "completed", TRUE))
      BY <1>13, <1>14
  <2>3. /\ Story(y, n) /\ Closed(y)
        /\ MarksOf(y) = MarksOf(c) \cup {ScriptMark(c, "completed", TRUE)}
      BY ONLY CommandAssumption, n \in 0..MaxRuns, <1>3, <1>11, <1>13, <2>1, <2>2, ScriptEnds
  <2> QED BY <1>14, <2>3
<1>17. Path(y) /\ Locking(y)
    BY <1>1, <1>13 DEF Path, Locking, LoopPhases
<1>18. \A a \in MarksOf(y) : Behind(y, a)
    BY <1>1, <1>13, <1>15, <1>16 DEF Behind, LoopPhases
<1>19. Progress(y)
    BY <1>1, <1>2, <1>13, <1>15, <1>16 DEF Progress, Completed
<1> QED BY <1>13, <1>16, <1>17, <1>18, <1>19 DEF Steady

\* A script whose failure the engine put on the result.
LEMMA EngineFailedSteps ==
    ASSUME CommandAssumption, n \in 0..MaxRuns, Steady(c, n), NEW y, At("exec"),
           NEW k \in 0..Stmts - 1,
           LET x == EngineFailed([Failed(c) EXCEPT
                      !.journal = EndMigration(RecordScript(@, k, TRUE), Key(c), FALSE)])
           IN  \E f \in FireError(x) : y \in (IF f.raised THEN Raises(f.to, FALSE) ELSE {ToAfter(f.to)})
    PROVE  Steady(y, n)
<1> DEFINE j == RecordScript(c.journal, k, TRUE)
           j2 == EndMigration(j, Key(c), FALSE)
           w == [Failed(c) EXCEPT !.journal = EndMigration(RecordScript(@, k, TRUE), Key(c), FALSE)]
           z == [w EXCEPT !.jopen = FALSE, !.terminal = TRUE]
           x == Told(z, "failed", FALSE)
           m == ScriptMark(c, "failed", FALSE)
<1>1. PICK f \in FireError(EngineFailed(w)) :
        y \in (IF f.raised THEN Raises(f.to, FALSE) ELSE {ToAfter(f.to)})
    OBVIOUS
<1>2. EngineFailed(w) = x
    BY DEF EngineFailed
<1>3. /\ ~c.err /\ c.cmd \in {"migrate", "undo"} /\ (~c.dry => c.lock) /\ c \in Command
      /\ \A a \in MarksOf(c) : a.ok /\ a.k # "footer" /\ ~IsError(a)
    BY LoopIs DEF At, LoopPhases
<1>4. Open(c) /\ Story(c, n) /\ Key(c) \in Keys /\ c.cur <= Scripts
  <2>1. Open(c) /\ Story(c, n)
      BY DEF Steady, At
  <2> QED BY <1>3, <2>1, ToldIs DEF Open
<1>5. Journalled(c.journal, j, Key(c)) /\ j.current = Key(c)
  <2>1. k \in 0..Stmts /\ k < Stmts
      BY DEF CommandAssumption
  <2> QED BY <2>1, EngineRuns
<1>6. w = [c EXCEPT !.err = TRUE, !.journal = j2]
    BY <1>3 DEF Failed, Command
<1> HIDE DEF j
<1>7. j2 \in Journal
  <2>1. j \in Journal /\ Sound(j)
      BY <1>5 DEF Journalled
  <2> QED BY ONLY CommandAssumption, n \in 0..MaxRuns, <1>4, <1>5, <2>1, EndJournals DEF Journalled
<1> HIDE DEF j2, w
<1>8. w \in Command
    BY <1>3, <1>6, <1>7 DEF Command
<1>9. z \in Command
    BY <1>8 DEF Command
<1>10. /\ z.cmd = c.cmd /\ z.dry = c.dry /\ z.cur = c.cur /\ z.lock = c.lock /\ z.err
       /\ ~z.jopen /\ z.trace = c.trace /\ z.journal = j2
  <2>1. /\ w.cmd = c.cmd /\ w.dry = c.dry /\ w.cur = c.cur /\ w.lock = c.lock /\ w.err
        /\ w.trace = c.trace /\ w.journal = j2
      BY <1>3, <1>6 DEF Command
  <2> QED BY <1>8, <2>1 DEF Command
<1> HIDE DEF z
<1>11. Alike(z, x) /\ x.trace = Append(c.trace, m)
  <2>1. ScriptMark(z, "failed", FALSE) = m
      BY <1>10 DEF ScriptMark, Key
  <2> QED BY <1>4, <1>9, <1>10, <2>1, ToldIs
<1>12. /\ x \in Command /\ x.cmd = c.cmd /\ x.dry = c.dry /\ x.cur = c.cur /\ x.lock = c.lock /\ x.err
       /\ ~x.jopen /\ x.trace = Append(c.trace, m) /\ x.journal = EndMigration(j, Key(c), FALSE)
    BY <1>10, <1>11 DEF Alike, j2
<1> HIDE DEF x
<1>13. Story(x, n) /\ Closed(x) /\ MarksOf(x) = MarksOf(c) \cup {m}
  <2>1. Story(c, n) /\ Open(c) /\ (\A a \in MarksOf(c) : ~IsError(a)) /\ (~c.dry => c.lock)
      BY <1>3, <1>4
  <2>2. m = ScriptMark(c, "failed", FALSE)
      OBVIOUS
  <2>3. x.trace = Append(c.trace, ScriptMark(c, "failed", FALSE))
      BY <1>12, <2>2
  <2>4. /\ x \in Command /\ x.cmd = c.cmd /\ x.dry = c.dry /\ x.cur = c.cur /\ ~x.jopen
        /\ x.journal = EndMigration(j, Key(c), FALSE)
      BY <1>12
  <2>5. /\ Story(x, n) /\ Closed(x)
        /\ MarksOf(x) = MarksOf(c) \cup {ScriptMark(c, "failed", FALSE)}
      BY ONLY CommandAssumption, n \in 0..MaxRuns, <1>5, <2>1, <2>3, <2>4, ScriptEnds
  <2> QED BY <2>2, <2>5
<1>14. m.k # "footer" /\ ~IsError(m)
    BY DEF ScriptMark, IsError
<1> HIDE DEF m
<1>15. Flight(x) /\ Unfired(x)
    BY <1>3, <1>12, <1>13, <1>14 DEF Flight, Unfired
<1>16. Flight(f.to) /\ Alike(x, f.to) /\ (f.raised => f.to = x)
    BY <1>1, <1>2, <1>15, ErrorFires
<1>17. CASE f.raised
    BY <1>1, <1>15, <1>16, <1>17, RaisesLands
<1>18. CASE ~f.raised
  <2>1. y = ToAfter(f.to) /\ f.to.err /\ f.to.cmd \in {"migrate", "undo"} /\ (~f.to.dry => f.to.lock)
      BY <1>1, <1>3, <1>12, <1>16, <1>18 DEF Alike
  <2> QED BY <1>16, <2>1, AfterLands
<1> QED BY <1>17, <1>18

\* The engine's run of a script.
LEMMA ExecuteSteps ==
    ASSUME CommandAssumption, n \in 0..MaxRuns, Steady(c, n), ExecuteMigration
    PROVE  Steady(c', n) /\ n' = n
<1>1. At("exec")
    BY DEF ExecuteMigration
<1>2. CASE LET done == [c EXCEPT !.jopen = FALSE, !.terminal = TRUE,
                        !.journal = EndMigration(RecordScript(@, Stmts, FALSE), Key(c), TRUE)]
           IN  Step([Told(Goto(done, "eachAfter"), "completed", TRUE) EXCEPT !.todo = EachAfter(c.cmd)])
    BY <1>1, <1>2, CompletedSteps DEF Step
<1>3. CASE \E k \in 0..Stmts - 1 :
             LET x == EngineFailed([Failed(c) EXCEPT
                        !.journal = EndMigration(RecordScript(@, k, TRUE), Key(c), FALSE)])
             IN  \E f \in FireError(x) :
                   \E y \in (IF f.raised THEN Raises(f.to, FALSE) ELSE {ToAfter(f.to)}) : Step(y)
    BY <1>1, <1>3, EngineFailedSteps DEF Step
<1>4. CASE \E x \in Thrown([c EXCEPT !.journal = RecordScript(@, Stmts, FALSE)], FALSE) : Step(x)
  <2> DEFINE z == [c EXCEPT !.journal = RecordScript(@, Stmts, FALSE)]
  <2>1. Stmts \in 0..Stmts
      BY DEF CommandAssumption
  <2>2. Journalled(c.journal, RecordScript(c.journal, Stmts, FALSE), Key(c))
        /\ RecordScript(c.journal, Stmts, FALSE).current = Key(c)
      BY <1>1, <2>1, EngineRuns
  <2>3. Throwable(z)
      BY <1>1, <2>2, StoryJournals
  <2>4. PICK x \in Thrown(z, FALSE) : Step(x)
      BY <1>4
  <2> HIDE DEF z
  <2> QED BY <2>3, <2>4, ThrownLands DEF Step
<1>5. CASE Throws(TRUE)
  <2>1. Throwable(c)
      BY <1>1, SteadyThrows DEF At, SkipsAfter
  <2> QED BY <1>5, <2>1, ThrownLands DEF Throws, Step
<1> QED BY <1>2, <1>3, <1>4, <1>5 DEF ExecuteMigration

\* Every step of the work on a command keeps the invariant.
LEMMA WorkStays ==
    ASSUME CommandAssumption, n \in 0..MaxRuns, Steady(c, n), Work
    PROVE  Steady(c', n) /\ n' = n
<1>1. CASE CleanDisabled \/ PreflightFails \/ Preflight
    BY <1>1, PreflightSteps DEF CleanDisabled, PreflightFails, Preflight, Step
<1>2. CASE CleanTarget
    BY <1>2, CleanTargetSteps DEF CleanTarget, Throws, Step
<1>3. CASE Plan
    BY <1>3, PlanSteps DEF Plan, Step
<1>4. CASE AcquireLock
  <2>1. At("lock") /\ n' = n
      BY <1>4 DEF AcquireLock, Throws, Step
  <2>2. \/ c' = [Goto(c, IF c.cmd = "baseline" THEN "record" ELSE "replan") EXCEPT !.lock = ~c.dry]
        \/ c' = Goto(Failed(c), "footer")
        \/ c' = Goto(c, "footer")
        \/ c.cmd \in {"migrate", "mark"} /\ c' \in Thrown(c, FALSE)
      BY <1>4 DEF AcquireLock, Throws, Step
  <2> QED BY <2>1, <2>2, LockSteps
<1>5. CASE Replan
  <2>1. At("replan") /\ n' = n
      BY <1>5 DEF Replan, Throws, Step
  <2>2. \/ \E first \in 1..Scripts :
             c' = IF c.cmd = "mark" THEN Goto(c, "record")
                  ELSE [Goto(c, "before") EXCEPT !.cur = first, !.todo = BeforeEvents(c.cmd)]
        \/ c' = Release(c, IF c.cmd = "undo" THEN "footer" ELSE "final")
        \/ c' = Release(Failed(c), "footer")
        \/ \E refusal \in BOOLEAN : c' \in Thrown(c, refusal)
      BY <1>5 DEF Replan, Throws, Step
  <2> QED BY <2>1, <2>2, ReplanSteps
<1>6. CASE Fire
  <2>1. c.pc \in {"before", "eachBefore", "eachAfter", "after"} /\ c.todo # << >> /\ ~SkipsAfter(c) /\ n' = n
      BY <1>6 DEF Fire, Throws, Step
  <2>2. FireOutcome(c')
      BY <1>6 DEF Fire, Throws, Step, FireOutcome
  <2> QED BY <2>1, <2>2, FireSteps
<1>7. CASE BeforeDone
    BY <1>7, BeforeDoneSteps DEF BeforeDone, Fired, At, Step
<1>8. CASE NextScript
    BY <1>8, NextScriptSteps DEF NextScript, Step
<1>9. CASE StartScript
    BY <1>9, StartSteps DEF StartScript, Fired, At, Throws, Step
<1>10. CASE ExecuteMigration
    BY <1>10, ExecuteSteps
<1>11. CASE ScriptDone
    BY <1>11, ScriptDoneSteps DEF ScriptDone, Fired, At, Step
<1>12. CASE AfterDone
    BY <1>12, AfterDoneSteps DEF AfterDone, Step
<1>13. CASE Drop
    BY <1>13, DropSteps DEF Drop, Throws, Step
<1>14. CASE Record
    BY <1>14, RecordSteps DEF Record, Verdict, MarkedRows, BaselineRow, Step
<1>15. CASE FinalState
    BY <1>15, FinalSteps DEF FinalState, Throws, Step
<1>16. CASE ReleaseLock
    BY <1>16, ReleaseSteps DEF ReleaseLock, Step
<1>17. CASE Footer
    BY <1>17, FooterSteps DEF Footer, Step
<1> QED BY <1>1, <1>2, <1>3, <1>4, <1>5, <1>6, <1>7, <1>8, <1>9, <1>10, <1>11, <1>12, <1>13, <1>14,
           <1>15, <1>16, <1>17 DEF Work

\* A fresh command and the journal of the executor.
LEMMA FreshIsSteady ==
    ASSUME CommandAssumption, NEW cmd \in Commands \cup {"none"}, NEW dry \in BOOLEAN, NEW run,
           NEW j \in Journal, Sound(j), j.current = None, NEW x,
           \/ x = Fresh(cmd, dry, j) /\ cmd # "none"
           \/ x = [Fresh(cmd, dry, j) EXCEPT !.pc = "idle"]
    PROVE  Steady(x, run)
<1>1. 1 \in 1..Scripts + 1 /\ << >> \in Seq(RegularEvents) /\ << >> \in Seq(Mark)
    BY DEF CommandAssumption
<1>2. /\ x \in Command /\ x.pc \in {"preflight", "idle"} /\ (x.pc = "preflight" => x.cmd # "none")
      /\ ~x.lock /\ ~x.err /\ ~x.jopen /\ x.trace = << >> /\ x.journal = j
  <2> DEFINE f == Fresh(cmd, dry, j)
  <2>1. /\ f \in Command /\ f.pc = "preflight" /\ f.cmd = cmd
        /\ ~f.lock /\ ~f.err /\ ~f.jopen /\ f.trace = << >> /\ f.journal = j
      BY <1>1 DEF Fresh, Command, Phases
  <2> HIDE DEF f
  <2>2. CASE x = f /\ cmd # "none"
      BY <2>1, <2>2
  <2>3. CASE x = [f EXCEPT !.pc = "idle"]
      BY <2>1, <2>3 DEF Command, Phases
  <2> QED BY <2>2, <2>3 DEF f
<1>3. MarksOf(x) = {} /\ DOMAIN x.trace = {}
    BY <1>2 DEF MarksOf, Range
<1>4. Story(x, run)
    BY <1>2, <1>3 DEF Story, Ordered
<1>5. Path(x) /\ Locking(x) /\ Closed(x)
    BY <1>2, <1>3 DEF Path, Locking, Closed, LoopPhases
<1>6. Progress(x)
    BY <1>2, <1>3 DEF Progress, Scripted
<1> QED BY <1>2, <1>3, <1>4, <1>5, <1>6 DEF Steady

\* The invariant holds before the first command.
LEMMA CommandInvStarts ==
    ASSUME CommandAssumption, Init
    PROVE  CommandInv
<1> DEFINE j == [current |-> None, of |-> [k \in Keys |-> {}]]
<1>1. j \in Journal /\ Sound(j) /\ j.current = None
    BY DEF Journal, Sound
<1>2. c = [Fresh("none", FALSE, j) EXCEPT !.pc = "idle"] /\ n = 0
    BY DEF Init
<1> HIDE DEF j
<1>3. Steady(c, n)
    BY <1>1, <1>2, FreshIsSteady
<1> QED BY <1>2, <1>3 DEF CommandInv, CommandAssumption

\* Every step keeps it.
LEMMA CommandInvStays ==
    ASSUME CommandAssumption, CommandInv, [Next]_vars
    PROVE  CommandInv'
<1> USE DEF CommandInv
<1>1. CASE Work
    BY <1>1, WorkStays
<1>2. CASE Begin
  <2>1. PICK cmd \in Commands : \E dry \in BOOLEAN : c' = Fresh(cmd, dry, c.journal)
      BY <1>2 DEF Begin
  <2>2. PICK dry \in BOOLEAN : c' = Fresh(cmd, dry, c.journal)
      BY <2>1
  <2>3. c.journal \in Journal /\ Sound(c.journal) /\ c.journal.current = None
      BY <1>2 DEF Begin, At, Steady, Story, Closed, Command
  <2>4. cmd # "none"
      BY DEF CommandAssumption, Known
  <2>5. Steady(c', n')
      BY <2>2, <2>3, <2>4, FreshIsSteady
  <2> QED BY <1>2, <2>5 DEF Begin, CommandAssumption
<1>3. CASE Interrupt
    BY <1>3, InterruptSteps DEF Interrupt, Step
<1>4. CASE UNCHANGED vars
    BY <1>4 DEF vars
<1> QED BY <1>1, <1>2, <1>3, <1>4 DEF Next

-----------------------------------------------------------------------------
(* What the invariant says                                                  *)

\* The invariant in every state.
LEMMA CommandInvHolds ==
    ASSUME CommandAssumption
    PROVE  Spec => []CommandInv
<1>1. Init => CommandInv
    BY CommandInvStarts
<1>2. CommandInv /\ [Next]_vars => CommandInv'
    BY CommandInvStays
<1> QED BY <1>1, <1>2, PTL DEF Spec

\* Whatever raises and wherever a signal comes: a started script has one terminal event, an
\* ended one was started, and a report of success was earned.
THEOREM EventsAreTrue ==
    ASSUME CommandAssumption
    PROVE  Spec => []EventsTellTheTruth
<1>1. CommandInv => EventsTellTheTruth
  <2> SUFFICES ASSUME CommandInv PROVE EventsTellTheTruth
      OBVIOUS
  <2>1. TypeOK
      BY DEF CommandInv, Steady, Story, TypeOK
  <2>2. Marks = MarksOf(c)
      BY DEF Marks, MarksOf
  <2>3. OneTerminalPerStart
    <3>1. \A i, j \in DOMAIN c.trace : i < j => MayFollow(c.cmd, c.trace[i], c.trace[j])
        BY DEF CommandInv, Steady, Story, Ordered
    <3>2. \A m \in MarksOf(c) : Terminal(m) => Starts(c, m.s)
        BY DEF CommandInv, Steady, Story, MarkOk
    <3>3. Ended => Closed(c)
        BY DEF CommandInv, Steady, Ended, At
    <3> QED BY <2>2, <3>1, <3>2, <3>3 DEF OneTerminalPerStart, MayFollow, Starts, Closed, Ends
  <2>4. SuccessIsEarned
    <3> SUFFICES ASSUME NEW x \in MarksOf(c), x.k = "footer", x.ok
                 PROVE  /\ \A y \in MarksOf(c) : y.ok
                        /\ Scripted(c) => Completed(c, Scripts) /\ HasClosed(c)
        BY <2>2 DEF SuccessIsEarned, Scripted, Completed, HasClosed
    <3>1. (\A y \in MarksOf(c) : Behind(c, y)) /\ Progress(c)
        BY DEF CommandInv, Steady
    <3>2. c.pc = "idle" /\ ~c.err
        BY <3>1 DEF Behind
    <3> QED BY <3>1, <3>2 DEF Behind, Progress
  <2> QED BY <2>1, <2>3, <2>4 DEF EventsTellTheTruth
<1> QED BY <1>1, CommandInvHolds, PTL

\* After an error event only the report follows, and migrate and undo fire their callbacks
\* under the lock, undo its error callbacks too.
THEOREM CallbacksKeepTheirPlace ==
    ASSUME CommandAssumption
    PROVE  Spec => []CallbacksInPlace
<1>1. CommandInv => CallbacksInPlace
  <2> SUFFICES ASSUME CommandInv PROVE CallbacksInPlace
      OBVIOUS
  <2>1. \A i, j \in DOMAIN c.trace : i < j => MayFollow(c.cmd, c.trace[i], c.trace[j])
      BY DEF CommandInv, Steady, Story, Ordered
  <2>2. \A m \in Marks : LockedMark(c, m)
      BY DEF CommandInv, Steady, Story, MarkOk, Marks, MarksOf
  <2>3. ErrorIsTheLastWord
      BY <2>1 DEF ErrorIsTheLastWord, MayFollow
  <2>4. LockedWork
      BY <2>2 DEF LockedWork, LockedMark
  <2> QED BY <2>3, <2>4 DEF CallbacksInPlace
<1> QED BY <1>1, CommandInvHolds, PTL

\* The journal holds statements of scripts only, and its ends say what the events said.
THEOREM JournalIsTrue ==
    ASSUME CommandAssumption
    PROVE  Spec => []JournalTellsTheTruth
<1>1. CommandInv => JournalTellsTheTruth
  <2> SUFFICES ASSUME CommandInv PROVE JournalTellsTheTruth
      OBVIOUS
  <2>1. Story(c, n) /\ Sound(c.journal) /\ Marks = MarksOf(c)
      BY DEF CommandInv, Steady, Story, Marks, MarksOf
  <2>2. JournalIsOwn
      BY <2>1 DEF JournalIsOwn, Sound
  <2>3. JournalAgrees
    <3> SUFFICES ASSUME Ended
                 PROVE  /\ c.journal.current = None
                        /\ \A key \in Keys :
                             LET ends == {e \in c.journal.of[key] : e.t = "end"}
                             IN  /\ \A e, f \in ends : e = f
                                 /\ (\E x \in Marks : Started(x) /\ x.s = key) =>
                                      \E e \in ends : /\ e.run = n
                                                      /\ e.ok <=> \E x \in Marks : x.k = "completed" /\ x.s = key
        BY DEF JournalAgrees
    <3>1. Closed(c)
        BY DEF CommandInv, Steady, Ended, At
    <3>2. ASSUME NEW key \in Keys, NEW x \in Marks, Started(x), x.s = key
          PROVE  \E e \in c.journal.of[key] :
                   /\ e.t = "end" /\ e.run = n
                   /\ e.ok <=> \E z \in Marks : z.k = "completed" /\ z.s = key
      <4>1. PICK m \in Marks : Terminal(m) /\ m.s = key
          BY <2>1, <3>1, <3>2 DEF Closed, Ends
      <4>2. PICK e \in c.journal.of[key] : e.t = "end" /\ e.run = n /\ (e.ok <=> m.k = "completed")
          BY <2>1, <4>1 DEF Story, MarkOk, EndOf
      <4>3. \A z \in Marks : z.k = "completed" /\ z.s = key => z = m
        <5> SUFFICES ASSUME NEW z \in Marks, z.k = "completed", z.s = key PROVE z = m
            OBVIOUS
        <5>1. PICK i \in DOMAIN c.trace : c.trace[i] = z
            BY DEF Marks, Range
        <5>2. PICK j \in DOMAIN c.trace : c.trace[j] = m
            BY DEF Marks, Range
        <5>3. ~(i < j) /\ ~(j < i)
            BY <2>1, <4>1, <5>1, <5>2 DEF Story, Ordered, MayFollow, Terminal
        <5>4. i \in Nat /\ j \in Nat
          <6>1. c.trace \in Seq(Mark)
              BY <2>1 DEF Story, Command
          <6> QED BY <6>1
        <5> QED BY <5>1, <5>2, <5>3, <5>4
      <4> QED BY <4>1, <4>2, <4>3
    <3>3. \A key \in Keys : \A e, f \in c.journal.of[key] : e.t = "end" /\ f.t = "end" => e = f
        BY <2>1 DEF Sound
    <3> QED BY <3>1, <3>2, <3>3 DEF Closed
  <2> QED BY <2>2, <2>3 DEF JournalTellsTheTruth
<1> QED BY <1>1, CommandInvHolds, PTL

\* A command that is over, or that a signal ended, holds no lock.
THEOREM LockIsGivenBack ==
    ASSUME CommandAssumption
    PROVE  Spec => []LockGivenBack
<1>1. CommandInv => LockGivenBack
    BY DEF CommandInv, Steady, Locking, LockGivenBack
<1> QED BY <1>1, CommandInvHolds, PTL
=============================================================================
