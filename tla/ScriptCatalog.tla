---------------------------- MODULE ScriptCatalog ----------------------------
(***************************************************************************)
(* How the scripts of a run are found: the configured directories are      *)
(* searched one by one, every file found is named by a reference, the      *)
(* references are resolved to files and read, and the scripts sorted by    *)
(* kind.  Directories may overlap and be spelled in several ways, listings *)
(* come in any order, and files may vanish between search and reading.     *)
(*                                                                         *)
(* A path is a sequence of components.  "cwd" is the working directory     *)
(* spelled absolutely, "link" a symbolic link to "ext".  A file name is    *)
(* [lead, version, sep, desc, ext] whose lead is a sequence of words.      *)
(* Tags and the case of descriptions are left out.                         *)
(***************************************************************************)
EXTENDS VersionOrder, SequencesExt, FiniteSetsExt

\* What is searched: disks, sets of files [dir, name, bytes] that may be there; settings
\* [caller, dirs, flag, locked, detect, encoding]; losses, a bound on the files that vanish.
CONSTANT Searches

ScriptCatalogAssumption ==
  \A x \in Searches :
    /\ x.losses \in Nat
    /\ \A g \in x.settings : g.caller \in {"cli", "api"} /\ g.flag \in {"none", "on", "off"} /\ g.dirs # <<>>

VARIABLES
  setting,
  disk, lost,  \* files there, files that vanished
  step,        \* "search", "read", "sort", "done", "refused"
  places,      \* directories still to be searched
  listing,     \* references still to be read
  read,        \* scripts read, [path, name, text]
  reported     \* names reported as misnamed

vars == <<setting, disk, lost, step, places, listing, read, reported>>

-----------------------------------------------------------------------------
(* Names.                                                                  *)

\* _CALLBACK_PREFIXES, in the order of the code: the name of one event begins another's.
Events == <<<<"beforeMigrate">>, <<"afterMigrate">>, <<"afterMigrate", "Error">>, <<"beforeEach">>,
            <<"beforeEach", "Migrate">>>>
Formats == {"sql", "py", "SQL"}   \* "SQL" is an upper-case extension
Letters == {<<"V">>, <<"U">>, <<"R">>, <<"v">>}

\* Mutant: the separator is not asked for.
MatchesBegun(n, event) == IsPrefix(event, n.lead)

\* _callback_event_prefix: an event whose name and separator begin the file's name.
Matches(n, event) == IsPrefix(event \o <<"__">>, n.lead \o <<n.sep>>)
EventOf(n) ==
  LET matching == SelectInSeq(Events, LAMBDA e : Matches(n, e))
  IN IF matching = 0 THEN <<>> ELSE Events[matching]

\* parse_migration_filename: prefix and extension are case sensitive.
Kind(n) ==
  IF EventOf(n) # <<>> THEN "CALLBACK"
  ELSE IF n.sep # "__" \/ n.desc = 0 \/ n.ext = "SQL" THEN "UNKNOWN"
  ELSE IF n.lead = <<"V">> /\ n.version # <<>> THEN "SQL"
  ELSE IF n.lead = <<"U">> /\ n.version # <<>> THEN "UNDO_SQL"
  ELSE IF n.lead = <<"R">> /\ n.version = <<>> THEN "REPEATABLE"
  ELSE "UNKNOWN"

\* _report_callback_naming_violation: a callback without its separator, or a near miss of the
\* convention.  "VA" is a prefix with a letter for a version.
Misnamed(n) ==
  /\ Kind(n) = "UNKNOWN"
  /\ \/ \E i \in 1..Len(Events) : IsPrefix(Events[i], n.lead)
     \/ n.lead \in Letters /\ (n.version # <<>> \/ n.sep # "")
     \/ n.lead = <<"VA">> /\ n.sep = "__"

-----------------------------------------------------------------------------
(* Directories.                                                            *)

\* resolve(): what a path leads to.
Real(path) ==
  LET q == IF Head(path) = "cwd" THEN Tail(path) ELSE path
  IN IF Head(q) = "link" THEN <<"ext">> \o Tail(q) ELSE q

\* The command line makes directories absolute, the client takes them as written and lists
\* the first one, its main directory, among the additional ones.
Spelled(g, i) ==
  LET p == g.dirs[i].path
  IN IF g.caller = "api" \/ Head(p) = "cwd" THEN p ELSE <<"cwd">> \o p
Main(g) == Spelled(g, 1)
Additional(g) ==
  LET all == [i \in 1..Len(g.dirs) |-> Spelled(g, i)]
  IN IF g.caller = "api" THEN all ELSE Tail(all)

\* The flag of a directory: the last one written to the map under its resolved path; the
\* command line writes the main directory's last.
Recursive(g, place) ==
  LET same == {i \in 1..Len(g.dirs) : Real(g.dirs[i].path) = place}
      last == IF g.caller = "cli" /\ 1 \in same THEN 1 ELSE Max(same)
  IN IF g.flag = "none" THEN g.dirs[last].recursive ELSE g.flag = "on"

\* The files that a search of place lists: those of an unreadable subdirectory are passed over.
Listed(g, place, files) ==
  {f \in files :
     /\ f.dir = place \/ (Recursive(g, place) /\ IsPrefix(place, f.dir))
     /\ f.dir \notin g.locked /\ f.name.ext \in Formats}

\* The reference of a file found under a directory spelled dir.
Reference(g, dir, f) ==
  LET below == SubSeq(f.dir, Len(Real(dir)) + 1, Len(f.dir))
  IN [path |-> IF Real(dir) = Real(Main(g)) THEN below ELSE dir \o below, name |-> f.name]

\* The path of a reference: under the first additional directory that begins it, else under
\* the main one.
PathOf(g, ref) ==
  LET begins == {i \in 1..Len(Additional(g)) : IsPrefix(Additional(g)[i], ref.path)}
  IN IF ref.path # <<>> /\ begins # {} THEN Real(ref.path) ELSE Real(Main(g) \o ref.path)

-----------------------------------------------------------------------------
(* Encodings: what the bytes of a file read as.                            *)

\* detect_file_encoding: a byte-order mark, then what decodes, then the zeros of UTF-16.
Detected(bytes) ==
  IF bytes \in {"utf-16-le", "utf-16-le marked"} THEN "utf-16-le"
  ELSE IF bytes = "utf-16-be marked" THEN "utf-16-be"
  ELSE IF bytes \in {"cp1252", "iso-8859-1"} THEN bytes
  ELSE "utf-8"

\* read_migration_text, which drops a byte-order mark.
Text(bytes, encoding) ==
  IF \/ bytes \in {"ascii", encoding}
     \/ <<bytes, encoding>> \in {<<"utf-8 marked", "utf-8">>, <<"utf-16-le marked", "utf-16-le">>,
                                 <<"utf-16-be marked", "utf-16-be">>, <<"iso-8859-1", "cp1252">>}
  THEN "right"
  ELSE IF encoding = "utf-8" /\ bytes \notin {"utf-16-le", "utf-16-be"} THEN "none"
  ELSE "wrong"

-----------------------------------------------------------------------------
(* The search.                                                             *)

Init ==
  /\ \E x \in Searches : setting \in x.settings /\ disk \in x.disks
  /\ lost = {}
  /\ step = "search" /\ listing = <<>> /\ read = <<>> /\ reported = {}
  /\ places = <<Main(setting)>> \o Additional(setting)

Refuse == step' = "refused" /\ UNCHANGED <<setting, disk, lost, places, listing, read, reported>>

\* One directory; one that was searched under another spelling is not searched again.
Search ==
  /\ step = "search" /\ places # <<>>
  /\ LET dir == Head(places)
         all == <<Main(setting)>> \o Additional(setting)
         done == {Real(all[i]) : i \in 1..(Len(all) - Len(places))}
     IN IF Real(dir) \in done
        THEN UNCHANGED <<listing, reported>>
        ELSE LET found == Listed(setting, Real(dir), disk)
                 kept == {f \in found : Kind(f.name) # "UNKNOWN"}
             IN /\ Real(dir) \notin setting.locked
                /\ \E order \in SetToSeqs(kept) :
                     listing' = listing \o [i \in 1..Len(order) |-> Reference(setting, dir, order[i])]
                /\ reported' = reported \cup {f.name : f \in {x \in found : Misnamed(x.name)}}
  /\ places' = Tail(places)
  /\ UNCHANGED <<setting, disk, lost, step, read>>

Forbidden ==
  /\ step = "search" /\ places # <<>> /\ Real(Head(places)) \in setting.locked
  /\ Refuse

StartReading ==
  /\ step = "search" /\ places = <<>>
  /\ step' = "read" /\ UNCHANGED <<setting, disk, lost, places, listing, read, reported>>

At(ref) == {f \in disk : f.dir = PathOf(setting, ref) /\ f.name = ref.name}
TextOf(f) == Text(f.bytes, IF setting.detect THEN Detected(f.bytes) ELSE setting.encoding)

\* A file that two references lead to is read once.
Read ==
  /\ step = "read" /\ listing # <<>>
  /\ LET ref == Head(listing)
         path == PathOf(setting, ref)
     IN \/ /\ \E i \in 1..Len(read) : read[i].path = path /\ read[i].name = ref.name
           /\ UNCHANGED read
        \/ /\ \A i \in 1..Len(read) : read[i].path # path \/ read[i].name # ref.name
           /\ \E f \in At(ref) :
                /\ TextOf(f) # "none"
                /\ read' = Append(read, [path |-> path, name |-> ref.name, text |-> TextOf(f)])
  /\ listing' = Tail(listing)
  /\ UNCHANGED <<setting, disk, lost, step, places, reported>>

\* A file that is gone or cannot be decoded fails the whole load.
Unreadable ==
  /\ step = "read" /\ listing # <<>>
  /\ LET ref == Head(listing)
     IN /\ \A i \in 1..Len(read) : read[i].path # PathOf(setting, ref) \/ read[i].name # ref.name
        /\ \A f \in At(ref) : TextOf(f) = "none"
  /\ Refuse

\* list.sort: what is equal keeps its order.
Stable(list, Before(_, _)) ==
  LET First(i, j) == Before(list[i], list[j]) \/ (~Before(list[j], list[i]) /\ i < j)
      order == SortSeq([i \in 1..Len(list) |-> i], First)
  IN [i \in 1..Len(list) |-> list[order[i]]]
Of(kind) == SelectSeq(read, LAMBDA m : Kind(m.name) = kind)
ByVersion(a, b) == Older(a.name.version, b.name.version)
ByName(a, b) == a.name.desc < b.name.desc

\* Undo scripts stay as they were found.
Sort ==
  /\ step = "read" /\ listing = <<>>
  /\ read' = Stable(Of("SQL"), ByVersion) \o Stable(Of("REPEATABLE"), ByName)
               \o Of("UNDO_SQL") \o Stable(Of("CALLBACK"), ByName)
  /\ step' = "done" /\ UNCHANGED <<setting, disk, lost, places, listing, reported>>

Vanish ==
  /\ step \in {"search", "read"}
  /\ \E x \in Searches : setting \in x.settings /\ disk \cup lost \in x.disks /\ Cardinality(lost) < x.losses
  /\ \E f \in disk : disk' = disk \ {f} /\ lost' = lost \cup {f}
  /\ UNCHANGED <<setting, step, places, listing, read, reported>>

Next == Search \/ Forbidden \/ StartReading \/ Read \/ Unreadable \/ Sort \/ Vanish

Spec == Init /\ [][Next]_vars

\* get_callbacks_by_event
CallbacksOf(event) == Stable(SelectSeq(Of("CALLBACK"), LAMBDA m : EventOf(m.name) = event), ByName)

-----------------------------------------------------------------------------
(* Properties.                                                             *)

\* The files a setting is meant to take scripts from.
Meant(files) ==
  {f \in files :
     /\ f.name.ext \in Formats
     /\ \E i \in 1..Len(setting.dirs) :
          LET place == Real(setting.dirs[i].path)
          IN \/ f.dir = place
             \/ /\ IsPrefix(place, f.dir)
                /\ IF setting.flag = "none" THEN setting.dirs[i].recursive ELSE setting.flag = "on"}

\* A relative directory whose path also leads somewhere below the main one: references of
\* the two cannot be told apart.
Ambiguous ==
  \E i \in 1..Len(Additional(setting)) :
    LET dir == Additional(setting)[i]
    IN Head(dir) # "cwd" /\ \E f \in disk \cup lost : IsPrefix(Real(Main(setting)) \o dir, f.dir)
\* One directory listed twice with different flags: the last one counts.
TwoFlags ==
  \E i, j \in 1..Len(setting.dirs) :
    /\ Real(setting.dirs[i].path) = Real(setting.dirs[j].path)
    /\ setting.dirs[i].recursive # setting.dirs[j].recursive
FileOf(m) == {f \in disk \cup lost : f.dir = m.path /\ f.name = m.name}

\* A load that succeeds has every script of the configured directories, under whichever
\* spelling and however they overlap, each once, and no other file; but not those of a
\* subdirectory that cannot be read, which the walk of the tree passes over in silence.
CatalogIsComplete ==
  step = "done" /\ ~Ambiguous =>
    LET loaded == UNION {FileOf(read[i]) : i \in 1..Len(read)}
    IN /\ Cardinality(loaded) = Len(read)
       /\ loaded \subseteq {f \in Meant(disk \cup lost) : Kind(f.name) # "UNKNOWN"}
       /\ ~TwoFlags =>
            {f \in Meant(disk) : Kind(f.name) # "UNKNOWN" /\ f.dir \notin setting.locked} \subseteq loaded

\* Nothing is passed over in silence that has a migration's or a callback's prefix and a
\* separator: it is loaded or reported.
MisnamedAreReported ==
  step \in {"read", "done"} /\ ~TwoFlags =>
    \A f \in Meant({g \in disk : Kind(g.name) = "UNKNOWN" /\ g.name \notin reported}) :
      /\ f.dir \notin setting.locked
      /\ f.name.lead \in ToSet(Events) \cup Letters \cup {<<"VA">>} /\ f.name.sep \in {"_", "__"}
      => f.name.lead = <<"VA">> /\ f.name.sep = "_"

\* A load fails only when a script vanished, a directory cannot be read or a text cannot be
\* decoded.
FailuresHaveReasons ==
  step = "refused" /\ ~Ambiguous =>
    \/ lost # {} \/ setting.locked # {}
    \/ \E f \in disk : TextOf(f) = "none"

\* Versioned scripts come in the order of their versions and repeatable ones in that of their
\* names, whatever order the directories were listed in.
CatalogInOrder ==
  step = "done" =>
    \A i, j \in 1..Len(read) : i < j /\ Kind(read[i].name) = Kind(read[j].name) =>
      /\ Kind(read[i].name) = "SQL" => ~ByVersion(read[j], read[i])
      /\ Kind(read[i].name) = "REPEATABLE" => ~ByName(read[j], read[i])

\* A callback runs at its own event and at no other, although the name of one event begins
\* another's.
CallbacksRunAtTheirEvent ==
  step = "done" =>
    \A i \in 1..Len(Events) :
      LET called == ToSet(CallbacksOf(Events[i]))
      IN \A k \in 1..Len(read) :
           read[k] \in called <=> read[k].name.lead = Events[i] /\ read[k].name.sep = "__"

\* A text that is read is the one that was written, when encodings are detected and but for
\* UTF-16 without a mark otherwise.
TextsAreAsWritten ==
  \A i \in 1..Len(read) :
    \/ read[i].text = "right"
    \/ \E f \in FileOf(read[i]) :
         IF setting.detect THEN f.bytes = "utf-16-be"
         ELSE f.bytes \in {"utf-16-le", "utf-16-be"} \/ setting.encoding # "utf-8"
=============================================================================
