----------------------------- MODULE MCScriptRun -----------------------------
(* ScriptRun for TLC: families of scripts, sources and directories. *)
EXTENDS ScriptRun

MySqlFamily(heads, letters, size) == [heads |-> heads, letters |-> letters, size |-> size]
Texts ==
  {\* Strings, escapes and delimiters.
   MySqlFamily({<< >>, <<"DELIMITER", "//", "nl">>, <<"w", "/*!">>, <<"w", "'">>},
           {"w", "'", "#", "/*", "*/", ";", "//", "nl", "bs", "N"}, 4),
   MySqlFamily({<< >>, <<"w", "bq">>}, {"w", "'", "bq", "#", ";", "bs", "//"}, 4),
   \* Comments, hints and executable comments.
   MySqlFamily({<< >>, <<"/*!">>, <<"DELIMITER", "//", "nl", "w">>, <<"w", "/*+">>},
           {"w", "/*!", "/*+", "/*", "*/", ";", "//", "nl", "#"}, 4),
   \* Commands of the client.
   MySqlFamily({<< >>, <<"DELIMITER", "//", "nl">>, <<"DELIMITER", "'">>, <<"/*!", "*/", "nl">>},
           {"w", "EXIT", "GO", "SOURCE", "STATUS", "USE", "DELIMITER", ";", "//", "nl"}, 4),
   MySqlFamily({<<"DELIMITER", "'">>, <<"w", "'">>}, {"w", "'", "EXIT", "GO", "USE", ";", "nl"}, 4)}

\* Stored programs: blocks up to two deep around simple statements.
Simple ==
  {<<"w", ";">>, <<"w", "(", "CASE", "w", "THEN", "w", "END", ")", ";">>, <<"w", "CASE", "w", "END", ";">>,
   <<"w", "(", "IF", "(", "w", ")", ")", ";">>, <<"w", "@", "BEGIN", ";">>, <<"w", ".", "END", ";">>}
Wrapped(body) ==
  UNION {{<<"BEGIN">> \o x \o <<"END", ";">>, <<"IF", "w", "THEN">> \o x \o <<"END", "IF", ";">>,
          <<"LOOP">> \o x \o <<"END", "LOOP", ";">>,
          <<"CASE", "w", "THEN">> \o x \o <<"END", "CASE", ";">>} : x \in body}
Bodies == Simple \cup Wrapped(Simple) \cup Wrapped(Wrapped(Simple))
Openings ==
  {<<"CREATE", "PROCEDURE", "w">>, <<"CREATE", "DEFINER", "=", "w", "@", "'", "w", "'", "PROCEDURE", "w">>,
   <<"CREATE", "DEFINER", "=", "CURRENT_USER", "(", ")", "EVENT">>, <<"ALTER", "EVENT", "w">>,
   <<"ALTER", "DEFINER", "=", "CURRENT_USER", "EVENT", "w">>}
Programs ==
  MySqlFamily(
    {o \o <<"BEGIN">> \o x \o y \o <<"END">> : o \in Openings, x \in Bodies, y \in Simple}, {";"}, 1)
MCMySqlFamilies == Texts \cup {Programs}

\* Scripts for the shared engine.
Family(d, heads, letters, size) == [dialect |-> d, heads |-> heads, letters |-> letters, size |-> size]
PostgresFamilies ==
  {\* Strings.
   Family("postgresql", {<<>>, <<"w">>, <<"dq", "dq", "E", "'">>},
          {"E", "'", "bs", ";", "$$", "$t$", "n$$", "dq", "nl"}, 4),
   \* Comments, parentheses, joined statements and commands.
   Family("postgresql", {<<>>, <<"w", "bs", ";">>, <<"/*">>},
          {"--", "/*", "*/", "bs", "(", ")", ";", "w", "restrict", "nl"}, 4),
   \* Routines with a body, and such as have none.
   Family("postgresql",
          {<<"CREATE", "FUNCTION">>, <<"CREATE", "FUNCTION", "BEGIN", "ATOMIC">>,
           <<"CREATE", "w", "FUNCTION", "BEGIN", "ATOMIC">>,
           <<"w", "bs", ";", "CREATE", "OR", "REPLACE", "PROCEDURE", "BEGIN", "ATOMIC">>},
          {"CASE", "END", ";", "w", "(", ")", "BEGIN", "ATOMIC"}, 4),
   \* COPY and its data.
   Family("postgresql",
          {<<"COPY">>, <<"COPY", "FROM", "STDIN", ";">>, <<"COPY", "FROM", "(", "STDIN", ")">>,
           <<"w", "bs", ";", "COPY", "FROM", "STDIN">>},
          {"FROM", "STDIN", ";", "nl", "bs", ".", "w", "--", "/*", "*/"}, 4)}
OtherFamilies ==
  {Family("redshift", {<<>>, <<"CREATE", "FUNCTION", "BEGIN", "ATOMIC">>},
          {"E", "'", "dq", "bs", ";", "/*", "*/", "$$", "END", "nl"}, 4),
   \* Strings and comments, and blocks that nothing quotes.
   Family("snowflake", {<<>>, <<"w">>},
          {"//", "--", "/*", "*/", "'", ";", "!", "!=", "nl"}, 4),
   Family("snowflake", {<<>>, <<"w">>}, {"//", "'", "bs", "$$", "$t$", ";", "!", "nl"}, 4),
   Family("snowflake",
          {<<>>, <<"CREATE", "OR", "REPLACE">>},
          {"CREATE", "TEMP", "FUNCTION", "AS", "BEGIN", "DECLARE", "WORK", ";", "w"}, 4),
   Family("snowflake",
          {<<"CREATE", "TEMP", "FUNCTION">>, <<"WITH", "w", "AS", "PROCEDURE">>, <<"WITH", "w", "w", "PROCEDURE">>},
          {"FUNCTION", "AS", "BEGIN", "DECLARE", "WORK", ";", "w", "'"}, 4),
   \* Lines of the shell, the same beside comments, triggers, strings.
   Family("sqlite", {<<>>, <<"w">>}, {"go", "/", ".", "nl", ";", "w"}, 5),
   Family("sqlite", {<<>>, <<"w">>, <<"w", "nl">>}, {"go", ".", "nl", ";", "--", "/*", "*/"}, 4),
   Family("sqlite",
          {<<>>, <<"CREATE", "TEMP", "TRIGGER">>, <<"EXPLAIN", "w", "CREATE", "TRIGGER">>, <<"EXPLAIN">>},
          {";", "END", "w", "nl", "go", "CREATE", "TRIGGER", "--"}, 4),
   Family("sqlite", {<<>>, <<"w">>}, {"'", "dq", "bt", "[", "]", ";", "bs", "nl", "$$"}, 4)}
MCFamilies == PostgresFamilies \cup OtherFamilies

\* Sections of the file, and all sources of a configuration.
Section(type, url, path, database, schema, dir, dirs) ==
  [type: type, url: url, path: path, database: database, schema: schema, dir: dir, dirs: dirs]
Sources(file, target, root, prod, names, os, arg, offline, secrets) ==
  [file: file, target: target, root: root, prod: prod, flag: names[1], var: names[2], branch: names[3],
   os: os, arg: arg, offline: offline, secrets: secrets]
No == {"none"}
Chosen == <<{"", "prod"}, {""}, {""}>>
\* Where the database is.
DatabaseSources ==
  Sources({"ok"}, No,
    Section({"none", "file", "server"}, {"none", "", "serverUrl", "fileUrl"}, {"none", "", "rel"}, No, No, No, No),
    Section({"none", "file"}, {"none", "", "serverUrl"}, {"none", "", "rel"}, No, No, No, No),
    Chosen, [type: No, url: {"none", "fileUrl"}, database: No, schema: No],
    [url: {"none", "serverUrl"}, schema: No, dir: No], {FALSE}, {TRUE})
\* The three keys of a database file, and its type, in several sources.
FileSources ==
  Sources({"ok"}, No,
    Section({"none", "file"}, {"none", "fileUrl"}, {"none", "rel"}, {"none", "", "rel", "strange"}, No, No, No),
    Section({"none", "", "file"}, {"none", ""}, {"none", "", "rel"}, {"none", "", "rel"}, No, No, No),
    <<{"prod"}, {""}, {""}>>, [type: {"none", "file"}, url: No, database: {"none", "rel"}, schema: No],
    [url: No, schema: No, dir: No], {FALSE}, {TRUE})
\* References that are secrets and such that nobody resolves.
ReferenceSources ==
  Sources({"ok"}, No,
    Section({"none", "file"}, {"none", "secretUrl", "strangeUrl", "fileUrlEmpty"},
            {"none", "strange", "secret"}, No, No, No, No),
    Section(No, {"none", "secretUrl"}, {"none", "strange"}, {"none", "secret"}, No, No, No),
    <<{"prod"}, {""}, {""}>>, [type: {"none", "file"}, url: No, database: No, schema: No],
    [url: {"none", "secretUrl", "strangeUrl", "fileUrl"}, schema: No, dir: No], BOOLEAN, BOOLEAN)
\* Where the scripts are.
ScriptSources ==
  Sources({"ok"}, No,
    Section({"server"}, {"serverUrl"}, No, No, {"none", "name"}, {"none", "", "rel", "strange"},
            {"none", "", "[]", "rel"}),
    Section(No, No, No, No, {"", "name"}, {"none", "rel", "secret"}, {"none", "", "[]", "[empty]", "strange"}),
    <<{"prod"}, {""}, {""}>>, [type: No, url: No, database: No, schema: No],
    [url: No, schema: {"none", "name"}, dir: {"none", "", "rel"}], {FALSE}, {TRUE})
\* Which environment it is.
EnvironmentSources ==
  Sources({"ok", "broken"}, {"none", ""},
    Section({"server"}, {"serverUrl"}, No, No, No, No, No),
    Section(No, {"none", "serverUrl"}, No, No, No, {"rel"}, No),
    <<{"", "prod", "other"}, {"", "prod", "other"}, {"", "prod", "other"}>>,
    [type: No, url: {"none", "serverUrl"}, database: No, schema: {"none", "name"}],
    [url: {"none", "serverUrl"}, schema: No, dir: {"none", "rel"}], {FALSE}, {TRUE})
MCInputs == DatabaseSources \cup FileSources \cup ReferenceSources \cup ScriptSources \cup EnvironmentSources
MCEntries == {"cli", "api", "anchored"}

\* Files and directories to find scripts in.
Name(lead, version, sep, desc, ext) ==
  [lead |-> lead, version |-> version, sep |-> sep, desc |-> desc, ext |-> ext]
File(dir, name, bytes) == [dir |-> dir, name |-> name, bytes |-> bytes]
Dir(path, recursive) == [path |-> path, recursive |-> recursive]
Setting(caller, dirs, flag, locked, detect, encoding) ==
  [caller |-> caller, dirs |-> dirs, flag |-> flag, locked |-> locked, detect |-> detect, encoding |-> encoding]
First == Name(<<"V">>, <<<<1>>>>, "__", 1, "sql")
OneDirectory(detect, encoding) ==
  Setting("cli", <<Dir(<<"main">>, TRUE)>>, "none", {}, detect, encoding)
\* Directories that overlap, in several spellings.
Folders == {<<"main">>, <<"main", "s">>, <<"ext">>, <<"ext", "s">>, <<"s">>}
PlacedFiles ==
  {File(d, First, "ascii") : d \in Folders}
    \cup {File(d, Name(<<"V">>, <<<<2>>>>, "__", 1, "sql"), "ascii") : d \in {<<"main">>, <<"ext">>}}
Listed ==
  {<<Dir(<<"main">>, r)>> : r \in BOOLEAN}
    \cup {<<Dir(<<"main">>, r), Dir(p, q)>> : r, q \in BOOLEAN,
             p \in {<<"ext">>, <<"link">>, <<"main", "s">>, <<"s">>, <<"cwd", "ext">>}}
    \cup {<<Dir(<<"main">>, TRUE), Dir(<<"ext">>, TRUE), Dir(p, q)>> : q \in BOOLEAN,
             p \in {<<"link">>, <<"s">>, <<"ext", "s">>}}
OverlappingDisks == {{x, y, z} : x, y, z \in PlacedFiles}
OverlappingSettings ==
  {Setting(c, l, f, {}, FALSE, "utf-8") : c \in {"cli", "api"}, l \in Listed, f \in {"none", "on", "off"}}
    \cup {Setting("cli", <<Dir(<<"main">>, TRUE), Dir(<<"ext">>, TRUE)>>, "none", {k}, FALSE, "utf-8") :
            k \in {<<"ext">>, <<"main", "s">>}}
\* Names that are scripts, callbacks, near misses or neither, and versions to sort.
OddNames ==
  {Name(<<l>>, v, sep, 1, e) : l \in {"V", "U", "R", "v", "VA", "B", "report"}, v \in {<<>>, <<<<1>>>>},
                             sep \in {"", "_", "__"}, e \in {"sql", "SQL", "py"}}
    \cup {Name(l, <<>>, sep, 1, "sql") : sep \in {"", "_", "__"},
             l \in {<<"beforeEach">>, <<"beforeEach", "Migrate">>, <<"afterMigrate">>,
                    <<"afterMigrate", "Error">>, <<"afterMigrate", "Other">>}}
\* 100 is "a", 101 is "b": 1, 1.0, 1.2, 1.10, 2, 2a, 2a1.1, 2b.
SortedNames ==
  {Name(<<"V">>, v, "__", 1, "sql") :
     v \in {<<<<1>>>>, <<<<1>>, <<0>>>>, <<<<1>>, <<2>>>>, <<<<1>>, <<10>>>>, <<<<2>>>>, <<<<2, 100>>>>,
            <<<<2, 100, 1>>, <<1>>>>, <<<<2, 101>>>>}}
    \cup {Name(<<"R">>, <<>>, "__", d, "sql") : d \in 1..3}
    \cup {Name(l, <<>>, "__", d, "sql") : l \in {<<"beforeEach">>, <<"beforeEach", "Migrate">>}, d \in 1..2}
NamedDisks ==
  {{File(<<"main">>, n, "ascii") : n \in names} :
              names \in {{x} : x \in OddNames} \cup {{x, y, z} : x, y, z \in SortedNames}}
\* Encodings.
EncodedDisks ==
  {{File(<<"main">>, First, b)} :
              b \in {"ascii", "utf-8", "utf-8 marked", "utf-16-le", "utf-16-le marked", "utf-16-be",
                     "utf-16-be marked", "cp1252", "iso-8859-1"}}
FileSettings == {OneDirectory(d, e) : d \in BOOLEAN, e \in {"utf-8", "cp1252", "utf-16-le"}}
MCSearches ==
  {[disks |-> OverlappingDisks, settings |-> OverlappingSettings, losses |-> 1],
   [disks |-> NamedDisks, settings |-> {OneDirectory(FALSE, "utf-8")}, losses |-> 0],
   [disks |-> EncodedDisks, settings |-> FileSettings, losses |-> 1]}
=============================================================================
