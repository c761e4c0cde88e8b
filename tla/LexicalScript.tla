---------------------------- MODULE LexicalScript ----------------------------
(***************************************************************************)
(* The shared splitter for PostgreSQL, Redshift, Snowflake and SQLite: one *)
(* reader of tokens and one parser that cuts, driven by the facts of the   *)
(* dialect.  A script is a sequence of letters: a word, a mark, a line     *)
(* end.  A blank stands between letters only where they would join; "bs"   *)
(* is a backslash, "bt" a backtick, "dq" a double quote, "n$$" a name that *)
(* ends in two dollars, "w" any other word.  Placeholders, numbers, other  *)
(* blanks, byte-order marks and NUL are left out.                          *)
(***************************************************************************)
EXTENDS Integers, Sequences, FiniteSets, FiniteSetsExt

CONSTANT
  Families   \* of scripts: each begins with one of the heads and goes on with at most size letters

Dialects == {"postgresql", "redshift", "snowflake", "sqlite"}
Words == {"w", "n$$", "E", "go", "restrict", "CREATE", "OR", "REPLACE", "TEMP", "FUNCTION", "PROCEDURE", "TRIGGER",
          "EXPLAIN", "BEGIN", "ATOMIC", "CASE", "END", "COPY", "FROM", "STDIN", "DECLARE", "AS", "WITH", "WORK"}
Marks == {"'", "dq", "bt", "[", "]", "$$", "$t$", "$1", "(", ")", ";", "bs", ".", "--", "//", "/", "/*", "*/",
          "!", "!=", "nl"}

LexicalScriptAssumption ==
  \A f \in Families :
    /\ f.dialect \in Dialects /\ f.size \in Nat
    /\ f.letters \subseteq Words \cup Marks /\ \A h \in f.heads : h \in Seq(Words \cup Marks)

VARIABLES
  dialect,
  script,    \* the text
  phase,     \* "read", "done" or "refused"
  pos,       \* the letter that is read next
  spans,     \* comments
  parens,    \* depth of parentheses
  statement, \* what is read of it: see Fresh
  copy,      \* the header of a COPY: see NoHeader
  shell,     \* what the SQLite shell has to know
  records    \* what was returned

vars == <<dialect, script, phase, pos, spans, parens, statement, copy, shell, records>>

Psql == dialect \in {"postgresql", "redshift"}
Postgres == dialect = "postgresql"
Snowflake == dialect = "snowflake"
Shell == dialect = "sqlite"

N == Len(script)
Letter(i) == IF i \in 1..N THEN script[i] ELSE "nl"
Eol(i) == Min({j \in i..N : script[j] = "nl"} \cup {N + 1})
FirstOfLine(i) == Letter(i - 1) = "nl"

\* first: its first token, from: its first that is no comment; words: since the last escaped
\* semicolon; body: depth of blocks; combined: its escaped semicolons.
Fresh == [first |-> 0, from |-> 0, code |-> FALSE, words |-> <<>>, body |-> 0, combined |-> {}]
\* start: a statement begins here; header: in the header of a COPY; reads: FROM STDIN was in it.
NoHeader(start) == [start |-> start, header |-> FALSE, last |-> "", reads |-> FALSE]

Init ==
  /\ \E f \in Families :
       /\ dialect = f.dialect
       /\ \E h \in f.heads, n \in 0..f.size : \E t \in [1..n -> f.letters] : script = h \o t
  /\ phase = "read" /\ pos = 1 /\ spans = {} /\ parens = 0 /\ records = <<>>
  /\ statement = Fresh /\ copy = NoHeader(Postgres) /\ shell = [state |-> 1, dash |-> 0]

TypeOK ==
  /\ phase \in {"read", "done", "refused"} /\ pos \in 1..N + 1 /\ spans \subseteq 1..N
  /\ parens \in 0..N /\ statement.body \in 0..N /\ statement.combined \subseteq 1..N
  /\ shell.state \in 1..7 /\ shell.dash \in 0..N + 1
  /\ \A k \in DOMAIN records : records[k].from < records[k].to

-----------------------------------------------------------------------------
(* Lexemes: where what opens at i closes, 0 if it does not.                *)

OpensLine(i) == script[i] = "--" \/ (Snowflake /\ script[i] = "//")
OpensComment(i) == OpensLine(i) \/ script[i] = "/*"

\* Block comments nest in PostgreSQL and Redshift.
CommentEnd(i) ==
  LET depth[j \in i..N] ==
        IF j = i THEN 1
        ELSE IF script[j] = "*/" THEN depth[j - 1] - 1
        ELSE IF Psql /\ script[j] = "/*" THEN depth[j - 1] + 1 ELSE depth[j - 1]
      ends == {j \in i..N : depth[j] = 0}
  IN  IF OpensLine(i) THEN Eol(i) - 1 ELSE IF ends = {} THEN 0 ELSE Min(ends)

\* The prefix of an escape string, unless a name or a quote runs into it.
EscapePrefix(i) ==
  /\ Postgres /\ script[i] = "E" /\ Letter(i + 1) = "'"
  /\ Letter(i - 1) \notin {"'", "dq", "$$", "$t$"}
Opens(i) ==
  \/ script[i] \in {"'", "dq"} \/ (Shell /\ script[i] \in {"[", "bt"})
  \/ EscapePrefix(i)

\* A doubled quote goes on; in an escaping string a backslash takes the next letter along.
\* SQLite's quotes end at the next one, or with the script.
LiteralEnd(i) ==
  LET quote == IF script[i] = "E" THEN "'" ELSE script[i]
      open == IF script[i] = "E" THEN i + 1 ELSE i
      escapes == quote = "'" /\ (script[i] = "E" \/ dialect \in {"redshift", "snowflake"})
      end[j \in (open + 1)..(N + 2)] ==
        IF j > N THEN 0
        ELSE IF escapes /\ script[j] = "bs" THEN end[j + 2]
        ELSE IF script[j] # quote THEN end[j + 1]
        ELSE IF Letter(j + 1) = quote THEN end[j + 2] ELSE j
      closers == {j \in (i + 1)..N : script[j] = IF quote = "[" THEN "]" ELSE quote}
  IN  IF Shell THEN Min(closers \cup {N}) ELSE end[open + 1]

DollarEnd(i) ==
  LET closers == {j \in (i + 1)..N : script[j] = script[i] \/ (script[i] = "$$" /\ script[j] = "n$$")}
  IN  IF closers = {} THEN 0 ELSE Min(closers)

-----------------------------------------------------------------------------
(* What a token does to the statement.                                     *)

Kinds == {"FUNCTION", "PROCEDURE"}
RoutineHeads == {<<"CREATE", k>> : k \in Kinds} \cup {<<"CREATE", "OR", "REPLACE", k>> : k \in Kinds}
Routine(words) == \E h \in RoutineHeads : Len(h) <= Len(words) /\ SubSeq(words, 1, Len(h)) = h

\* _adjust_block_depth: BEGIN ATOMIC opens the body of a routine, CASE nests in it.
Nest(words, body, v) ==
  IF v = "ATOMIC" /\ parens = 0 /\ words # <<>> /\ words[Len(words)] = "BEGIN" /\ Routine(words)
  THEN body + 1
  ELSE IF v = "CASE" /\ body > 0 THEN body + 1
  ELSE IF v = "END" /\ body > 0 THEN body - 1 ELSE body

Depth(v) ==
  IF ~Psql THEN 0 ELSE IF v = "(" THEN parens + 1 ELSE IF v = ")" THEN Max({parens - 1, 0}) ELSE parens

\* sqlite3_complete: columns for ; other EXPLAIN CREATE TEMP TRIGGER END.
CompletionTable ==
  <<<<1, 2, 3, 4, 2, 2, 2>>, <<1, 2, 2, 2, 2, 2, 2>>, <<1, 3, 2, 4, 2, 2, 2>>, <<1, 2, 2, 2, 4, 5, 2>>,
    <<6, 5, 5, 5, 5, 5, 5>>, <<6, 5, 5, 5, 5, 5, 7>>, <<1, 5, 5, 5, 5, 5, 5>>>>
Column(v) ==
  LET classes == <<";", "", "EXPLAIN", "CREATE", "TEMP", "TRIGGER", "END">>
  IN  IF \E k \in 1..7 : classes[k] = v THEN CHOOSE k \in 1..7 : classes[k] = v ELSE 2
Completed(v) == CompletionTable[shell.state][Column(v)]

\* The header of a COPY goes to the first semicolon outside parentheses.
Header(v) ==
  LET d == Depth(v)
  IN  IF ~Postgres THEN copy
      ELSE IF v = ";" /\ d = 0 THEN NoHeader(TRUE)
      ELSE IF copy.header
      THEN [copy EXCEPT !.last = IF d = 0 THEN v ELSE @,
                        !.reads = @ \/ (d = 0 /\ copy.last = "FROM" /\ v = "STDIN")]
      ELSE IF copy.start /\ v = "COPY" THEN [NoHeader(FALSE) EXCEPT !.header = TRUE]
      ELSE NoHeader(v = "bs;" /\ d = 0)

Begun(s) == [s EXCEPT !.first = IF @ = 0 THEN pos ELSE @]
Extended(s, v) ==
  [Begun(s) EXCEPT !.from = IF @ = 0 THEN pos ELSE @, !.code = @ \/ v # ";",
                   !.words = IF Shell THEN @ ELSE Append(@, v),
                   !.body = IF Postgres THEN Nest(s.words, @, v) ELSE @]

-----------------------------------------------------------------------------
(* Steps of the reader.                                                    *)

Refuse == phase' = "refused" /\ UNCHANGED <<dialect, script, pos, spans, parens, statement, copy, shell, records>>

\* A line of the shell: closed comments may follow go and /.
TerminatorLine(i) ==
  LET rest[j \in i..N + 1] ==
        IF j = N + 1 \/ Letter(j) \in {"nl", "--"} THEN TRUE
        ELSE IF Letter(j) # "/*" THEN FALSE
        ELSE LET ends == {k \in (j + 1)..(Eol(j) - 1) : script[k] = "*/"}
             IN  ends # {} /\ rest[Min(ends) + 1]
  IN  Letter(i) \in {"go", "/"} /\ rest[i + 1]

\* _check_sqlite_line
ShellLine ==
  /\ Shell /\ FirstOfLine(pos)
  /\ IF statement.code
     THEN shell.state \notin {5, 6} /\ shell.dash # pos - 1 /\ TerminatorLine(pos)
     ELSE Letter(pos) = "."

Reading == phase = "read" /\ pos <= N
Meets(S) == Reading /\ Letter(pos) \in S /\ ~ShellLine

ShellCommand == Reading /\ ShellLine /\ Refuse

Blank ==
  /\ Meets({"nl"}) /\ pos' = pos + 1
  /\ UNCHANGED <<dialect, script, phase, spans, parens, statement, copy, shell, records>>

\* A code token of value v up to before to.
Take(v, to) ==
  /\ pos' = to /\ parens' = Depth(v) /\ statement' = Extended(statement, v) /\ copy' = Header(v)
  /\ shell' = IF Shell THEN [shell EXCEPT !.state = Completed(v)] ELSE shell
  /\ UNCHANGED <<dialect, script, phase, spans, records>>

Comment ==
  /\ Reading /\ OpensComment(pos) /\ ~ShellLine
  /\ IF CommentEnd(pos) = 0 THEN Refuse
     ELSE /\ pos' = CommentEnd(pos) + 1 /\ spans' = spans \cup pos..CommentEnd(pos)
          /\ statement' = Begun(statement)
          /\ shell' = IF script[pos] = "--" THEN [shell EXCEPT !.dash = Eol(pos)] ELSE shell
          /\ UNCHANGED <<dialect, script, phase, parens, copy, records>>

Literal ==
  /\ Reading /\ Opens(pos) /\ ~ShellLine
  /\ IF LiteralEnd(pos) = 0 THEN Refuse ELSE Take("'", LiteralEnd(pos) + 1)

\* Snowflake has no tags.
Dollar ==
  /\ Meets({"$$", "$t$"}) /\ ~Shell
  /\ IF DollarEnd(pos) = 0 \/ (Snowflake /\ Letter(pos) = "$t$") THEN Refuse
     ELSE Take("'", DollarEnd(pos) + 1)

Word == Meets(Words) /\ ~Opens(pos) /\ Take(Letter(pos), pos + 1)

\* A backslash is one in the header of a COPY and outside psql.
Symbol ==
  /\ Meets(Marks \ {"nl", ";"}) /\ ~(Letter(pos) = "!" /\ Snowflake /\ FirstOfLine(pos))
  /\ ~OpensComment(pos) /\ ~Opens(pos)
  /\ Letter(pos) \in {"$$", "$t$"} => Shell
  /\ Letter(pos) = "bs" => ~Psql \/ copy.header
  /\ Take(Letter(pos), pos + 1)

\* \; joins two statements into one that is sent whole.
Combine ==
  /\ Meets({"bs"}) /\ Psql /\ ~copy.header /\ Letter(pos + 1) = ";"
  /\ pos' = pos + 2 /\ copy' = Header("bs;")
  /\ LET s == [Extended(statement, "bs;") EXCEPT !.combined = @ \cup {pos}]
     IN  statement' = IF parens = 0 /\ statement.body = 0 THEN [s EXCEPT !.words = <<>>] ELSE s
  /\ UNCHANGED <<dialect, script, phase, spans, parens, shell, records>>

\* Blanks at the end are stripped.
LastOf(from, cut) == Max({j \in from..(cut - 1) : script[j] # "nl"}) + 1
Record(kind, from, to) == [kind |-> kind, from |-> from, to |-> to, combined |-> statement.combined]
Emitted(cut) ==
  LET from == IF Psql THEN statement.from ELSE statement.first
  IN  IF statement.code THEN Append(records, Record("statement", from, LastOf(from, cut))) ELSE records

\* _check_unquoted_scripting
Scripting ==
  LET words == statement.words
      kind == IF Len(words) >= 3 /\ words[2] = "OR" /\ words[3] = "REPLACE" THEN 4 ELSE 2
      past == Min({k \in kind..Len(words) : words[k] # "TEMP"} \cup {Len(words) + 1})
      block == {"BEGIN", "DECLARE"}
  IN  /\ Snowflake /\ words # <<>>
      /\ \/ words[1] = "DECLARE"
         \/ words[1] = "BEGIN" /\ words \notin {<<"BEGIN">>, <<"BEGIN", "WORK">>}
         \/ /\ words[1] = "WITH" /\ Len(words) >= 4 /\ words[3] = "AS" /\ words[4] = "PROCEDURE"
            /\ \E k \in 5..Len(words) : words[k] \in block
         \/ /\ words[1] = "CREATE" /\ past <= Len(words) /\ words[past] \in Kinds
            /\ \E k \in 2..Len(words) : words[k - 1] = "AS" /\ words[k] \in block

Flush(cut, to) ==
  /\ pos' = to /\ records' = Emitted(cut) /\ statement' = Fresh
  /\ shell' = [shell EXCEPT !.state = 1] /\ UNCHANGED <<dialect, script, spans, parens>>

\* restrict and unrestrict are left out of what is sent, other commands refused.
Meta ==
  /\ \/ Meets({"bs"}) /\ Psql /\ ~copy.header /\ Letter(pos + 1) # ";"
     \/ Meets({"!"}) /\ Snowflake /\ FirstOfLine(pos)
  /\ IF Letter(pos) = "!" \/ Letter(pos + 1) # "restrict" \/ Letter(pos + 2) \notin Words \cup {"nl"}
     THEN Refuse
     ELSE /\ pos' = Eol(pos) /\ statement' = Fresh /\ copy' = NoHeader(Postgres)
          /\ records' = Append(Emitted(pos), [kind |-> "directive", from |-> pos, to |-> Eol(pos), combined |-> {}])
          /\ UNCHANGED <<dialect, script, phase, spans, parens, shell>>

\* Where the line of a COPY header ends: after its semicolon only comments stand on it.
HeaderEnd(i) ==
  LET end[j \in i..N + 1] ==
        IF Letter(j) = "nl" THEN j
        ELSE IF ~OpensComment(j) \/ CommentEnd(j) = 0 \/ CommentEnd(j) >= Eol(j) THEN 0
        ELSE end[CommentEnd(j) + 1]
  IN  end[i]
\* The line that ends the data.
DataEnd(i) ==
  Min({j \in i..N : FirstOfLine(j) /\ script[j] = "bs" /\ Letter(j + 1) = "." /\ Letter(j + 2) = "nl"} \cup {N + 1})

CopyFollows == parens = 0 /\ copy.reads /\ pos < N

CopyData ==
  /\ Meets({";"}) /\ CopyFollows
  /\ LET end == HeaderEnd(pos + 1)
         data == DataEnd(Min({end + 1, N + 1}))
     IN  IF end = 0 \/ statement.combined # {} THEN Refuse
         ELSE /\ pos' = Min({Eol(data) + 1, N + 1}) /\ spans' = spans \cup (pos + 1)..(end - 1)
              /\ records' = Append(records, Record("copy", statement.from, data))
              /\ statement' = Fresh /\ copy' = NoHeader(TRUE)
              /\ UNCHANGED <<dialect, script, phase, parens, shell>>

Ends ==
  IF Shell THEN Completed(";") = 1 ELSE parens = 0 /\ statement.body = 0

Semicolon ==
  /\ Meets({";"}) /\ ~CopyFollows
  /\ IF ~Ends THEN Take(";", pos + 1)
     ELSE IF Scripting THEN Refuse
     ELSE Flush(pos, pos + 1) /\ copy' = Header(";") /\ UNCHANGED phase

Finish ==
  /\ phase = "read" /\ pos > N
  /\ IF Scripting THEN Refuse ELSE Flush(N + 1, pos) /\ phase' = "done" /\ UNCHANGED copy

Next ==
  \/ ShellCommand \/ Blank \/ Comment \/ Literal \/ Dollar \/ Word \/ Symbol \/ Combine \/ Meta
  \/ CopyData \/ Semicolon \/ Finish

Spec == Init /\ [][Next]_vars

-----------------------------------------------------------------------------
(* What the clients and servers do (docs/sql-parsing/): they read letter   *)
(* by letter.  Words are recorded with the parentheses they stand in.      *)

Reads(words, from, v) == from \in DOMAIN words /\ words[from].v = v
ReadsAll(words, from, vs) == \A k \in DOMAIN vs : Reads(words, from + k - 1, vs[k])

\* Statements that \; joins begin here.
Starts(words) ==
  {1} \cup {k + 1 : k \in {j \in DOMAIN words : words[j].v = "bs;" /\ words[j].parens = 0}}

\* A body is open: since some BEGIN ATOMIC of a routine not as many have ended as begun.
OpenBody(words) ==
  LET opens == {k \in DOMAIN words : Reads(words, k - 1, "BEGIN") /\ words[k].v = "ATOMIC" /\ words[k].parens = 0}
      level(k, m) == Cardinality({j \in k..m : j \in opens \/ words[j].v = "CASE"})
                     - Cardinality({j \in k..m : words[j].v = "END"})
  IN  \E k \in opens, h \in RoutineHeads :
        /\ ReadsAll(words, Max({s \in Starts(words) : s <= k}), h)
        /\ \A m \in k..Len(words) : level(k, m) > 0

\* CREATE TRIGGER, perhaps to be explained: it ends after an END of its own.
OpenTrigger(words) ==
  LET heads == {1} \cup IF Reads(words, 1, "EXPLAIN") THEN 2..Len(words) ELSE {}
      n == Len(words)
  IN  /\ \E k \in heads, m \in 1..n :
           /\ k < m /\ words[k].v = "CREATE" /\ words[m].v = "TRIGGER"
           /\ \A j \in (k + 1)..(m - 1) : words[j].v = "TEMP"
           /\ \A j \in 2..(k - 1) : words[j].v \notin {"EXPLAIN", "CREATE", "TEMP", "TRIGGER", "END"}
      /\ ~(words[n].v = "END" /\ words[n - 1].v = ";")

\* A semicolon ends the statement.
Complete(c) ==
  IF Shell THEN ~OpenTrigger(c.words)
  ELSE Psql => c.parens = 0 /\ (Postgres => ~OpenBody(c.words))

\* COPY, and COPY FROM STDIN.
CopyHead(words) == Postgres /\ Reads(words, Max(Starts(words)), "COPY")
CopyReads(words) ==
  CopyHead(words) /\ \E k \in Max(Starts(words))..Len(words) :
    words[k].parens = 0 /\ ReadsAll(words, k, <<"FROM", "STDIN">>) /\ words[k + 1].parens = 0

\* Unquoted blocks and routines with such a body.
Block(words) ==
  LET reads(k, v) == Reads(words, k, v)
      block(k) == reads(k, "BEGIN") \/ reads(k, "DECLARE")
      kinds == {k \in DOMAIN words : words[k].v \in Kinds /\ reads(1, "CREATE") /\
                  \A j \in 2..(k - 1) : reads(j, "TEMP") \/ (j <= 3 /\ ReadsAll(words, 2, <<"OR", "REPLACE">>))}
  IN  \/ reads(1, "DECLARE")
      \/ reads(1, "BEGIN") /\ ~(Len(words) = 1 \/ (Len(words) = 2 /\ reads(2, "WORK")))
      \/ ReadsAll(words, 3, <<"AS", "PROCEDURE">>) /\ reads(1, "WITH") /\ \E k \in 5..Len(words) : block(k)
      \/ kinds # {} /\ \E k \in DOMAIN words : reads(k, "AS") /\ block(k + 1)

\* After the last letter.  in: inside of what, skip: letters that are read with the last; sent:
\* the statements; masked: comments; alone: so far the line only ends a statement.  ran: it ran a
\* command, odd: what nobody qualified, block: an unquoted block, mixed: psql would split at
\* what is documented otherwise (README, 5).
Client ==
  LET begin == [in |-> "text", depth |-> 0, skip |-> 0, parens |-> 0, words |-> <<>>, from |-> 0, joins |-> {},
                sent |-> {}, masked |-> {}, alone |-> FALSE, dash |-> 0,
                ran |-> FALSE, odd |-> FALSE, block |-> FALSE, mixed |-> FALSE]
      seen(c, i) == [c EXCEPT !.from = IF @ = 0 THEN i ELSE @]
      word(c, i, v) ==
        LET d == IF v = "(" THEN c.parens + 1 ELSE IF v = ")" THEN Max({c.parens - 1, 0}) ELSE c.parens
        IN  [seen(c, i) EXCEPT !.parens = d, !.words = Append(@, [v |-> v, parens |-> d]), !.alone = FALSE]
      sends(c, kind, i, to) ==
        LET code == \E k \in DOMAIN c.words : c.words[k].v # ";"
            last == Max({j \in c.from..(i - 1) : script[j] # "nl"}) + 1
        IN  [c EXCEPT !.words = <<>>, !.from = 0, !.joins = {}, !.in = to, !.alone = FALSE,
                      !.block = @ \/ (Snowflake /\ Block(c.words)),
                      !.sent = @ \cup IF ~code THEN {}
                                      ELSE {<<kind, c.from, IF kind = "copy" THEN i ELSE last, c.joins>>}]
      quote(c, i, mode, skip) == [word(c, i, "'") EXCEPT !.in = mode, !.skip = skip]
      comment(c, i, mode) ==
        [IF Psql \/ c.in = "header" THEN c ELSE seen(c, i)
           EXCEPT !.in = mode, !.depth = 1, !.masked = @ \cup {i}]
      text(c, i) ==
        LET l == Letter(i)
            pends == \E k \in DOMAIN c.words : c.words[k].v # ";"
        IN  CASE l = "nl" -> [c EXCEPT !.ran = @ \/ c.alone, !.alone = FALSE]
              [] OpensLine(i) -> comment(c, i, "line")
              [] l = "/*" -> comment(c, i, "block")
              [] Shell /\ FirstOfLine(i) /\ l = "." /\ ~pends -> [c EXCEPT !.ran = TRUE]
              [] Shell /\ FirstOfLine(i) /\ l \in {"go", "/"} /\ pends ->
                   [word(c, i, l) EXCEPT !.alone = Complete(c) /\ c.dash # i - 1]
              [] Snowflake /\ FirstOfLine(i) /\ l = "!" -> [c EXCEPT !.ran = TRUE]
              [] l = "'" -> quote(c, i, IF dialect \in {"redshift", "snowflake"} THEN "e'" ELSE "'", 0)
              [] l = "dq" \/ (Shell /\ l \in {"bt", "["}) -> quote(c, i, l, 0)
              [] l = "E" /\ Postgres /\ Letter(i + 1) = "'" /\ Letter(i - 1) \notin {"'", "dq", "$$", "$t$"} ->
                   quote(c, i, "e'", 1)
              [] l \in {"$$", "$t$"} /\ ~Shell -> [quote(c, i, l, 0) EXCEPT !.odd = @ \/ (Snowflake /\ l = "$t$")]
              [] l = "bs" /\ Psql ->
                   IF Letter(i + 1) = ";" /\ ~CopyHead(c.words)
                   THEN [word(c, i, "bs;") EXCEPT !.joins = @ \cup {i}, !.skip = 1]
                   ELSE [c EXCEPT !.in = "meta", !.mixed = @ \/ pends \/ CopyHead(c.words),
                                  !.ran = @ \/ Letter(i + 1) # "restrict" \/ Letter(i + 2) \notin Words \cup {"nl"}]
              [] l = ";" /\ CopyReads(c.words) /\ c.parens = 0 /\ i < N ->
                   [c EXCEPT !.in = "header", !.odd = @ \/ c.joins # {}]
              [] l = ";" /\ Complete(c) -> sends(c, "statement", i, "text")
              [] OTHER -> word(c, i, l)
      lines(c, i) ==
        LET l == Letter(i)
        IN  CASE l = "nl" /\ c.in \in {"header", "header line"} -> [c EXCEPT !.in = "data"]
              [] l = "nl" /\ c.in = "header block" -> [c EXCEPT !.odd = TRUE]
              [] c.in = "header" /\ l \in {"--", "/*"} ->
                   comment(c, i, IF l = "--" THEN "header line" ELSE "header block")
              [] c.in = "header" -> [c EXCEPT !.odd = TRUE]
              [] c.in = "data" /\ FirstOfLine(i) /\ l = "bs" /\ Letter(i + 1) = "." /\ Letter(i + 2) = "nl" ->
                   [sends(c, "copy", i, "text") EXCEPT !.skip = 1]
              [] OTHER -> [c EXCEPT !.masked = IF c.in = "header line" THEN @ \cup {i} ELSE @]
      next(c, i) ==
        LET l == Letter(i)
            after == IF c.in = "header block" THEN "header" ELSE "text"
            level == IF l = "*/" THEN c.depth - 1 ELSE IF Psql /\ l = "/*" THEN c.depth + 1 ELSE c.depth
        IN  CASE c.skip > 0 -> [c EXCEPT !.skip = @ - 1]
              [] c.in = "text" -> text(c, i)
              [] c.in \in {"block", "header block"} /\ l # "nl" ->
                   [c EXCEPT !.depth = level, !.in = IF level = 0 THEN after ELSE @, !.masked = @ \cup {i}]
              [] c.in = "block" -> [c EXCEPT !.alone = FALSE, !.masked = @ \cup {i}]
              [] c.in = "line" -> IF l # "nl" THEN [c EXCEPT !.masked = @ \cup {i}]
                                  ELSE [text([c EXCEPT !.in = "text"], i) EXCEPT !.dash = i]
              [] c.in = "meta" -> IF l = "nl" THEN [c EXCEPT !.in = "text"]
                                  ELSE [c EXCEPT !.mixed = @ \/ l = "bs"]
              [] c.in = "e'" /\ (l = "bs" \/ (l = "'" /\ Letter(i + 1) = "'")) -> [c EXCEPT !.skip = 1]
              [] c.in \in {"e'", "'", "dq", "bt", "[", "$$", "$t$"} ->
                   LET closes == CASE c.in = "e'" -> {"'"} [] c.in = "[" -> {"]"}
                                   [] c.in = "$$" -> {"$$", "n$$"} [] OTHER -> {c.in}
                   IN  [c EXCEPT !.in = IF l \in closes THEN "text" ELSE @]
              [] OTHER -> lines(c, i)
      c[i \in 0..N + 1] == IF i = 0 THEN begin ELSE next(c[i - 1], i)
      end == c[N + 1]
  IN  IF end.in \in {"header", "header line", "data"} THEN sends(end, "copy", N + 1, "text")
      ELSE sends(end, "statement", N + 1, end.in)

\* What is not a comment's, a shell's quote's or the text's is open.
Reasons(c) ==
  c.ran \/ c.odd \/ c.block \/ c.in \notin {"text", "meta", "line"} \cup IF Shell THEN {"'", "dq", "bt", "["} ELSE {}

Returned ==
  {<<r.kind, r.from, r.to, r.combined>> :
     r \in {records[k] : k \in {j \in DOMAIN records : records[j].kind # "directive"}}}

-----------------------------------------------------------------------------
(* Properties. *)

\* A script that is not refused is cut where its client cuts it, with the semicolons the
\* client joins with, and its comments, all of them, are known (LexicalStatementParser._cut,
\* LexicalTokenizer._next_sql_token, _handle_comment).
CutsAsTheClient ==
  phase = "done" => LET c == Client IN c.mixed \/ (Returned = c.sent /\ spans = c.masked)

\* A script is refused if and only if its client would run a command of its own in it, an
\* unquoted block would be cut, a form stands in it that nobody qualified, or a lexeme is open
\* at its end (_handle_meta_command, _check_sqlite_line, _check_unquoted_scripting).
RefusedForAReason ==
  phase # "read" => LET c == Client IN c.mixed \/ (phase = "refused" <=> Reasons(c))
=============================================================================
