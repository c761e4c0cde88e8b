--------------------------- MODULE DelimiterScript ---------------------------
(***************************************************************************)
(* The MySQL splitter: a script read token by token, with the DELIMITER    *)
(* command, client commands that are refused, strings, comments,           *)
(* executable comments, optimizer hints and the bodies of stored programs. *)
(*                                                                         *)
(* A script is a sequence of letters: a word, a mark, a line end.  Two     *)
(* words in a row have a blank between them; "bs" is a backslash, "bq" a   *)
(* backtick, "w" any other word.  Carriage returns, the length limit of a  *)
(* delimiter and the refusal of NO_BACKSLASH_ESCAPES are left out.         *)
(***************************************************************************)
EXTENDS Integers, Sequences, FiniteSets, FiniteSetsExt

CONSTANT
  Families   \* of scripts: each begins with one of the heads and goes on with at most size letters

Verbs == {"CREATE", "ALTER"}
Blocks == {"IF", "LOOP", "CASE"}
Commands == {"DELIMITER", "EXIT", "GO", "STATUS", "SOURCE", "USE"}
Words == Verbs \cup Blocks \cup Commands
           \cup {"w", "N", "DEFINER", "CURRENT_USER", "PROCEDURE", "EVENT", "BEGIN", "END", "THEN"}
Marks == {"'", "bq", "#", "/*", "/*!", "/*+", "*/", ";", "//", "nl", "bs", ".", "@", "=", "(", ")"}

DelimiterScriptAssumption ==
  \A f \in Families :
    f.size \in Nat /\ f.letters \subseteq Words \cup Marks /\ \A h \in f.heads : h \in Seq(Words \cup Marks)

VARIABLES
  script,    \* the text
  phase,     \* "read", "done" or "refused"
  pos,       \* the letter that is read next
  head,      \* it is the first of its line
  delimiter, \* the active delimiter
  code,      \* where the statement that is read begins, 0 if it did not
  spans,     \* comments of the statement
  fragments, \* semicolons in it, under another delimiter
  client,    \* inside which constructs: see TypeOK
  program,   \* ProgramBody
  records    \* what was returned

vars == <<script, phase, pos, head, delimiter, code, spans, fragments, client, program, records>>

Initial == <<";">>
N == Len(script)
Letter(i) == IF i \in 1..N THEN script[i] ELSE "nl"
Eol(i) == Min({j \in i..N : script[j] = "nl"} \cup {N + 1})
Matches(d, i) == i + Len(d) - 1 <= N /\ SubSeq(script, i, i + Len(d) - 1) = d
FreshProgram == [head |-> "start", verb |-> "", is |-> FALSE, stack |-> << >>, depth |-> 0,
                 prev |-> "", afterEnd |-> FALSE]

TypeOK ==
  /\ phase \in {"read", "done", "refused"} /\ pos \in 1..N + 1 /\ code \in 0..N
  /\ head \in BOOLEAN /\ delimiter # << >>
  /\ spans \subseteq 1..N /\ fragments \subseteq 1..N
  \* exec: in an executable comment; clean: it opened before any code; only: all code so
  \* far is executable comments; analysis: exec for the fragments; qualifier: after @ or .;
  \* hint: a hint goes on after its line; line: a line comment was read
  /\ client \in [exec: BOOLEAN, clean: BOOLEAN, only: BOOLEAN, analysis: BOOLEAN,
                 qualifier: BOOLEAN, hint: BOOLEAN, line: BOOLEAN]
  /\ program.is \in BOOLEAN /\ program.depth \in 0..N
  /\ \A k \in DOMAIN records : records[k].from < records[k].to

Init ==
  /\ \E f \in Families : \E h \in f.heads, n \in 0..f.size : \E t \in [1..n -> f.letters] : script = h \o t
  /\ phase = "read" /\ pos = 1 /\ head = TRUE /\ delimiter = Initial
  /\ code = 0 /\ spans = {} /\ fragments = {}
  /\ client = [exec |-> FALSE, clean |-> FALSE, only |-> FALSE, analysis |-> FALSE,
               qualifier |-> FALSE, hint |-> FALSE, line |-> FALSE]
  /\ program = FreshProgram /\ records = << >>

-----------------------------------------------------------------------------
(* Client commands (delimiter_commands.py). *)

\* The argument of DELIMITER: quoted up to the matching quote of the line, else up to
\* the first blank; none when it is empty, unclosed or has a backslash.
ReadDelimiter(i) ==
  LET eol == Eol(i + 1)
      quote == Letter(i + 1)
      quoted == quote \in {"'", "bq"}
      close == {j \in (i + 2)..(eol - 1) : script[j] = quote}
      blank == {j \in (i + 2)..(eol - 1) : script[j] \in Words /\ script[j - 1] \in Words}
      value == IF quoted THEN (IF close = {} THEN << >> ELSE SubSeq(script, i + 2, Min(close) - 1))
               ELSE SubSeq(script, i + 1, Min(blank \cup {eol}) - 1)
  IN  IF \E j \in 1..Len(value) : value[j] = "bs" THEN << >> ELSE value

\* From i to the end of the line there are only terminators.
OnlyTerminators(i) ==
  LET eol == Eol(i)
      run[j \in i..eol] == \/ j = eol
                           \/ Matches(delimiter, j) /\ j + Len(delimiter) <= eol /\ run[j + Len(delimiter)]
                           \/ script[j] = ";" /\ run[j + 1]
  IN  run[i]

\* The delimiter is on the rest of the line, before any comment.
Terminated(i) ==
  LET stops == {j \in i..(Eol(i) - 1) : Matches(delimiter, j)}
  IN  stops # {} /\ \A j \in i..(Min(stops) - 1) : script[j] \notin {"#", "/*", "/*!", "/*+"}

\* What the first word of a line is.
ClassifyLine(i) ==
  LET word == Letter(i)
      next == Letter(i + 1)
      gap == next \in Words \cup {"nl"}
  IN  CASE word = "DELIMITER" -> "delimiter"
        [] word = "GO" /\ next = "nl" -> "refused"
        [] word = "EXIT" /\ (next \in {"nl", ";"} \/ Matches(delimiter, i + 1)) -> "refused"
        [] word = "USE" /\ gap /\ ~Terminated(i + 1) -> "refused"
        [] word = "SOURCE" /\ (gap \/ OnlyTerminators(i + 1)) -> "refused"
        [] word = "STATUS" /\ OnlyTerminators(i + 1) -> "refused"
        [] OTHER -> "text"

-----------------------------------------------------------------------------
(* Stored programs (program_body.py). *)

Starts == {";", "BEGIN", "THEN", "LOOP"}

\* The head of a statement up to the kind of object.
HeadNext(p, kind, value) ==
  LET to(h) == [p EXCEPT !.head = h]
      verb == IF kind # "word" THEN to("done")
              ELSE IF value = "DEFINER" THEN to("definer_eq")
              ELSE IF value = "EVENT" \/ (value = "PROCEDURE" /\ p.verb = "CREATE")
                   THEN [p EXCEPT !.is = TRUE, !.head = "done"] ELSE to("done")
  IN  CASE p.head = "start" -> IF kind = "word" /\ value \in Verbs
                               THEN [p EXCEPT !.verb = value, !.head = "verb"] ELSE to("done")
        [] p.head = "verb" -> verb
        [] p.head = "definer_eq" -> to(IF value = "=" THEN "definer_user" ELSE "done")
        [] p.head = "definer_user" -> to(IF value = "CURRENT_USER" THEN "definer_current"
                                         ELSE IF kind = "punct" THEN "done" ELSE "definer_at")
        [] p.head = "definer_current" -> IF value = "(" THEN to("definer_close") ELSE verb
        [] p.head = "definer_close" -> to(IF value = ")" THEN "verb" ELSE "done")
        [] p.head = "definer_at" -> IF value = "@" THEN to("definer_host") ELSE verb
        [] p.head = "definer_host" -> to(IF kind = "punct" THEN "done" ELSE "verb")
        [] OTHER -> p

\* A word of the body: blocks open and close.
Body(p, word) ==
  LET q == [p EXCEPT !.afterEnd = FALSE]
      top == p.stack[Len(p.stack)]
      push(x) == [q EXCEPT !.stack = Append(@, x)]
      begins == p.depth = 0 /\ p.prev \in Starts /\ top # "CASE_EXPR"
  IN  IF word = "END"
      THEN [p EXCEPT !.afterEnd = TRUE, !.stack = IF @ = << >> THEN @ ELSE SubSeq(@, 1, Len(@) - 1)]
      ELSE IF p.afterEnd /\ word \in Blocks THEN q
      ELSE IF word = "BEGIN" /\ p.depth = 0 THEN push("BEGIN")
      ELSE IF p.stack = << >> THEN q
      ELSE IF word = "CASE" THEN push(IF begins THEN "CASE" ELSE "CASE_EXPR")
      ELSE IF word \in Blocks /\ begins THEN push(word) ELSE q

ProgramWord(p, word) ==
  [(IF p.is THEN Body(p, word) ELSE HeadNext(p, "word", word)) EXCEPT !.prev = word]

ProgramQuoted(p) == [(IF p.is THEN p ELSE HeadNext(p, "quoted", "")) EXCEPT !.prev = "'"]

ProgramPunct(p, char) ==
  [(IF ~p.is THEN HeadNext(p, "punct", char)
    ELSE [p EXCEPT !.afterEnd = FALSE,
                   !.depth = CASE char = "(" -> @ + 1 [] char = ")" /\ @ > 0 -> @ - 1 [] OTHER -> @])
     EXCEPT !.prev = char]

ProgramOpen == program.is /\ program.stack # << >>

-----------------------------------------------------------------------------
(* Steps of the reader. *)

Refuse ==
  /\ phase' = "refused"
  /\ UNCHANGED <<script, pos, head, delimiter, code, spans, fragments, client, program, records>>

\* The reader goes on behind a token that is code or is not.
Move(to) == pos' = to /\ head' = FALSE /\ UNCHANGED <<script, phase, delimiter, records>>
Code == code' = IF code = 0 THEN pos ELSE code

\* Outside an executable comment the statement has code of its own.
Outside(c) == IF c.exec THEN c ELSE [c EXCEPT !.only = FALSE]
Unqualified(c) == [c EXCEPT !.qualifier = FALSE]

\* A construct that spans lines ends an executable comment.
Spanning(c, to) == IF \E j \in pos..(to - 1) : script[j] = "nl" THEN Unqualified([c EXCEPT !.exec = FALSE]) ELSE c

\* Only for the first letter of a line: the client could take its word for a command.
IsCommand ==
  /\ head /\ (code = 0 \/ client.only) /\ ClassifyLine(pos) # "text"
  /\ code # 0 => Letter(pos) = "EXIT"

Reading == phase = "read" /\ pos <= N
Meets(S) == Reading /\ Letter(pos) \in S /\ ~IsCommand
AtDelimiter == Matches(delimiter, pos) /\ Letter(pos) \notin {"nl", "bs"}
Plain(S) == Meets(S) /\ ~AtDelimiter

Command ==
  /\ Reading /\ IsCommand
  /\ IF ClassifyLine(pos) = "refused" \/ ReadDelimiter(pos) = << >> THEN Refuse
     ELSE /\ delimiter' = ReadDelimiter(pos) /\ pos' = Eol(pos) /\ head' = FALSE
          /\ records' = Append(records, [kind |-> "directive", from |-> pos, to |-> Eol(pos), parts |-> {}])
          /\ UNCHANGED <<script, phase, code, spans, fragments, client, program>>

\* A line ends, and with it what the reader takes for an executable comment.
NewLine ==
  /\ Meets({"nl"})
  /\ pos' = pos + 1 /\ head' = TRUE
  /\ client' = [client EXCEPT !.exec = FALSE, !.qualifier = @ /\ client.line, !.line = FALSE]
  /\ UNCHANGED <<script, phase, delimiter, code, spans, fragments, program, records>>

\* Every backslash command but the value \N is refused.
Escape ==
  /\ Meets({"bs"})
  /\ IF Letter(pos + 1) # "N" THEN Refuse
     ELSE Move(pos + 2) /\ Code /\ client' = Unqualified(client) /\ UNCHANGED <<spans, fragments, program>>

\* The last letter of the statement that ends before cut; blanks are stripped.
LastOf(cut) == Max({j \in code..(cut - 1) : script[j] # "nl"}) + 1

\* Pieces of a statement between its semicolons that hold code.
Pieces(to) ==
  LET ends == {f \in fragments : f < to} \cup {to}
      begin(e) == Max({f + 1 : f \in {g \in ends : g < e}} \cup {code})
      live(a, b) == {j \in a..(b - 1) : script[j] # "nl" /\ j \notin spans}
  IN  {live(begin(e), e) : e \in ends} \ {{}}

Emitted(cut) ==
  IF code = 0 THEN records
  ELSE Append(records, [kind |-> "statement", from |-> code, to |-> LastOf(cut),
                        parts |-> IF fragments = {} \/ program.is THEN {} ELSE Pieces(LastOf(cut))])

Begun == code' = 0 /\ spans' = {} /\ fragments' = {} /\ program' = FreshProgram

\* The delimiter ends a statement, unless a stored program is open under ";".
Delimiter ==
  /\ Reading /\ ~IsCommand /\ AtDelimiter
  /\ pos' = pos + Len(delimiter) /\ head' = FALSE /\ UNCHANGED <<script, phase, delimiter>>
  /\ IF delimiter = Initial /\ ProgramOpen
     THEN /\ program' = ProgramPunct(program, ";") /\ client' = Unqualified(Outside(client)) /\ Code
          /\ UNCHANGED <<spans, fragments, records>>
     ELSE /\ records' = Emitted(pos) /\ Begun
          /\ client' = [client EXCEPT !.qualifier = FALSE, !.only = FALSE]

\* A comment from pos to before to.  What follows one that stands before any code may not
\* be a command.
Comment(to, c) ==
  IF code = 0 /\ Letter(pos) # "#" /\ Letter(to) # "DELIMITER" /\ ClassifyLine(to) # "text"
  THEN Refuse
  ELSE /\ Move(to) /\ spans' = spans \cup pos..(to - 1) /\ client' = c
       /\ UNCHANGED <<code, fragments, program>>

LineComment == Plain({"#"}) /\ Comment(Eol(pos), [client EXCEPT !.line = TRUE])

BlockComment ==
  /\ Plain({"/*"})
  /\ LET ends == {j \in (pos + 1)..N : script[j] = "*/"}
     IN  IF client.exec \/ ends = {} THEN Refuse
         ELSE Comment(Min(ends) + 1, Spanning(client, Min(ends)))

\* An optimizer hint is hidden on its opening line.
Hint ==
  /\ Plain({"/*+"})
  /\ LET ends == {j \in (pos + 1)..(Eol(pos) - 1) : script[j] = "*/"}
         to == IF ends = {} THEN Eol(pos) ELSE Min(ends) + 1
     IN  IF client.exec \/ \E j \in pos..(to - 1) : script[j] = "bs" THEN Refuse
         ELSE IF ends = {}
         THEN /\ Move(to) /\ spans' = spans \cup pos..(to - 1)
              /\ client' = [client EXCEPT !.hint = TRUE] /\ UNCHANGED <<code, fragments, program>>
         ELSE Comment(to, [client EXCEPT !.hint = FALSE])

\* An executable comment opens: its text is code.
Executable ==
  /\ Plain({"/*!"})
  /\ IF client.exec THEN Refuse
     ELSE /\ Move(pos + 1) /\ Code
          /\ client' = [client EXCEPT !.exec = TRUE, !.clean = code = 0, !.analysis = TRUE,
                                      !.only = @ \/ code = 0]
          /\ UNCHANGED <<spans, fragments, program>>

\* "*/" closes an executable comment or a hint, or is two symbols.
Closer ==
  /\ Plain({"*/"})
  /\ IF client.exec /\ client.clean /\ Letter(pos + 1) # "DELIMITER"
          /\ ClassifyLine(pos + 1) # "text"
     THEN Refuse
     ELSE /\ Move(pos + 1) /\ Code /\ UNCHANGED <<spans, fragments>>
          /\ client' = Unqualified(IF client.exec THEN [client EXCEPT !.exec = FALSE, !.analysis = FALSE]
                                   ELSE [client EXCEPT !.hint = FALSE, !.analysis = FALSE, !.only = FALSE])
          /\ program' = IF client.exec THEN program ELSE ProgramPunct(ProgramPunct(program, "*"), "/")

\* Mutant: a backslash does not escape a quote.
StringEndPlain(i) ==
  LET ends == {j \in (i + 1)..N : script[j] = script[i]} IN IF ends = {} THEN 0 ELSE Min(ends)

\* Where the literal that opens at i closes, 0 if it does not; a backslash escapes the next
\* letter, but for backticks.
StringEnd(i) ==
  LET escaped[j \in i..N] == j > i + 1 /\ script[i] = "'" /\ script[j - 1] = "bs" /\ ~escaped[j - 1]
      ends == {j \in (i + 1)..N : script[j] = script[i] /\ ~escaped[j]}
  IN  IF ends = {} THEN 0 ELSE Min(ends)

Literal ==
  /\ Plain({"'", "bq"})
  /\ LET end == StringEnd(pos)
     IN  IF end = 0 THEN Refuse
         ELSE /\ Move(end + 1) /\ Code /\ program' = ProgramQuoted(program)
              /\ client' = Outside(Unqualified(Spanning(client, end))) /\ UNCHANGED <<spans, fragments>>

\* DELIMITER that would begin a statement in the middle of a line is refused.
Word ==
  /\ Plain(Words)
  /\ IF code = 0 /\ Letter(pos) = "DELIMITER" THEN Refuse
     ELSE /\ Move(pos + 1) /\ Code /\ client' = Unqualified(Outside(client))
          /\ program' = IF client.qualifier THEN ProgramQuoted(program) ELSE ProgramWord(program, Letter(pos))
          /\ UNCHANGED <<spans, fragments>>

\* Another character; ";" under another delimiter cuts the text that is analysed.
Symbol ==
  /\ Plain({";", "//", ".", "@", "=", "(", ")"})
  /\ Move(pos + 1) /\ Code /\ UNCHANGED spans
  /\ fragments' = IF Letter(pos) = ";" /\ ~client.analysis THEN fragments \cup {pos} ELSE fragments
  /\ client' = [Outside(client) EXCEPT !.qualifier = Letter(pos) \in {"@", "."}]
  /\ program' = ProgramPunct(program, Letter(pos))

\* The end of the script: an open hint or stored program is refused.
Finish ==
  /\ phase = "read" /\ pos > N
  /\ IF client.hint \/ (code # 0 /\ delimiter = Initial /\ ProgramOpen) THEN Refuse
     ELSE /\ phase' = "done" /\ records' = Emitted(N + 1)
          /\ UNCHANGED <<script, pos, head, delimiter, code, spans, fragments, client, program>>

Next ==
  \/ Command \/ NewLine \/ Escape \/ Delimiter \/ LineComment \/ BlockComment \/ Hint
  \/ Executable \/ Closer \/ Literal \/ Word \/ Symbol \/ Finish

Spec == Init /\ [][Next]_vars

-----------------------------------------------------------------------------
(* What the mysql client does (docs/sql-parsing/mysql.md, for 8.4.11 where  *)
(* the clients differ): it reads line by line and letter by letter, knows   *)
(* no programs and sends what it cuts.                                      *)

\* The client before letter i: what it is inside of ("line" until the line ends), the
\* delimiter, the statement that is pending, letters to skip, whether it ran a command,
\* and whether that was USE without a name.
Client ==
  LET begin == [in |-> "text", delim |-> Initial, from |-> 0, skip |-> 0, ran |-> FALSE, nameless |-> FALSE]
      text(c, i) == [c EXCEPT !.from = IF @ = 0 THEN i ELSE @]
      alone(i) == Letter(i + 1) = "nl"
      argument(i) == Letter(i + 1) \in Words
      terminators(c, i) ==
        \A j \in (i + 1)..(Eol(i) - 1) :
          script[j] = ";" \/ \E k \in (i + 1)..j : Matches(c.delim, k) /\ j < k + Len(c.delim)
      start(c, i) == (i = 1 \/ script[i - 1] = "nl") /\ c.from = 0
      nameless(c, i) == start(c, i) /\ script[i] = "USE" /\ ~alone(i) /\ terminators(c, i)
      command(c, i) ==
        /\ start(c, i)
        /\ \/ script[i] = "DELIMITER"
           \/ script[i] = "GO" /\ alone(i)
           \/ script[i] = "EXIT" /\ (alone(i) \/ Letter(i + 1) = ";" \/ Matches(c.delim, i + 1))
           \/ script[i] = "STATUS" /\ terminators(c, i)
           \/ script[i] = "SOURCE" /\ (argument(i) \/ terminators(c, i))
           \/ script[i] = "USE" /\ (alone(i) \/ argument(i))
                /\ \A j \in i..(Eol(i) - 1) : ~Matches(c.delim, j)
      next(c, i) ==
        CASE c.skip > 0 -> [c EXCEPT !.skip = @ - 1]
          [] script[i] = "nl" /\ c.in \in {"line", "text"} -> [c EXCEPT !.in = "text"]
          [] c.in = "line" -> c
          [] c.in = "hint" -> [c EXCEPT !.in = IF script[i] \in {"*/", "nl"} THEN "text" ELSE @]
          [] c.in = "block" -> [c EXCEPT !.in = IF script[i] = "*/" THEN "text" ELSE @]
          [] c.in = "'" /\ script[i] = "bs" -> [c EXCEPT !.skip = 1]
          [] c.in \in {"'", "bq"} -> [c EXCEPT !.in = IF script[i] = c.in THEN "text" ELSE @]
          [] nameless(c, i) -> [c EXCEPT !.nameless = TRUE]
          [] command(c, i) ->
               IF script[i] # "DELIMITER" THEN [c EXCEPT !.ran = TRUE]
               ELSE [c EXCEPT !.in = "line", !.delim = IF ReadDelimiter(i) = << >> THEN @ ELSE ReadDelimiter(i),
                              !.ran = ReadDelimiter(i) = << >>]
          [] script[i] = "bs" -> IF Letter(i + 1) = "N" THEN [text(c, i) EXCEPT !.skip = 1]
                                 ELSE [c EXCEPT !.ran = TRUE]
          [] Matches(c.delim, i) -> [c EXCEPT !.from = 0, !.skip = Len(c.delim) - 1]
          [] script[i] = "#" -> [c EXCEPT !.in = "line"]
          [] script[i] = "/*" -> [c EXCEPT !.in = "block"]
          [] script[i] = "/*+" -> [c EXCEPT !.in = "hint"]
          [] script[i] \in {"'", "bq"} -> [text(c, i) EXCEPT !.in = script[i]]
          [] OTHER -> text(c, i)
      c[i \in 1..N + 1] == IF i = 1 THEN begin ELSE next(c[i - 1], i - 1)
  IN  c

\* The statements the client sends, as <<from, to>>.
Sent ==
  LET c == Client
      cut(i) == c[i].from # 0 /\ (i = N + 1 \/ c[i + 1].from = 0)
  IN  {<<c[i].from, Max({j \in c[i].from..(i - 1) : script[j] # "nl"}) + 1>> : i \in {j \in 1..N + 1 : cut(j)}}

Statements == {<<r.from, r.to>> : r \in {records[k] : k \in {j \in DOMAIN records : records[j].kind = "statement"}}}

\* The client runs USE with a terminator and no name itself, and complains.
NamelessUse == LET c == Client IN \E i \in 1..N + 1 : c[i].nameless

\* A stored program stands in the script.
HasProgram == \E i \in 1..N : script[i] \in Verbs

-----------------------------------------------------------------------------
(* Properties. *)

\* A script that is not refused is cut where the mysql client cuts it, whatever order
\* comments, strings, hints and delimiters come in (LexicalTokenizer._read_delimiter_token),
\* unless it has a USE without a name, which dblift sends to the server.
CutsAsTheClient == (phase = "done" /\ ~HasProgram /\ ~NamelessUse) => Statements = Sent

\* A script in which the client would run a command of its own is refused, but for the
\* USE without a name (delimiter_commands.classify_line, check_escape).
ClientCommandsRefused ==
  (phase = "done" /\ ~NamelessUse) => LET c == Client IN ~\E i \in 1..N + 1 : c[i].ran

\* The analysed pieces of a unit that is sent whole are cut at semicolons outside its
\* strings, comments and executable comments, and no code is missing from them
\* (DelimiterScript.fragment, _emit).
FragmentsAreLive ==
  phase = "done" => \A k \in DOMAIN records : records[k].parts # {} =>
    LET r == records[k]
        c == Client
        text == {j \in r.from..(r.to - 1) : c[j].in = "text"}
        inside(j) == \E i \in text : i < j /\ script[i] = "/*!" /\ \A l \in i..j : script[l] # "*/"
        cuts == {j \in text : script[j] = ";" /\ ~inside(j)}
    IN  /\ \A x, y \in r.parts : x # y /\ Min(x) < Min(y) => \E j \in cuts : Max(x) < j /\ j < Min(y)
        /\ {j \in text : script[j] \notin {";", "nl", "#", "/*", "/*+"}} \subseteq UNION r.parts

\* A stored program written without DELIMITER is one statement, up to its last END
\* (ProgramBody).  For families in which what has a program begins with a whole one; a
\* word behind "." and a line comment, which ProgramBody takes for a name, is in none.
WholePrograms ==
  LET last == Max({i \in 1..N : script[i] = "END"})
  IN  (phase # "read" /\ HasProgram /\ (last = N \/ Letter(last + 1) = ";"))
        => phase = "done" /\ records[1].from = 1 /\ records[1].to = last + 1
=============================================================================
