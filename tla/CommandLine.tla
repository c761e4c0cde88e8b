---------------------------- MODULE CommandLine ----------------------------
(* One invocation of the dblift command line: arguments and configuration, *)
(* the log files, the client, the commands one after the other, and the    *)
(* ways out: refusals, failed commands, exceptions, SIGTERM and Ctrl-C.    *)
(* A report file is written from the recorded results when logs close.     *)
EXTENDS Naturals, Sequences

CONSTANTS Chains,      \* sequences of commands one invocation may ask for
          ReportSinks, \* sequences of formats of its log files
          MaxSignals   \* bound on SIGTERM and Ctrl-C

\* There is a command, and a primary log file.
CommandLineAssumption ==
  /\ Chains \subseteq Seq(STRING) \ {<< >>} /\ ReportSinks \subseteq Seq(STRING) \ {<< >>}
  /\ MaxSignals \in Nat

VARIABLES
  chain,     \* the commands asked for
  machine,   \* --format json, for the commands that have one
  sinks,     \* formats of the log files, the order in which they are closed
  point,     \* where main() is
  at,        \* index of the command in the chain
  answers,   \* what the handlers did, one entry per finished command
  records,   \* results given to set_command_completed: TRUE for a success
  sink,      \* index of the log file being closed
  path,      \* why logs are closed: end of the try body, SystemExit, an exception
  reports,   \* per log file its state and the records it was written from
  dbclient,  \* the client: none, open, closing, closed
  code,      \* exit code once decided
  mishap,    \* a log file or the output could not be written
  signals, struck  \* signals so far; the first one and the point it hit

vars == <<chain, machine, sinks, point, at, answers, records, sink, path, reports, dbclient, code,
          mishap, signals, struck>>
asked == <<chain, machine, sinks>>

License == 4
Guarded == {"info", "validate", "migrate"}   \* run_json_guarded
Outcomes == {"ok", "failed", "nothing", "raised", "target", "license"}
Blank == [state |-> "none", rows |-> << >>]

Init ==
  /\ chain \in Chains /\ machine \in BOOLEAN /\ sinks \in ReportSinks
  /\ point = "parse" /\ at = 1 /\ answers = << >> /\ records = << >>
  /\ sink = 1 /\ path = "body" /\ reports = [i \in 1..Len(sinks) |-> Blank]
  /\ dbclient = "none" /\ code = 0 /\ mishap = FALSE
  /\ signals = 0 /\ struck = [kind |-> "none", point |-> "none"]

Exit(c) == point' = "ended" /\ code' = c

\* --version, help and terminal commands answer and exit; arguments and configuration
\* are refused before logs and client exist.
Parse ==
  /\ point = "parse"
  /\ \/ point' = "logging" /\ UNCHANGED code
     \/ \E c \in {0, 1, 2, License} : Exit(c)
  /\ UNCHANGED <<asked, at, answers, records, sink, path, reports, dbclient, mishap, signals, struck>>

\* _configure_logging: an unusable location exits, the files opened before it stay open.
Configure ==
  /\ point = "logging"
  /\ \E n \in 0..Len(sinks) :
       /\ reports' = [i \in 1..Len(sinks) |-> IF i <= n THEN [Blank EXCEPT !.state = "open"] ELSE Blank]
       /\ IF n = Len(sinks) THEN point' = "prepare" /\ UNCHANGED code ELSE Exit(1)
  /\ UNCHANGED <<asked, at, answers, records, sink, path, dbclient, mishap, signals, struck>>

\* Before the try of _dispatch_command: a missing directory or a client that cannot be
\* built ends the process with the logs as they are.
Prepare ==
  /\ point = "prepare"
  /\ \/ \E c \in {1, 2} : Exit(c) /\ UNCHANGED dbclient
     \/ point' = "built" /\ dbclient' = "open" /\ UNCHANGED code
  /\ UNCHANGED <<asked, at, answers, records, sink, path, reports, mishap, signals, struck>>

EnterTry ==
  /\ point = "built" /\ point' = "next"
  /\ UNCHANGED <<asked, at, answers, records, sink, path, reports, dbclient, code, mishap, signals, struck>>

\* Logs are closed from the first one on; c is returned afterwards.
CloseLogs(p, c) == point' = "closing" /\ path' = p /\ sink' = 1 /\ code' = c

\* The loop: usage errors of the command's own arguments, target and options exit with 2,
\* a missing license with its own code; connection errors here are only logged.
NextCommand ==
  /\ point = "next"
  /\ IF at > Len(chain) THEN CloseLogs("body", 0)
     ELSE \/ CloseLogs("exit", 2)
          \/ CloseLogs("exit", License)
          \/ point' = "running" /\ UNCHANGED <<path, sink, code>>
  /\ UNCHANGED <<asked, at, answers, records, reports, dbclient, mishap, signals, struck>>

\* A handler that returned a result, recorded before the output is printed.
Returned(o) ==
  /\ o \in {"ok", "failed"}
  /\ records' = Append(records, o = "ok")
  /\ \/ /\ o = "ok"
        /\ point' = "next" /\ at' = at + 1 /\ UNCHANGED <<path, sink, code, mishap>>
     \/ o = "failed" /\ CloseLogs("body", 1) /\ UNCHANGED <<at, mishap>>
     \/ /\ machine /\ chain[at] \in Guarded
        /\ CloseLogs("except", 1) /\ mishap' = TRUE /\ UNCHANGED at

\* A handler without a result: run_json_guarded records a failed one in machine format.
\* In human format None fails the command, or breaks the handlers that do not expect it.
Threw(o) ==
  /\ o \in {"nothing", "raised", "target", "license"}
  /\ IF machine /\ chain[at] \in Guarded
     THEN records' = Append(records, FALSE) /\ CloseLogs("body", 1)
     ELSE /\ UNCHANGED records
          /\ \/ o = "nothing" /\ chain[at] \in Guarded /\ CloseLogs("body", 1)
             \/ o = "nothing" /\ chain[at] \notin Guarded /\ CloseLogs("except", 1)
             \/ o = "raised" /\ CloseLogs("except", 1)
             \/ o = "target" /\ CloseLogs("except", 2)
             \/ o = "license" /\ CloseLogs("exit", License)
  /\ UNCHANGED <<at, mishap>>

Execute ==
  /\ point = "running"
  /\ \E o \in Outcomes : answers' = Append(answers, o) /\ (Returned(o) \/ Threw(o))
  /\ UNCHANGED <<asked, reports, dbclient, signals, struck>>

\* FileLog.close: the report is written from the records.  JsonFormatter only warns when
\* its file cannot be written, the other formats raise: inside the try body logs are then
\* closed again, in an exception handler the error escapes it.
CloseSink ==
  /\ point = "closing"
  /\ \/ /\ \/ reports' = [reports EXCEPT ![sink] = [state |-> "written", rows |-> records]] /\ UNCHANGED mishap
           \/ sinks[sink] = "json" /\ reports' = [reports EXCEPT ![sink].state = "lost"] /\ mishap' = TRUE
        /\ IF sink < Len(sinks) THEN sink' = sink + 1 /\ UNCHANGED point
                                ELSE point' = "release" /\ UNCHANGED sink
        /\ UNCHANGED <<path, code>>
     \/ /\ sinks[sink] # "json"
        /\ reports' = [reports EXCEPT ![sink].state = "lost"] /\ mishap' = TRUE
        /\ IF path = "body" THEN CloseLogs("except", 1)
                            ELSE point' = "release" /\ code' = 1 /\ UNCHANGED <<path, sink>>
  /\ UNCHANGED <<asked, at, answers, records, dbclient, signals, struck>>

\* The finally clause: _close_client, whose errors are only logged.
Release ==
  /\ \/ point = "release" /\ point' = "releasing" /\ dbclient' = "closing" /\ UNCHANGED code
     \/ point = "releasing" /\ dbclient' = "closed" /\ Exit(code)
  /\ UNCHANGED <<asked, at, answers, records, sink, path, reports, mishap, signals, struck>>

Struck(kind) ==
  /\ point # "ended" /\ signals < MaxSignals /\ signals' = signals + 1
  /\ struck' = IF signals = 0 THEN [kind |-> kind, point |-> point] ELSE struck
  /\ UNCHANGED <<asked, at, answers, records, reports, dbclient, mishap>>

\* SIGTERM kills the process until _sigterm_unwinds raises SystemExit instead, which the
\* try around the commands turns into closed logs and a closed client.
Terminate ==
  /\ Struck("term")
  /\ \/ /\ point \in {"parse", "logging", "prepare", "built", "release", "releasing"}
        /\ Exit(143) /\ UNCHANGED <<sink, path>>
     \/ /\ point \in {"next", "running"} \/ (point = "closing" /\ path = "body")
        /\ CloseLogs("exit", 143)
     \/ /\ point = "closing" /\ path # "body"
        /\ point' = "release" /\ code' = 143 /\ UNCHANGED <<sink, path>>

\* KeyboardInterrupt is caught by no clause but the finally.
Interrupt ==
  /\ Struck("interrupt")
  /\ \/ point \in {"parse", "logging", "prepare", "built", "release", "releasing"} /\ Exit(130)
     \/ point \in {"next", "running", "closing"} /\ point' = "release" /\ code' = 130
  /\ UNCHANGED <<sink, path>>

Step == Parse \/ Configure \/ Prepare \/ EnterTry \/ NextCommand \/ Execute \/ CloseSink \/ Release
Next == Step \/ Terminate \/ Interrupt

-----------------------------------------------------------------------------
\* The report says SUCCESS: no recorded result failed, also when there is none.
SaysSuccess(r) == \A i \in DOMAIN r.rows : r.rows[i]
Succeeded == answers = [i \in 1..Len(chain) |-> "ok"]

\* The exit code and the reports tell the same story: 0 means that every command asked
\* for ran and succeeded and that no written report lacks or denies it, a report that
\* says FAILED comes with another code, and a success nothing disturbed exits with 0.
ExitTellsTheTruth ==
  point = "ended" /\ dbclient # "none" =>
    /\ code = 0 => /\ Succeeded
                   /\ \A i \in DOMAIN reports :
                        reports[i].state = "written" =>
                          SaysSuccess(reports[i]) /\ Len(reports[i].rows) = Len(chain)
    /\ (\E i \in DOMAIN reports : reports[i].state = "written" /\ ~SaysSuccess(reports[i])) => code # 0
    /\ Succeeded /\ signals = 0 /\ ~mishap => code = 0

\* Nothing runs after a command that did not succeed, and the client a command uses is
\* neither closing nor closed.
StopsAtFailure ==
  /\ \A i \in 1..Len(answers) : answers[i] # "ok" => i = Len(answers)
  /\ point \in {"next", "running"} => dbclient = "open" /\ \A i \in DOMAIN answers : answers[i] = "ok"

\* The way out: a client that was built is closed however the commands ended, unless a
\* signal hits outside the try or in the finally; SIGTERM while commands run also leaves
\* final reports and the code 143 (_sigterm_unwinds: "finally blocks run").
UnwindsInOrder ==
  point = "ended" /\ dbclient # "none" =>
    /\ dbclient = "closed" \/ signals > 1 \/ struck.point \in {"built", "release", "releasing"}
    /\ signals = 1 /\ struck.kind = "term" /\ struck.point \in {"next", "running"} /\ ~mishap =>
         code = 143 /\ \A i \in DOMAIN reports : reports[i] = [state |-> "written", rows |-> records]
=============================================================================
