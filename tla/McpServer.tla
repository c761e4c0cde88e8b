----------------------------- MODULE McpServer -----------------------------
(* The dblift mcp server: which tools it offers, and calls of them that    *)
(* replay the phases of the command line in the worker threads of one      *)
(* process, sharing its standard output and the log file of the session.   *)
EXTENDS Naturals, FiniteSets

CONSTANTS Callers,     \* worker threads of the SDK
          Tools,       \* tools as records of what they do: writes, connects
          Formats,     \* log formats the configuration may ask for
          Settings,    \* the server's flags: readOnly, mode, offline, the tools it may offer,
                       \* and naming: a name that tells the second, or a --log-file that is
                       \* "stamped" with it or "fixed"
          MaxRequests, MaxDeletions   \* bounds: calls, log files deleted by others

Requests == 1..MaxRequests
McpServerAssumption ==
  /\ Tools \subseteq [writes : BOOLEAN, connects : BOOLEAN]
  /\ Formats \subseteq {"text", "json", "both"}
  /\ Settings \subseteq [readOnly : BOOLEAN, mode : {"author", "review"}, offline : BOOLEAN, named : SUBSET Tools,
                          naming : {"default", "stamped", "fixed"}]
  /\ {MaxRequests, MaxDeletions} \subseteq Nat /\ 0 \notin Callers

VARIABLES
  setting,   \* the flags this server was started with
  thread,    \* per worker thread the call it runs
  turn,      \* _CALL_LOCK: the thread that holds it, 0 for nobody
  stdout,    \* where the process prints: 0 for the JSON-RPC channel, or a call's buffer
  buffers,   \* per call the calls whose output its buffer holds
  leaked,    \* a command printed on the channel
  clients,   \* calls with an open client
  pin,       \* _LOG_FILE; 0 for none.  A file is named by the first call that opened it
  files,     \* per file the calls it tells of, {} when it does not exist
  logOf,     \* per call its log file and format
  gone,      \* files deleted by others
  replies    \* per call how it was answered

vars == <<setting, thread, turn, stdout, buffers, leaked, clients, pin, files, logOf, gone, replies>>
logs == <<pin, files, logOf, gone>>

Call(stage, i, t) == [stage |-> stage, id |-> i, tool |-> t, saved |-> 0, pinned |-> 0, fine |-> TRUE]
Idle == Call("idle", 0, 0)
made == Cardinality({i \in Requests : replies[i] # "none"})

Init ==
  /\ setting \in Settings
  /\ thread = [c \in Callers |-> Idle] /\ turn = 0 /\ stdout = 0 /\ leaked = FALSE /\ clients = {}
  /\ pin = 0 /\ files = [i \in Requests |-> {}] /\ gone = {}
  /\ logOf = [i \in Requests |-> [file |-> 0, format |-> "none"]]
  /\ buffers = [i \in Requests |-> {}] /\ replies = [i \in Requests |-> "none"]

\* raw_tool: a tool that writes is not offered to read or review, and the list of names
\* is exhaustive.
Offered == {t \in setting.named : t.writes => ~setting.readOnly /\ setting.mode # "review"}

At(c, s) == thread[c].stage = s
Move(c, s) == thread' = [thread EXCEPT ![c].stage = s]
\* Whatever is raised inside the redirect leaves it and becomes an error of the call.
Fail(c) == thread' = [thread EXCEPT ![c].stage = "ran", ![c].fine = FALSE]

\* An offline server refuses the tools that connect before anything of them runs.
Ask(c, t) ==
  /\ At(c, "idle") /\ t \in Offered /\ made < MaxRequests
  /\ IF setting.offline /\ t.connects
     THEN replies' = [replies EXCEPT ![made + 1] = "refused"] /\ UNCHANGED thread
     ELSE /\ replies' = [replies EXCEPT ![made + 1] = "awaited"]
          /\ thread' = [thread EXCEPT ![c] = Call("waiting", made + 1, t)]
  /\ UNCHANGED <<setting, turn, stdout, buffers, leaked, clients, logs>>

\* A pinned file that has disappeared is unpinned.  (_pinned_log_file)
Pinned == IF pin # 0 /\ files[pin] = {} THEN 0 ELSE pin

\* run_command: the lock, the redirect, the pinned log file.
Acquire(c) ==
  /\ At(c, "waiting") /\ turn = 0
  /\ turn' = c /\ stdout' = thread[c].id /\ pin' = Pinned
  /\ thread' = [thread EXCEPT ![c].stage = "entered", ![c].saved = stdout, ![c].pinned = Pinned]
  /\ UNCHANGED <<setting, buffers, leaked, clients, files, logOf, gone, replies>>

\* The names a new log file may get.  Text files are named by the second, in local time, so
\* a call may come upon the name of an earlier one; the others have a random part, unless a
\* --log-file names the files of every format alike.
Names(i, format) ==
  LET alike == {j \in Requests : /\ logOf[j].file # 0
                                 /\ setting.naming = "default" => "json" \notin {format, logOf[j].format}}
  IN  IF setting.naming = "fixed" THEN {1} ELSE {i} \cup {logOf[j].file : j \in alike}

\* A document replaces what is in its file when the log closes; the document written
\* beside a text file has a name of its own by default only.
Replaces(format) == format = "json" \/ (format = "both" /\ setting.naming # "default")

\* Configuration and logging: a call that writes one text file goes on in the pinned one,
\* or pins the one it opens; a JSON file is written when logs close.
Configure(c) ==
  LET i == thread[c].id
      pinned == thread[c].pinned
  IN
  /\ At(c, "entered")
  /\ \/ Fail(c) /\ UNCHANGED logs
     \/ \E f \in Formats : \E file \in IF f = "text" /\ pinned # 0 THEN {pinned} ELSE Names(i, f) :
          /\ logOf' = [logOf EXCEPT ![i] = [file |-> file, format |-> f]]
          /\ pin' = IF f = "text" /\ pinned = 0 THEN file ELSE pin
          /\ files' = IF f = "json" THEN files ELSE [files EXCEPT ![file] = @ \cup {i}]
          /\ Move(c, "configured") /\ UNCHANGED gone
  /\ UNCHANGED <<setting, turn, stdout, buffers, leaked, clients, replies>>

\* The client of the call; its connection is opened here or by the handler.
Open(c) ==
  /\ At(c, "configured")
  /\ \/ Fail(c) /\ UNCHANGED clients
     \/ /\ clients' = IF thread[c].tool.connects THEN clients \cup {thread[c].id} ELSE clients
        /\ Move(c, "open")
  /\ UNCHANGED <<setting, turn, stdout, buffers, leaked, logs, replies>>

\* The handler prints wherever the process prints now; then it returns or raises.
Handle(c) ==
  /\ At(c, "open")
  /\ IF stdout = 0 THEN leaked' = TRUE /\ UNCHANGED buffers
     ELSE buffers' = [buffers EXCEPT ![stdout] = @ \cup {thread[c].id}] /\ UNCHANGED leaked
  /\ Fail(c) \/ Move(c, "ran")
  /\ UNCHANGED <<setting, turn, stdout, clients, logs, replies>>

\* Leaving redirect_stdout restores what was there when it was entered.
Leave(c) ==
  /\ At(c, "ran") /\ stdout' = thread[c].saved
  /\ thread' = [thread EXCEPT ![c].stage = "left", ![c].saved = 0, ![c].pinned = 0]
  /\ UNCHANGED <<setting, turn, buffers, leaked, clients, logs, replies>>

\* The finally clause: the client, whose failing close is only logged, then the log, whose
\* failing close becomes the answer.
CloseClient(c) ==
  /\ At(c, "left") /\ clients' = clients \ {thread[c].id} /\ Move(c, "closed")
  /\ UNCHANGED <<setting, turn, stdout, buffers, leaked, logs, replies>>

CloseLog(c) ==
  LET i == thread[c].id IN
  /\ At(c, "closed")
  /\ \/ /\ files' = IF logOf[i].file = 0 THEN files
                    ELSE [files EXCEPT ![logOf[i].file] =
                            IF Replaces(logOf[i].format) THEN {i} ELSE @ \cup {i}]
        /\ Move(c, "over")
     \/ /\ logOf[i].file # 0 /\ UNCHANGED files
        /\ thread' = [thread EXCEPT ![c].stage = "over", ![c].fine = FALSE]
  /\ UNCHANGED <<setting, turn, stdout, buffers, leaked, clients, pin, logOf, gone, replies>>

\* The lock is released and the call answered, with its payload or as a tool error.
Answer(c) ==
  /\ At(c, "over") /\ turn' = 0
  /\ replies' = [replies EXCEPT ![thread[c].id] = IF thread[c].fine THEN "payload" ELSE "error"]
  /\ thread' = [thread EXCEPT ![c] = Idle]
  /\ UNCHANGED <<setting, stdout, buffers, leaked, clients, logs>>

\* Someone rotates or cleans up a log file.
Delete(i) ==
  /\ files[i] # {} /\ Cardinality(gone) < MaxDeletions
  /\ files' = [files EXCEPT ![i] = {}] /\ gone' = gone \cup {i}
  /\ UNCHANGED <<setting, thread, turn, stdout, buffers, leaked, clients, pin, logOf, replies>>

Step(c) ==
  Acquire(c) \/ Configure(c) \/ Open(c) \/ Handle(c) \/ Leave(c) \/ CloseClient(c) \/ CloseLog(c) \/ Answer(c)
Next ==
  \/ \E c \in Callers : Step(c) \/ \E t \in Tools : Ask(c, t)
  \/ \E i \in Requests : Delete(i)

-----------------------------------------------------------------------------
\* The channel belongs to the protocol and a buffer to one call: what a command prints
\* lands in the buffer of its own call, and the process prints on the channel again when
\* no call runs ("Concurrent calls therefore dismantle each other's redirects").
OwnOutput ==
  /\ ~leaked /\ \A i \in Requests : buffers[i] \subseteq {i}
  /\ turn = 0 => stdout = 0

\* At most one client is open, none of an offline server and none when a call is over;
\* a server that may not write runs no tool that does.
OneClient ==
  /\ Cardinality(clients) <= 1 /\ (setting.offline => clients = {})
  /\ clients \subseteq {thread[c].id : c \in Callers}
  /\ \A c \in Callers : ~At(c, "idle") /\ (setting.readOnly \/ setting.mode = "review") => ~thread[c].tool.writes

\* The calls of a session that write one text file write the same one as long as nobody
\* deletes it, whatever formats the configuration asks for in between and whether or not
\* two calls fall into one second.  What a call wrote as text stays there: only with a
\* --log-file may the document of another call that got the same name replace it, and
\* without one no call writes into the document of another.
SessionLog ==
  \A i \in Requests :
    LET file == logOf[i].file  default == setting.naming = "default"
    IN  /\ \A j \in Requests : logOf[i].format = "text" /\ logOf[j].format = "text" /\ file # logOf[j].file =>
             {file, logOf[j].file} \cap gone # {}
        /\ logOf[i].format \in {"text", "both"} =>
             \/ i \in files[file] \/ file \in gone
             \/ ~default /\ \E j \in Requests \ {i} : logOf[j].file = file /\ Replaces(logOf[j].format)
        /\ default /\ logOf[i].format = "json" => files[file] \subseteq {i}
=============================================================================
