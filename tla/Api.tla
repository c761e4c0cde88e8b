--------------------------------- MODULE Api ---------------------------------
(***************************************************************************)
(* The ways in: clients shared by threads or called from listeners, the    *)
(* asynchronous client, the event emitter, the command line and the MCP    *)
(* server.  Each is a system of its own; a behaviour is one of them, named *)
(* by part, with the setup it was started with, and the variables of the   *)
(* others are parked.                                                      *)
(***************************************************************************)
EXTENDS Naturals, FiniteSets

CONSTANTS
  Programs,      \* [threads, clients, ops, results, override, calls, depth], see Client
  TaskSetups,    \* [tasks, jobs, cancels], see Async
  BusSetups,     \* [calls, inside, most, emits], see Bus
  LineSetups,    \* [chains, sinks, signals], see Line
  ServerSetups   \* [callers, tools, formats, settings, requests, deletions], see Server

VARIABLES
  part, setup,
  issued, stack, lock, active, conn, log, done,             \* ClientCalls
  job, pc, queue, holder, worker, asked, seen, outcome,     \* AsyncClient
  told, closed, shut, pending, cancels,
  lists, exact, wild, mode, stopped, batched, history,      \* EventBus
  dispatches, next, calls, emits, deliveries, fate, present, intent,
  chain, machine, sinks, point, at, answers, records, sink, \* CommandLine
  path, reports, dbclient, code, mishap, signals, struck,
  setting, thread, turn, stdout, buffers, leaked, clients,  \* McpServer
  pin, files, logOf, gone, replies

callVars == <<issued, stack, lock, active, conn, log, done>>
taskVars == <<job, pc, queue, holder, worker, asked, seen, outcome, told, closed, shut, pending, cancels>>
busVars == <<lists, exact, wild, mode, stopped, batched, history, dispatches, next, calls, emits,
             deliveries, fate, present, intent>>
lineVars == <<chain, machine, sinks, point, at, answers, records, sink, path, reports, dbclient, code,
              mishap, signals, struck>>
serverVars == <<setting, thread, turn, stdout, buffers, leaked, clients, pin, files, logOf, gone, replies>>
vars == <<part, setup, callVars, taskVars, busVars, lineVars, serverVars>>

Client(s) == INSTANCE ClientCalls WITH
  Threads <- s.threads, Clients <- s.clients, Ops <- s.ops, Results <- s.results, Override <- s.override,
  MaxCalls <- s.calls, MaxDepth <- s.depth
Async(s) == INSTANCE AsyncClient WITH
  Tasks <- s.tasks, Jobs <- s.jobs, MaxCancels <- s.cancels
Bus(s) == INSTANCE EventBus WITH
  Calls <- s.calls, Inside <- s.inside, MaxCalls <- s.most, MaxEmits <- s.emits,
  stack <- dispatches, log <- deliveries
Line(s) == INSTANCE CommandLine WITH
  Chains <- s.chains, ReportSinks <- s.sinks, MaxSignals <- s.signals
Server(s) == INSTANCE McpServer WITH
  Callers <- s.callers, Tools <- s.tools, Formats <- s.formats, Settings <- s.settings,
  MaxRequests <- s.requests, MaxDeletions <- s.deletions

ApiAssumption ==
  /\ \A s \in Programs : Client(s)!ClientAssumption
  /\ \A s \in TaskSetups : Async(s)!AsyncClientAssumption
  /\ \A s \in BusSetups : Bus(s)!EventBusAssumption
  /\ \A s \in LineSetups : Line(s)!CommandLineAssumption
  /\ \A s \in ServerSetups : Server(s)!McpServerAssumption

ASSUME ApiAssumption

Parked == "parked"
NoCalls ==
  /\ issued = Parked /\ stack = Parked /\ lock = Parked /\ active = Parked /\ conn = Parked
  /\ log = Parked /\ done = Parked
NoTasks ==
  /\ job = Parked /\ pc = Parked /\ queue = Parked /\ holder = Parked /\ worker = Parked /\ asked = Parked
  /\ seen = Parked /\ outcome = Parked /\ told = Parked /\ closed = Parked /\ shut = Parked
  /\ pending = Parked /\ cancels = Parked
NoBus ==
  /\ lists = Parked /\ exact = Parked /\ wild = Parked /\ mode = Parked /\ stopped = Parked
  /\ batched = Parked /\ history = Parked /\ dispatches = Parked /\ next = Parked /\ calls = Parked
  /\ emits = Parked /\ deliveries = Parked /\ fate = Parked /\ present = Parked /\ intent = Parked
NoLine ==
  /\ chain = Parked /\ machine = Parked /\ sinks = Parked /\ point = Parked /\ at = Parked
  /\ answers = Parked /\ records = Parked /\ sink = Parked /\ path = Parked /\ reports = Parked
  /\ dbclient = Parked /\ code = Parked /\ mishap = Parked /\ signals = Parked /\ struck = Parked
NoServer ==
  /\ setting = Parked /\ thread = Parked /\ turn = Parked /\ stdout = Parked /\ buffers = Parked
  /\ leaked = Parked /\ clients = Parked /\ pin = Parked /\ files = Parked /\ logOf = Parked
  /\ gone = Parked /\ replies = Parked

Init ==
  \/ part = "calls" /\ NoTasks /\ NoBus /\ NoLine /\ NoServer
       /\ \E s \in Programs : setup = s /\ Client(s)!Init
  \/ part = "async" /\ NoCalls /\ NoBus /\ NoLine /\ NoServer
       /\ \E s \in TaskSetups : setup = s /\ Async(s)!Init
  \/ part = "bus" /\ NoCalls /\ NoTasks /\ NoLine /\ NoServer
       /\ \E s \in BusSetups : setup = s /\ Bus(s)!Init
  \/ part = "line" /\ NoCalls /\ NoTasks /\ NoBus /\ NoServer
       /\ \E s \in LineSetups : setup = s /\ Line(s)!Init
  \/ part = "server" /\ NoCalls /\ NoTasks /\ NoBus /\ NoLine
       /\ \E s \in ServerSetups : setup = s /\ Server(s)!Init

\* Only the variables of the part that runs change.
CallsRun == part = "calls" /\ UNCHANGED <<part, setup, taskVars, busVars, lineVars, serverVars>>
AsyncRuns == part = "async" /\ UNCHANGED <<part, setup, callVars, busVars, lineVars, serverVars>>
BusRuns == part = "bus" /\ UNCHANGED <<part, setup, callVars, taskVars, lineVars, serverVars>>
LineRuns == part = "line" /\ UNCHANGED <<part, setup, callVars, taskVars, busVars, serverVars>>
ServerRuns == part = "server" /\ UNCHANGED <<part, setup, callVars, taskVars, busVars, lineVars>>

Next ==
  \/ CallsRun /\ \E s \in Programs : setup = s /\ Client(s)!Next
  \/ AsyncRuns /\ \E s \in TaskSetups : setup = s /\ Async(s)!Next
  \/ BusRuns /\ \E s \in BusSetups : setup = s /\ Bus(s)!Next
  \/ LineRuns /\ \E s \in LineSetups : setup = s /\ Line(s)!Next
  \/ ServerRuns /\ \E s \in ServerSetups : setup = s /\ Server(s)!Next

ThreadStep(t) == CallsRun /\ \E s \in Programs : setup = s /\ t \in s.threads /\ Client(s)!Step(t)
TaskStep(t) == AsyncRuns /\ \E s \in TaskSetups : setup = s /\ t \in s.tasks /\ Async(s)!Run(t)
WorkerStep == AsyncRuns /\ \E s \in TaskSetups : setup = s /\ Async(s)!Thread
ServerStep(c) == ServerRuns /\ \E s \in ServerSetups : setup = s /\ c \in s.callers /\ Server(s)!Step(c)

AllThreads == UNION {s.threads : s \in Programs}
AllTasks == UNION {s.tasks : s \in TaskSetups}
AllCallers == UNION {s.callers : s \in ServerSetups}

\* The fairness of ClientCalls and AsyncClient; a call of the MCP server
\* goes on: what it calls returns.
Spec ==
  /\ Init /\ [][Next]_vars
  /\ \A t \in AllThreads : SF_vars(ThreadStep(t))
  /\ \A t \in AllTasks : WF_vars(TaskStep(t))
  /\ WF_vars(WorkerStep) /\ \A c \in AllCallers : WF_vars(ServerStep(c))

-----------------------------------------------------------------------------
(* Properties: those of the modules, for the parts they are about.         *)

\* The variables of the part that runs have their types.
TypeOK ==
  /\ part = "calls" => \A s \in Programs : setup = s => Client(s)!TypeOK
  /\ part = "async" => \A s \in TaskSetups : setup = s => Async(s)!TypeOK
  /\ part = "bus" => \A s \in BusSetups : setup = s => Bus(s)!TypeOK

\* One user at a time: two threads are never inside operations of one client
\* (DBLiftClient's RLock), its connection is not closed while an operation uses it, no
\* mutating operation runs underneath another one of the same client, and the worker thread
\* of the asynchronous client works under its task's lock, cancelled or not.  The command
\* line runs nothing after a failed command and closes its client on every way out; calls
\* of the MCP server have one open client between them, and none if it is offline.
OneUser ==
  /\ TypeOK
  /\ part = "calls" => \A s \in Programs : setup = s =>
       Client(s)!Serialised /\ Client(s)!OpenWhileUsed /\ Client(s)!NothingUnderneath
  /\ part = "async" => \A s \in TaskSetups : setup = s => Async(s)!WorkerUnderLock
  /\ part = "line" => \A s \in LineSetups : setup = s => Line(s)!StopsAtFailure /\ Line(s)!UnwindsInOrder
  /\ part = "server" => \A s \in ServerSetups : setup = s => Server(s)!OneClient

\* An operation announced as started is announced once as completed or failed before it
\* returns, as its result says, and on the emitter of its own client.  The exit code and
\* the report files of the command line agree; what a command of the MCP server prints is
\* its own answer, and the log of the session keeps what every call wrote.
EventsAgree ==
  /\ part = "calls" => \A s \in Programs : setup = s =>
       Client(s)!AnnouncedAsReturned /\ Client(s)!EventsLandOnOwner
  /\ part = "line" => \A s \in LineSetups : setup = s => Line(s)!ExitTellsTheTruth
  /\ part = "server" => \A s \in ServerSetups : setup = s => Server(s)!OwnOutput /\ Server(s)!SessionLog

\* Listeners that change the emitter while it calls them: nobody hears of an event twice,
\* wildcard listeners miss none, no batched event is lost, and the last start_batch or
\* stop_batch decides.
EmitterHolds ==
  part = "bus" => \A s \in BusSetups : setup = s =>
    /\ Bus(s)!NotTwice /\ Bus(s)!WildcardListenersHear
    /\ Bus(s)!NothingLost /\ Bus(s)!LastIntentWins

\* Tasks of the asynchronous client: none starts an operation on a closed client, a
\* cancelled one is told so and not of a result, and the guard lets an application start
\* only after info saw nothing pending.
TasksAreTold ==
  /\ [][part = "async" /\ worker.state # "run" /\ worker'.state = "run" => ~shut]_vars
  /\ [][part = "async" => \A t \in setup.tasks :
          pc[t] # "done" /\ pc'[t] = "done" /\ (asked[t] \/ seen[t]) => outcome'[t] = "cancelled"]_vars
  /\ [](part = "async" => \A s \in TaskSetups : setup = s => Async(s)!GuardBlocks)

\* Nobody is in a call, and every task is over.
AllIsOver ==
  /\ part = "calls" => \A t \in setup.threads : stack[t] = << >>
  /\ part = "async" => \A t \in setup.tasks : pc[t] = "done"
  /\ part = "server" => \A c \in setup.callers : thread[c].stage = "idle"

\* Every call of a client returns, and every task of the asynchronous client ends:
\* locks are passed on, also by refused and cancelled callers.  Only listeners that call
\* each other's clients from several threads can wait in a circle.  A call
\* of the MCP server is answered.
CallsEnd ==
  []<>(AllIsOver \/ (part = "calls" /\ \E s \in Programs : setup = s /\ Client(s)!Entangled))
=============================================================================
