------------------------------- MODULE MCApi -------------------------------
(* Api for TLC. *)
EXTENDS Api

Any == {"success", "failure", "preflight", "error"}

MCPrograms == {
  \* Two threads share a client.
  [threads |-> {"t1", "t2"}, clients |-> {"A"}, ops |-> {"clean", "info", "close"},
   results |-> Any, override |-> FALSE, calls |-> 3, depth |-> 2],
  \* One thread; listeners call two clients, whose class overrides the operations.
  [threads |-> {"t1"}, clients |-> {"A", "B"}, ops |-> {"undo", "validate", "clean", "close"},
   results |-> Any, override |-> TRUE, calls |-> 3, depth |-> 4],
  \* Two threads and two clients, whose listeners may call each other's.
  [threads |-> {"t1", "t2"}, clients |-> {"A", "B"}, ops |-> {"clean"}, results |-> {"success"},
   override |-> FALSE, calls |-> 4, depth |-> 2],
  \* One thread, every operation.
  [threads |-> {"t1"}, clients |-> {"A"},
   ops |-> {"info", "validate", "migrate", "undo", "clean", "baseline", "repair", "import_flyway"},
   results |-> Any, override |-> FALSE, calls |-> 2, depth |-> 2]}

MCTaskSetups == {
  [tasks |-> {"t1", "t2", "t3"}, jobs |-> {"migrate", "undo", "close", "guard"}, cancels |-> 1]}

MCBusSetups == {
  \* Listeners that change the lists while they are called.
  [calls |-> {"on", "off", "clear", "clearAll"}, inside |-> {"on", "off", "clear", "clearAll"},
   most |-> 2, emits |-> 1],
  \* Listeners that start, stop and flush batches.
  [calls |-> {"start", "stop", "flush"}, inside |-> {"start", "stop", "flush"}, most |-> 3, emits |-> 3]}

\* An invocation of one or two commands with one or two report files.
MCLineSetups == {
  [chains |-> {<<"info">>, <<"clean">>, <<"migrate", "clean">>}, sinks |-> {<<"json">>, <<"html", "json">>},
   signals |-> 2]}

Does(w, c) == [writes |-> w, connects |-> c]
Flags(m, off, named) == [readOnly |-> FALSE, mode |-> m, offline |-> off, named |-> named, naming |-> "default"]
OneTool(naming) ==
  [Flags("author", FALSE, {Does(FALSE, FALSE)}) EXCEPT !.readOnly = TRUE, !.naming = naming]
McpTools == {Does(TRUE, TRUE), Does(FALSE, TRUE), Does(FALSE, FALSE)}

MCServerSetups == {
  \* Two worker threads: a server that writes and an offline one for review.
  [callers |-> {1, 2}, tools |-> McpTools, formats |-> {"text"}, requests |-> 2, deletions |-> 1,
   settings |-> {Flags("author", FALSE, {Does(TRUE, TRUE)}), Flags("review", TRUE, McpTools)}],
  \* The log of a longer session, one call at a time, and of one with a --log-file.
  [callers |-> {1}, tools |-> McpTools, formats |-> {"text", "json", "both"}, requests |-> 3, deletions |-> 1,
   settings |-> {OneTool("default")}],
  [callers |-> {1}, tools |-> McpTools, formats |-> {"text", "json", "both"}, requests |-> 2, deletions |-> 1,
   settings |-> {OneTool("stamped"), OneTool("fixed")}]}
=============================================================================
