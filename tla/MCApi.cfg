\* The client, its asynchronous wrapper and its event emitter, the command line and the
\* MCP server.
SPECIFICATION Spec
CONSTANTS
  Programs <- MCPrograms
  TaskSetups <- MCTaskSetups
  BusSetups <- MCBusSetups
  LineSetups <- MCLineSetups
  ServerSetups <- MCServerSetups
INVARIANTS OneUser EventsAgree EmitterHolds
PROPERTIES TasksAreTold CallsEnd
\* The calls, tasks and emits are bounded.
CHECK_DEADLOCK FALSE
