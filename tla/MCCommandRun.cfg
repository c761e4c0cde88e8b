SPECIFICATION Spec
CONSTANTS
  Commands <- Known
  Scripts = 2
  Stmts = 2
  MaxRuns = 2
  Interrupts = TRUE
INVARIANTS EventsTellTheTruth CallbacksInPlace JournalTellsTheTruth
PROPERTIES CommandEnds
CHECK_DEADLOCK FALSE
