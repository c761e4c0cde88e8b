\* The configuration, the two splitters, the search for scripts, and the session that
\* scripts and callbacks share.
SPECIFICATION ScriptsSpec
CONSTANTS
  OwnKinds = {"sqlMigration", "pyMigration", "autoMigration", "sqlCallback", "pyCallback", "history", "mark", "clean"}
  CallerKinds = {"sqlMigration", "pyMigration", "sqlCallback", "history", "mark", "clean", "caller"}
  SetIsUndone = TRUE
  MaxUnits = 3
  MySqlFamilies <- MCMySqlFamilies
  Families <- MCFamilies
  Inputs <- MCInputs
  Entries <- MCEntries
  Searches <- MCSearches
INVARIANTS CutAsTheClient ScriptsAreFound UnitsStandAlone ReportedStays PrecedenceKept PathsAndReferences
\* A script is read once; the units are bounded.
CHECK_DEADLOCK FALSE
