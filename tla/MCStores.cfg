\* The history table of every dialect and the lock document of Cosmos DB: two migrates
\* and a baseline that all find an empty database.
SPECIFICATION StoresSpec
CONSTANTS
  Procs = {"p1", "p2", "p3"}
  Baseliner = {"p3"}
  Scripts = {1, 2}
  Dialects = {"postgresql", "flyway", "mysql", "sqlserver", "db2", "oracle", "snowflake", "duckdb", "sqlite", "mongodb", "cosmosdb"}
  LockSetups <- MCLockSetups
  MaxFaults = 1
  MaxDeaths = 1
INVARIANTS HistoryAgrees DocumentIsTheHolders
PROPERTIES RowsOnce EveryoneEnds
\* The processes end.
CHECK_DEADLOCK FALSE
