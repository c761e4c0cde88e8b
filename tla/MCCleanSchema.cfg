\* Every dialect: clean, its dry run and the provider's own clean_schema.
SPECIFICATION Spec
CONSTANTS
  Dialects = {"postgresql", "redshift", "mysql", "sqlserver", "db2", "oracle", "snowflake", "duckdb", "sqlite", "mongodb", "cosmosdb"}
  Modes = {"clean", "dry", "native"}
  Targets = {"user", "system", "cased"}
  MaxTies = 2
  MaxFaults = 1
  MaxCalls = 2
INVARIANTS CleanTellsTheTruth FailuresAreContained OrderSuffices
PROPERTIES Untouchable
\* The calls are bounded.
CHECK_DEADLOCK FALSE
