------------------------- MODULE CleanSchemaProofs -------------------------
(***************************************************************************)
(* Proofs about CleanSchema for every set of its dialects, of modes and    *)
(* of targets, and any number of dependencies, failures and calls.         *)
(***************************************************************************)
EXTENDS CleanSchema, SequenceTheorems, TLAPS

-----------------------------------------------------------------------------
(* The inductive invariant.                                                *)

\* The kinds of objects.
Kinds ==
  {"alias", "aggregate", "body", "catalog", "collection", "container", "database_link", "dynamic_table",
   "event", "extension", "external_table", "foreign_key", "function", "late_binding", "macro",
   "materialized_view", "module", "pipe", "policy", "procedure", "query_table", "routine", "secret",
   "sequence", "stage", "stream", "synonym", "table", "table_macro", "temporal", "temporary_table",
   "trigger", "type", "unit", "view"}

\* What is still to be dropped.
Listed == {e.obj : e \in list}

\* While a call of either kind is at work.
Working == pc \in {"list", "drop", "start", "native", "raised"}

\* What the mode and the target allow the call to do.
Allowed ==
  /\ mode \in {"none", "clean", "dry", "native"}
  /\ pc = "list" => mode \in {"clean", "dry"}
  /\ pc = "drop" => mode = "clean"
  /\ pc \in {"start", "native", "raised"} => mode = "native"
  /\ Working => ~IsSystem /\ (mode = "clean" => enabled)

\* A transaction that can no longer commit says so among the errors, and has no savepoints.
\* What is reported is gone, while it has not ended.
Session ==
  /\ before \subseteq Objects(dialect) /\ kinds \in Seq(Kinds)
  /\ tx # "auto" => dialect \in {"postgresql", "redshift"}
  /\ tx = "aborted" => pc \in {"drop", "native", "raised"} /\ NoSavepoints /\ errors # {}
  /\ Working /\ "aborted" \in errors => tx = "aborted"
  /\ Working => reported \cap db = {}
  /\ errors = {} => failed = {}
  /\ pc \in {"list", "start"} => reported = {} /\ failed = {} /\ errors = {} /\ missed = {}
  /\ pc = "list" => ~survey.done

\* The checks are off only while something that turns them on again is to come, or failed.
Checking ==
  /\ ~checks => Switches
  /\ pc \in {"list", "start"} => checks = checked /\ list = {}
  /\ pc = "start" => Switches
  /\ pc = "drop" /\ checked /\ ~checks => Switch(1) \in list \/ "switch" \in errors
  /\ pc = "raised" /\ dialect = "mysql" => "query" \in errors
  /\ Switch(0) \in list => Switch(1) \in list
  /\ \A e \in list : e.obj.kind = "checks" => e \in {Switch(0), Switch(1)} /\ Switches /\ pc # "native"

\* What could not be listed is told of, where the code tells it.
Telling == pc \in {"drop", "native"} => missed = {} \/ told \/ (dialect = "cosmosdb" /\ mode = "native") \/ dialect = "sqlserver"

\* What is left is still to be dropped, has failed or could not be listed.
Emptying ==
  pc = "drop" /\ "aborted" \notin errors => \A o \in Droppable : o \in Listed \/ o \in failed \/ o.kind \in missed

\* Snowflake waits for what is still to be dropped.
Surveying ==
  dialect = "snowflake" /\ pc = "drop" =>
    /\ survey.watched = Listed
    /\ \A e, x \in list : e.obj = x.obj => e = x
    /\ list = {} /\ (reported # {} \/ errors # {}) => survey.done
    /\ survey.done => list = {} /\ (db = {} \/ told \/ survey.failed)

\* What the preview would name is still to be listed or dropped, or could not be listed.
Mirroring ==
  dialect # "postgresql" /\ pc \in {"start", "native"} /\ errors = {} =>
    \A o \in db : o.kind \in Range(It.preview) => o.kind \in Range(kinds) \/ o \in Listed \/ o.kind \in missed

Told == SuccessMeansEmpty /\ SurvivorsAreTold /\ PreviewMirrorsClean /\ FailuresAreIsolated /\ ChecksRestored

IInv == TypeOK /\ Allowed /\ Session /\ Checking /\ Telling /\ Emptying /\ Surveying /\ Mirroring /\ Told

-----------------------------------------------------------------------------
(* The dialects.                                                           *)

\* What the proofs rest on: where a catalog that cannot be read is passed over in silence,
\* clean and clean_schema list nothing from it; what the preview names clean_schema lists, and
\* clean too; MySQL does not stop at a failed drop, and Redshift warns.
PluginFacts(d, p) ==
  /\ p.native \in Seq(Kinds)
  /\ "checks" \notin Range(p.kinds)
  /\ d # "sqlserver" /\ ~p.says => p.optional \cap Range(p.kinds) = {}
  /\ d \notin {"sqlserver", "cosmosdb"} /\ ~p.says => p.skipped \cap Range(p.kinds) = {}
  /\ d # "postgresql" => Range(p.preview) \subseteq Range(p.native) /\ Range(p.native) \subseteq Range(p.kinds)
  /\ d = "mysql" => ~p.stops
  /\ d = "redshift" => p.says

\* They hold of each dialect.
LEMMA PluginsAreSound ==
  ASSUME NEW d \in DOMAIN Plugins
  PROVE  PluginFacts(d, Plugins[d])
<1>1. PluginFacts("postgresql", PostgreSql)
  <2>1. PostgreSql.native \in Seq(Kinds)
    BY DEF PostgreSql, PostgreSqlNative, Plugin, Kinds
  <2>2. "checks" \notin Range(PostgreSql.kinds)
    BY DEF PostgreSql, PostgreSqlNative, Plugin, Range
  <2>3. PostgreSql.says \/ PostgreSql.optional \cap Range(PostgreSql.kinds) = {}
    BY DEF PostgreSql, PostgreSqlNative, Plugin, Range
  <2>4. PostgreSql.says \/ PostgreSql.skipped \cap Range(PostgreSql.kinds) = {}
    BY DEF PostgreSql, PostgreSqlNative, Plugin, Range
  <2> QED BY <2>1, <2>2, <2>3, <2>4 DEF PluginFacts
<1>2. PluginFacts("redshift", Redshift)
  <2>1. Redshift.native \in Seq(Kinds)
    BY DEF Redshift, Plugin, Kinds
  <2>2. "checks" \notin Range(Redshift.kinds)
    BY DEF Redshift, Plugin, Range
  <2>3. Redshift.says \/ Redshift.optional \cap Range(Redshift.kinds) = {}
    BY DEF Redshift, Plugin, Range
  <2>4. Redshift.says \/ Redshift.skipped \cap Range(Redshift.kinds) = {}
    BY DEF Redshift, Plugin, Range
  <2>5. Range(Redshift.preview) \subseteq Range(Redshift.native) /\ Range(Redshift.native) \subseteq Range(Redshift.kinds)
    BY DEF Redshift, Plugin, Range
  <2>6. Redshift.says
    BY DEF Redshift, Plugin
  <2> QED BY <2>1, <2>2, <2>3, <2>4, <2>5, <2>6 DEF PluginFacts
<1>3. PluginFacts("mysql", Mysql)
  <2>1. Mysql.native \in Seq(Kinds)
    BY DEF Mysql, MysqlNative, Plugin, Kinds
  <2>2. "checks" \notin Range(Mysql.kinds)
    BY DEF Mysql, MysqlNative, Plugin, Range
  <2>3. Mysql.says \/ Mysql.optional \cap Range(Mysql.kinds) = {}
    BY DEF Mysql, MysqlNative, Plugin, Range
  <2>4. Mysql.says \/ Mysql.skipped \cap Range(Mysql.kinds) = {}
    BY DEF Mysql, MysqlNative, Plugin, Range
  <2>5. Range(Mysql.preview) \subseteq Range(Mysql.native) /\ Range(Mysql.native) \subseteq Range(Mysql.kinds)
    BY DEF Mysql, MysqlNative, Plugin, Range
  <2>6. ~Mysql.stops
    BY DEF Mysql, MysqlNative, Plugin
  <2> QED BY <2>1, <2>2, <2>3, <2>4, <2>5, <2>6 DEF PluginFacts
<1>4. PluginFacts("sqlserver", SqlServer)
  <2>1. SqlServer.native \in Seq(Kinds)
    BY DEF SqlServer, SqlServerNative, SqlServerPreview, Plugin, Kinds
  <2>2. "checks" \notin Range(SqlServer.kinds)
    BY DEF SqlServer, SqlServerNative, SqlServerPreview, Plugin, Range
  <2>3. Range(SqlServer.preview) \subseteq Range(SqlServer.native) /\ Range(SqlServer.native) \subseteq Range(SqlServer.kinds)
    BY DEF SqlServer, SqlServerNative, SqlServerPreview, Plugin, Range
  <2> QED BY <2>1, <2>2, <2>3 DEF PluginFacts
<1>5. PluginFacts("db2", Db2)
  <2>1. Db2.native \in Seq(Kinds)
    BY DEF Db2, Plugin, Kinds
  <2>2. "checks" \notin Range(Db2.kinds)
    BY DEF Db2, Plugin, Range
  <2>3. Db2.says \/ Db2.optional \cap Range(Db2.kinds) = {}
    BY DEF Db2, Plugin, Range
  <2>4. Db2.says \/ Db2.skipped \cap Range(Db2.kinds) = {}
    BY DEF Db2, Plugin, Range
  <2>5. Range(Db2.preview) \subseteq Range(Db2.native) /\ Range(Db2.native) \subseteq Range(Db2.kinds)
    BY DEF Db2, Plugin, Range
  <2> QED BY <2>1, <2>2, <2>3, <2>4, <2>5 DEF PluginFacts
<1>6. PluginFacts("oracle", Oracle)
  <2>1. Oracle.native \in Seq(Kinds)
    BY DEF Oracle, Plugin, Kinds
  <2>2. "checks" \notin Range(Oracle.kinds)
    BY DEF Oracle, Plugin, Range
  <2>3. Oracle.says \/ Oracle.optional \cap Range(Oracle.kinds) = {}
    BY DEF Oracle, Plugin, Range
  <2>4. Oracle.says \/ Oracle.skipped \cap Range(Oracle.kinds) = {}
    BY DEF Oracle, Plugin, Range
  <2>5. Range(Oracle.preview) \subseteq Range(Oracle.native) /\ Range(Oracle.native) \subseteq Range(Oracle.kinds)
    BY DEF Oracle, Plugin, Range
  <2> QED BY <2>1, <2>2, <2>3, <2>4, <2>5 DEF PluginFacts
<1>7. PluginFacts("snowflake", Snowflake)
  <2>1. Snowflake.native \in Seq(Kinds)
    BY DEF Snowflake, Plugin, Kinds
  <2>2. "checks" \notin Range(Snowflake.kinds)
    BY DEF Snowflake, Plugin, Range
  <2>3. Snowflake.says \/ Snowflake.optional \cap Range(Snowflake.kinds) = {}
    BY DEF Snowflake, Plugin, Range
  <2>4. Snowflake.says \/ Snowflake.skipped \cap Range(Snowflake.kinds) = {}
    BY DEF Snowflake, Plugin, Range
  <2>5. Range(Snowflake.preview) \subseteq Range(Snowflake.native) /\ Range(Snowflake.native) \subseteq Range(Snowflake.kinds)
    BY DEF Snowflake, Plugin, Range
  <2> QED BY <2>1, <2>2, <2>3, <2>4, <2>5 DEF PluginFacts
<1>8. PluginFacts("duckdb", DuckDb)
  <2>1. DuckDb.native \in Seq(Kinds)
    BY DEF DuckDb, Plugin, Kinds
  <2>2. "checks" \notin Range(DuckDb.kinds)
    BY DEF DuckDb, Plugin, Range
  <2>3. DuckDb.says \/ DuckDb.optional \cap Range(DuckDb.kinds) = {}
    BY DEF DuckDb, Plugin, Range
  <2>4. DuckDb.says \/ DuckDb.skipped \cap Range(DuckDb.kinds) = {}
    BY DEF DuckDb, Plugin, Range
  <2>5. Range(DuckDb.preview) \subseteq Range(DuckDb.native) /\ Range(DuckDb.native) \subseteq Range(DuckDb.kinds)
    BY DEF DuckDb, Plugin, Range
  <2> QED BY <2>1, <2>2, <2>3, <2>4, <2>5 DEF PluginFacts
<1>9. PluginFacts("sqlite", Sqlite)
  <2>1. Sqlite.native \in Seq(Kinds)
    BY DEF Sqlite, Plugin, Kinds
  <2>2. "checks" \notin Range(Sqlite.kinds)
    BY DEF Sqlite, Plugin, Range
  <2>3. Sqlite.says \/ Sqlite.optional \cap Range(Sqlite.kinds) = {}
    BY DEF Sqlite, Plugin, Range
  <2>4. Sqlite.says \/ Sqlite.skipped \cap Range(Sqlite.kinds) = {}
    BY DEF Sqlite, Plugin, Range
  <2>5. Range(Sqlite.preview) \subseteq Range(Sqlite.native) /\ Range(Sqlite.native) \subseteq Range(Sqlite.kinds)
    BY DEF Sqlite, Plugin, Range
  <2> QED BY <2>1, <2>2, <2>3, <2>4, <2>5 DEF PluginFacts
<1>10. PluginFacts("mongodb", MongoDb)
  <2>1. MongoDb.native \in Seq(Kinds)
    BY DEF MongoDb, Plugin, Kinds
  <2>2. "checks" \notin Range(MongoDb.kinds)
    BY DEF MongoDb, Plugin, Range
  <2>3. MongoDb.says \/ MongoDb.optional \cap Range(MongoDb.kinds) = {}
    BY DEF MongoDb, Plugin, Range
  <2>4. MongoDb.says \/ MongoDb.skipped \cap Range(MongoDb.kinds) = {}
    BY DEF MongoDb, Plugin, Range
  <2>5. Range(MongoDb.preview) \subseteq Range(MongoDb.native) /\ Range(MongoDb.native) \subseteq Range(MongoDb.kinds)
    BY DEF MongoDb, Plugin, Range
  <2> QED BY <2>1, <2>2, <2>3, <2>4, <2>5 DEF PluginFacts
<1>11. PluginFacts("cosmosdb", CosmosDb)
  <2>1. CosmosDb.native \in Seq(Kinds)
    BY DEF CosmosDb, Plugin, Kinds
  <2>2. "checks" \notin Range(CosmosDb.kinds)
    BY DEF CosmosDb, Plugin, Range
  <2>3. CosmosDb.says \/ CosmosDb.optional \cap Range(CosmosDb.kinds) = {}
    BY DEF CosmosDb, Plugin, Range
  <2>4. Range(CosmosDb.preview) \subseteq Range(CosmosDb.native) /\ Range(CosmosDb.native) \subseteq Range(CosmosDb.kinds)
    BY DEF CosmosDb, Plugin, Range
  <2> QED BY <2>1, <2>2, <2>3, <2>4 DEF PluginFacts
<1>12. /\ Plugins["postgresql"] = PostgreSql
       /\ Plugins["redshift"] = Redshift
       /\ Plugins["mysql"] = Mysql
       /\ Plugins["sqlserver"] = SqlServer
       /\ Plugins["db2"] = Db2
       /\ Plugins["oracle"] = Oracle
       /\ Plugins["snowflake"] = Snowflake
       /\ Plugins["duckdb"] = DuckDb
       /\ Plugins["sqlite"] = Sqlite
       /\ Plugins["mongodb"] = MongoDb
       /\ Plugins["cosmosdb"] = CosmosDb
  BY DEF Plugins
<1>13. DOMAIN Plugins = {"postgresql", "redshift", "mysql", "sqlserver", "db2", "oracle",
                          "snowflake", "duckdb", "sqlite", "mongodb", "cosmosdb"}
  BY DEF Plugins
<1> QED BY <1>1, <1>2, <1>3, <1>4, <1>5, <1>6, <1>7, <1>8, <1>9, <1>10, <1>11, <1>12, <1>13

\* The dialect at hand is one of them.
LEMMA ItIsSound ==
  ASSUME TypeOK
  PROVE  dialect \in DOMAIN Plugins /\ PluginFacts(dialect, It)
BY PluginsAssumption, PluginsAreSound DEF TypeOK, It

\* Objects are of the kinds that are listed, or MongoDB's own collection.
LEMMA ObjectsHaveKinds ==
  ASSUME NEW d \in DOMAIN Plugins, NEW o \in Objects(d)
  PROVE  o.kind # "checks"
<1>1. PICK k \in Range(Plugins[d].kinds) \cup {"system"} : o.kind = k
  BY DEF Objects
<1>2. "checks" \notin Range(Plugins[d].kinds)
  BY PluginsAreSound DEF PluginFacts
<1> QED BY <1>1, <1>2

-----------------------------------------------------------------------------
(* The listing and one statement of it.                                    *)

\* Every object that is seen has an entry, and besides the objects only the two switches have
\* one, in the dialects that need them.
ListingFacts(bad, entries) ==
  /\ \A e \in entries : e.obj.kind # "checks" => e.obj \in db
  /\ \A e \in entries : e.obj.kind = "checks" => e \in {Switch(0), Switch(1)} /\ Switches
  /\ Switch(0) \in entries => Switch(1) \in entries
  /\ \A o \in Seen(bad) : o \in {e.obj : e \in entries}
  /\ dialect = "snowflake" => \A e, x \in entries : e.obj = x.obj => e = x

LEMMA ListingIsComplete ==
  ASSUME TypeOK, NEW bad
  PROVE  ListingFacts(bad, ListDroppableObjects(bad))
<1> DEFINE entries == {Entry(o, Looks(o, bad), bad) : o \in Seen(bad)}
           all == ListDroppableObjects(bad)
<1>1. \A o \in Seen(bad) : Entry(o, Looks(o, bad), bad).obj = o
  BY DEF Entry
<1>2. \A e \in entries : e = Entry(e.obj, Looks(e.obj, bad), bad) /\ e.obj \in Seen(bad)
  BY <1>1
<1>3. \A o \in Seen(bad) : o \in {e.obj : e \in entries}
  BY <1>1
<1>4. \A o \in Seen(bad) : o \in db /\ o.kind # "checks"
  BY ItIsSound, ObjectsHaveKinds DEF Seen, TypeOK
<1>5. \/ all = entries
      \/ Switches /\ all = {Switch(0), Switch(1)} \cup entries
  BY DEF ListDroppableObjects, AroundChecks, Switches
<1>6. Switch(0).obj.kind = "checks" /\ Switch(1).obj.kind = "checks"
  BY DEF Switch
<1>7. dialect = "snowflake" => ~Switches
  BY DEF Switches
<1> HIDE DEF entries, all
<1>8. \A e \in entries : e.obj \in db /\ e.obj.kind # "checks"
  BY <1>2, <1>4
<1>9. \A e \in all : e.obj.kind # "checks" => e \in entries
  BY <1>5, <1>6
<1>10. \A e \in all : e.obj.kind = "checks" => e \in {Switch(0), Switch(1)} /\ Switches
  BY <1>5, <1>8
<1>11. Switch(0) \in all => Switch(1) \in all
  BY <1>5, <1>6, <1>8
<1>12. \A o \in Seen(bad) : o \in {e.obj : e \in all}
  BY <1>3, <1>5
<1>13. dialect = "snowflake" => \A e, x \in all : e.obj = x.obj => e = x
  BY <1>2, <1>5, <1>7
<1> QED BY <1>8, <1>9, <1>10, <1>11, <1>12, <1>13 DEF ListingFacts, all

\* What a statement leaves as it was, and what it says of the object it is about.
StatementFacts(e, why) ==
  /\ e \in list /\ \A x \in list : e.at <= x.at
  /\ db' \subseteq db /\ reported' \subseteq Objects(dialect) /\ reported' \cap db' = {}
  /\ why = "" /\ e.obj.kind # "checks" => e.obj \notin db'
  /\ failed \subseteq failed' /\ (why = "" => failed' = failed) /\ (why \notin {"", "aborted"} => e.obj \in failed')
  /\ errors' = IF why = "" THEN errors ELSE errors \cup {why}
  /\ why = "aborted" \/ (why = "" /\ tx = "aborted") => tx = "aborted" /\ why = "aborted"
  /\ tx' = tx \/ (why # "" /\ tx = "open" /\ NoSavepoints /\ tx' = "aborted")
  /\ e.obj.kind = "checks" => IF why = "" THEN checks' = (e.obj.n = 1) ELSE checks' = checks
  /\ e.obj.kind = "checks" /\ tx = "auto" => why \in {"", "switch"}
  /\ e.obj.kind # "checks" => checks' = checks

LEMMA StatementIsSound ==
  ASSUME TypeOK, Allowed, Session, pc \in {"drop", "native"}, NEW e, NEW why \in Whys, Statement(e, why)
  PROVE  StatementFacts(e, why)
<1>1. e \in list /\ \A x \in list : e.at <= x.at
  BY DEF Statement
<1>2. e.obj \in With(e.obj)
  BY DEF With
<1>3. db' \subseteq db /\ (why = "" /\ e.obj.kind # "checks" => e.obj \notin db')
  BY <1>2 DEF Statement
<1>4. e.obj.kind # "checks" => e.obj \in Objects(dialect)
  <2>1. Switch(0).obj.kind = "checks" /\ Switch(1).obj.kind = "checks"
    BY DEF Switch
  <2> QED BY <1>1, <2>1 DEF TypeOK
<1>5. reported' \subseteq Objects(dialect) /\ reported' \cap db' = {}
  <2>1. reported' = reported \/ (why = "" /\ e.obj.kind # "checks" /\ reported' = reported \cup {e.obj})
    BY DEF Statement
  <2>2. reported \cap db = {}
    BY DEF Session, Working
  <2> QED BY <1>3, <1>4, <2>1, <2>2 DEF TypeOK
<1>6. errors' = IF why = "" THEN errors ELSE errors \cup {why}
  BY DEF Statement
<1>7. failed \subseteq failed' /\ (why = "" => failed' = failed) /\ (why \notin {"", "aborted"} => e.obj \in failed')
  BY DEF Statement
<1>8. why \in Refusals(e)
  BY DEF Statement
<1>9. why = "aborted" \/ (why = "" /\ tx = "aborted") => tx = "aborted" /\ why = "aborted"
  BY <1>8 DEF Refusals
<1>10. tx' = tx \/ (why # "" /\ tx = "open" /\ NoSavepoints /\ tx' = "aborted")
  <2>1. mode \in {"clean", "native"}
    BY DEF Allowed
  <2>2. tx # "auto" => dialect \in {"postgresql", "redshift"}
    BY DEF Session
  <2>3. tx' = IF why # "" THEN Spoiled ELSE tx
    BY DEF Statement
  <2>4. tx' = tx \/ (why # "" /\ tx = "open" /\ tx' = "aborted" /\ ~(mode = "clean" /\ dialect = "postgresql"))
    BY <2>3 DEF Spoiled, Aborted
  <2> QED BY <2>1, <2>2, <2>4 DEF NoSavepoints
<1>11. e.obj.kind = "checks" /\ tx = "auto" => why \in {"", "switch"}
  BY <1>8 DEF Refusals
<1>12. /\ e.obj.kind = "checks" => IF why = "" THEN checks' = (e.obj.n = 1) ELSE checks' = checks
       /\ e.obj.kind # "checks" => checks' = checks
  BY DEF Statement
<1> QED BY <1>1, <1>3, <1>5, <1>6, <1>7, <1>9, <1>10, <1>11, <1>12 DEF StatementFacts

-----------------------------------------------------------------------------
(* The invariant.                                                          *)

\* What is set for good stays.
LEMMA SettingStays ==
  ASSUME UNCHANGED setting
  PROVE  /\ dialect' = dialect /\ ties' = ties /\ enabled' = enabled
         /\ It' = It /\ (IsSystem' <=> IsSystem) /\ (Switches' <=> Switches) /\ Objects(dialect)' = Objects(dialect)
BY DEF setting, It, IsSystem, Switches, Objects

\* What a call leaves alone before it is over says nothing of its end.
LEMMA NotOver ==
  ASSUME pc \notin {"done", "failed"}
  PROVE  Told
BY DEF Told, Over, SuccessMeansEmpty, SurvivorsAreTold, PreviewMirrorsClean, FailuresAreIsolated, ChecksRestored

\* It holds to begin with.
LEMMA InitIsSound == Init => IInv
<1> SUFFICES ASSUME Init PROVE IInv
  OBVIOUS
<1> USE DEF Init
<1>1. TypeOK
  BY DEF TypeOK, NoSurvey
<1>2. Allowed /\ Checking /\ Telling /\ Emptying /\ Surveying /\ Mirroring
  BY DEF Allowed, Working, Checking, Telling, Emptying, Surveying, Mirroring
<1>3. Told
  BY NotOver
<1>4. <<>> \in Seq(Kinds)
  OBVIOUS
<1>5. Session
  BY <1>4 DEF Session, Working
<1> QED BY <1>1, <1>2, <1>3, <1>5 DEF IInv

\* A call begins with no failure and, the provider's own, with every kind of its preview to list.
LEMMA BeginKeeps ==
  ASSUME IInv, NEW m \in Modes, Begin(m)
  PROVE  IInv'
<1> USE DEF Begin, session
<1>1. dialect' = dialect /\ enabled' = enabled /\ It' = It /\ (IsSystem' <=> IsSystem) /\ (Switches' <=> Switches)
      /\ Objects(dialect)' = Objects(dialect)
  BY SettingStays
<1>2. PluginFacts(dialect, It)
  BY ItIsSound DEF IInv
<1>3. /\ pc = "idle" /\ checks' = checks /\ checked' = checks /\ tx' = tx /\ db' = db /\ before' = db /\ mode' = m
      /\ list' = {} /\ reported' = {} /\ failed' = {} /\ errors' = {} /\ missed' = {} /\ told' = FALSE
      /\ survey' = NoSurvey
  OBVIOUS
<1>4. m \in {"clean", "dry", "native"}
  BY CleanSchemaAssumption
<1>5. /\ pc' \in {"failed", "list", "start", "native"}
      /\ pc' # "failed" => ~IsSystem /\ (m = "clean" => enabled)
      /\ pc' = "list" => m # "native"
      /\ pc' = "start" => Switches
      /\ pc' \in {"start", "native"} => m = "native" /\ kinds' = It.native
      /\ kinds' \in {<<>>, It.native}
  OBVIOUS
<1> HIDE DEF Begin
<1>6. TypeOK'
  <2>1. survey' \in [watched : SUBSET Objects(dialect), done : BOOLEAN, failed : BOOLEAN]
    BY <1>3 DEF NoSurvey
  <2> QED BY <1>1, <1>3, <1>5, <2>1 DEF IInv, TypeOK
<1>7. Allowed'
  BY <1>1, <1>3, <1>4, <1>5 DEF Allowed, Working
<1>8. Session'
  <2>1. kinds' \in Seq(Kinds)
    <3>1. <<>> \in Seq(Kinds) /\ It.native \in Seq(Kinds)
      BY <1>2 DEF PluginFacts
    <3> QED BY <1>5, <3>1
  <2>2. tx # "aborted" /\ (tx # "auto" => dialect \in {"postgresql", "redshift"})
    BY <1>3 DEF IInv, Session
  <2>3. ~survey'.done
    BY <1>3 DEF NoSurvey
  <2> QED BY <1>1, <1>3, <1>5, <2>1, <2>2, <2>3 DEF IInv, Session, TypeOK
<1>9. Checking'
  BY <1>1, <1>3, <1>5 DEF IInv, Checking
<1>10. Telling' /\ Emptying' /\ Surveying'
  BY <1>3, <1>5 DEF Telling, Emptying, Surveying
<1>11. Mirroring'
  BY <1>1, <1>2, <1>3, <1>5 DEF Mirroring, PluginFacts
<1>12. Told'
  BY <1>3, <1>5 DEF Told, Over, SuccessMeansEmpty, SurvivorsAreTold, PreviewMirrorsClean, FailuresAreIsolated,
                    ChecksRestored
<1> QED BY <1>6, <1>7, <1>8, <1>9, <1>10, <1>11, <1>12 DEF IInv

\* Everything that clean would drop is listed, unless a catalog could not be read.
LEMMA ListKeeps ==
  ASSUME IInv, List
  PROVE  IInv'
<1> USE DEF List, call, session, outcome, words
<1>1. dialect' = dialect /\ enabled' = enabled /\ It' = It /\ (IsSystem' <=> IsSystem) /\ (Switches' <=> Switches)
      /\ Objects(dialect)' = Objects(dialect)
  BY SettingStays
<1>2. PluginFacts(dialect, It)
  BY ItIsSound DEF IInv
<1>3. /\ pc = "list" /\ checks' = checks /\ checks = checked /\ checked' = checked /\ tx' = tx /\ tx # "aborted"
      /\ db' = db /\ before' = before /\ mode' = mode /\ kinds' = kinds
      /\ reported' = {} /\ errors' = {} /\ failed' = {} /\ reported = {} /\ errors = {} /\ missed = {} /\ ~survey.done
  BY DEF IInv, Checking, Session
<1>4. mode \in {"clean", "dry"} /\ ~IsSystem /\ (mode = "clean" => enabled)
  BY <1>3 DEF IInv, Allowed, Working
<1>5. PICK bad \in Unreadable :
        IF bad \subseteq It.optional
        THEN /\ Listing(bad, ListDroppableObjects(bad)) /\ Watch(ListDroppableObjects(bad))
             /\ pc' = IF mode = "dry" THEN "done" ELSE "drop"
        ELSE pc' = "failed" /\ faults' = faults + 1 /\ UNCHANGED <<list, words>>
  OBVIOUS
<1>6. CASE ~(bad \subseteq It.optional)
  <2>1. pc' = "failed" /\ list' = list /\ told' = told /\ survey' = survey /\ missed' = missed
    BY <1>5, <1>6
  <2>2. TypeOK'
    BY <1>1, <1>3, <2>1 DEF IInv, TypeOK
  <2>3. Allowed' /\ Session'
    BY <1>1, <1>3, <1>4, <2>1 DEF IInv, Allowed, Session, Working
  <2>4. Checking'
    BY <1>1, <1>3, <2>1 DEF IInv, Checking, Switch
  <2>5. Telling' /\ Emptying' /\ Surveying' /\ Mirroring'
    BY <2>1 DEF Telling, Emptying, Surveying, Mirroring
  <2>6. Told'
    BY <1>3, <1>4, <2>1 DEF Told, Over, SuccessMeansEmpty, SurvivorsAreTold, PreviewMirrorsClean,
                            FailuresAreIsolated, ChecksRestored
  <2> QED BY <2>2, <2>3, <2>4, <2>5, <2>6 DEF IInv
<1>7. CASE bad \subseteq It.optional
  <2> DEFINE all == ListDroppableObjects(bad)
  <2>1. /\ list' = all /\ missed' = bad \cap Range(It.kinds) /\ told' = (told \/ (bad # {} /\ It.says))
        /\ pc' = IF mode = "dry" THEN "done" ELSE "drop"
        /\ survey' = IF dialect = "snowflake" THEN [survey EXCEPT !.watched = {e.obj : e \in all}] ELSE survey
    BY <1>3, <1>5, <1>7 DEF Listing, Watch
  <2>2. ListingFacts(bad, all)
    BY ListingIsComplete DEF IInv
  <2> HIDE DEF all
  <2>3. dialect = "snowflake" => {e.obj : e \in all} \subseteq db
    BY <2>2 DEF ListingFacts, Switches
  <2>4. /\ survey' \in [watched : SUBSET Objects(dialect), done : BOOLEAN, failed : BOOLEAN] /\ ~survey'.done
        /\ dialect = "snowflake" => survey'.watched = {e.obj : e \in all}
    BY <1>3, <2>1, <2>3 DEF IInv, TypeOK
  <2>5. TypeOK'
    <3>1. told' \in BOOLEAN
      BY <2>1 DEF IInv, TypeOK
    <3>2. \A e \in list' : e.obj \in Objects(dialect) \cup {Switch(0).obj, Switch(1).obj}
      BY <2>1, <2>2 DEF IInv, TypeOK, ListingFacts
    <3>3. pc' \in {"done", "drop"}
      BY <2>1
    <3>4. db' \subseteq Objects(dialect) /\ tx' \in {"auto", "open", "aborted"} /\ checks' \in BOOLEAN /\ checked' \in BOOLEAN
      BY <1>3 DEF IInv, TypeOK
    <3> QED BY <1>1, <1>3, <2>4, <3>1, <3>2, <3>3, <3>4 DEF IInv, TypeOK
  <2>6. Allowed'
    BY <1>1, <1>3, <1>4, <2>1 DEF Allowed, Working
  <2>7. Session'
    BY <1>1, <1>3, <2>1 DEF IInv, Session
  <2>8. Checking'
    BY <1>1, <1>3, <2>1, <2>2 DEF IInv, Checking, ListingFacts, Switch
  <2>9. missed' = {} \/ told' \/ dialect = "sqlserver"
    BY <1>2, <1>7, <2>1 DEF PluginFacts
  <2>10. Telling'
    BY <1>1, <2>9 DEF Telling
  <2>11. Emptying'
    <3> SUFFICES ASSUME NEW o \in Droppable', o.kind \notin missed'
                 PROVE  o \in Listed'
      BY DEF Emptying
    <3>1. o \in db /\ o.kind \in Range(It.kinds)
      BY <1>1, <1>3 DEF Droppable
    <3>2. o.kind \notin bad
      BY <2>1, <3>1
    <3> QED BY <2>1, <2>2, <3>1, <3>2 DEF Seen, ListingFacts, Listed
  <2>12. Surveying'
    BY <1>1, <1>3, <2>1, <2>2, <2>4 DEF Surveying, ListingFacts, Listed
  <2>13. Mirroring' /\ Told'
    BY <1>3, <1>4, <2>1 DEF Mirroring, Told, Over, SuccessMeansEmpty, SurvivorsAreTold, PreviewMirrorsClean,
                            FailuresAreIsolated, ChecksRestored
  <2> QED BY <2>5, <2>6, <2>7, <2>8, <2>10, <2>11, <2>12, <2>13 DEF IInv
<1> QED BY <1>6, <1>7

\* An object leaves the list once it is gone, or with a failure that is told; the checks come
\* on again with the last entry, unless that fails.
LEMMA DropObjectKeeps ==
  ASSUME IInv, NEW e \in list, NEW why \in Whys, DropObject(e, why)
  PROVE  IInv'
<1>1. dialect' = dialect /\ enabled' = enabled /\ It' = It /\ (IsSystem' <=> IsSystem) /\ (Switches' <=> Switches)
      /\ Objects(dialect)' = Objects(dialect)
  BY SettingStays DEF DropObject
<1>2. PluginFacts(dialect, It) /\ dialect \in DOMAIN Plugins
  BY ItIsSound DEF IInv
<1>3. /\ pc = "drop" /\ pc' = pc /\ mode' = mode /\ kinds' = kinds /\ before' = before /\ checked' = checked
      /\ missed' = missed /\ list' = list \ {e} /\ Survey(e.obj)
  BY DEF DropObject, call
<1>4. StatementFacts(e, why)
  BY <1>3, StatementIsSound DEF IInv, DropObject
<1>5. mode = "clean" /\ ~IsSystem /\ enabled /\ (NoSavepoints' <=> NoSavepoints)
  BY <1>1, <1>3 DEF IInv, Allowed, Working, NoSavepoints
<1>6. PICK fails \in BOOLEAN :
        LET last == dialect = "snowflake" /\ survey.watched = {e.obj}
        IN  /\ fails => last
            /\ survey' = [watched |-> survey.watched \ {e.obj}, done |-> survey.done \/ last,
                          failed |-> survey.failed \/ fails]
            /\ told' = (told \/ (last /\ ~fails /\ db' # {}))
  BY <1>3 DEF Survey
<1>7. /\ survey'.watched = survey.watched \ {e.obj}
      /\ survey'.done <=> survey.done \/ (dialect = "snowflake" /\ survey.watched = {e.obj})
      /\ dialect = "snowflake" /\ survey.watched = {e.obj} => survey'.failed \/ told' \/ db' = {}
      /\ survey' \in [watched : SUBSET Objects(dialect), done : BOOLEAN, failed : BOOLEAN]
      /\ told' \in BOOLEAN /\ (told => told')
  <2>1. survey \in [watched : SUBSET Objects(dialect), done : BOOLEAN, failed : BOOLEAN] /\ told \in BOOLEAN
    BY DEF IInv, TypeOK
  <2> QED BY <1>6, <2>1
<1>8. TypeOK'
  <2>1. db' \subseteq Objects(dialect) /\ reported' \subseteq Objects(dialect) /\ errors' \subseteq Whys \ {""}
    BY <1>4 DEF IInv, TypeOK, StatementFacts
  <2>2. tx' \in {"auto", "open", "aborted"}
    BY <1>4 DEF IInv, TypeOK, StatementFacts
  <2>3. checks' \in BOOLEAN
    BY DEF IInv, TypeOK, DropObject, Statement
  <2>4. \A x \in list' : x.obj \in Objects(dialect) \cup {Switch(0).obj, Switch(1).obj}
    BY <1>3 DEF IInv, TypeOK
  <2> QED BY <1>1, <1>3, <1>7, <2>1, <2>2, <2>3, <2>4 DEF IInv, TypeOK
<1>9. Allowed'
  BY <1>1, <1>3, <1>5 DEF Allowed, Working
<1>10. Session'
  <2>1. tx' # "auto" => dialect \in {"postgresql", "redshift"}
    BY <1>4 DEF IInv, Session, StatementFacts
  <2>2. tx' = "aborted" => NoSavepoints /\ errors' # {}
    BY <1>4 DEF IInv, Session, StatementFacts
  <2>3. "aborted" \in errors' => tx' = "aborted"
    BY <1>3, <1>4 DEF IInv, Session, Working, StatementFacts
  <2>4. reported' \cap db' = {} /\ (errors' = {} => failed' = {})
    BY <1>4 DEF IInv, Session, StatementFacts
  <2> QED BY <1>1, <1>3, <1>5, <2>1, <2>2, <2>3, <2>4 DEF IInv, Session
<1>11. Checking'
  <2>1. \A x \in list : x.obj.kind = "checks" => x \in {Switch(0), Switch(1)} /\ Switches
    BY DEF IInv, Checking
  <2>2. Switch(0) # Switch(1) /\ Switch(0).obj.n = 0 /\ Switch(1).obj.n = 1
        /\ Switch(0).at = 0 /\ Switch(1).at = 1000
        /\ Switch(0).obj.kind = "checks" /\ Switch(1).obj.kind = "checks"
    BY DEF Switch
  <2>3. Switch(0)' = Switch(0) /\ Switch(1)' = Switch(1)
    BY DEF Switch
  <2>4. errors \subseteq errors'
    BY <1>4 DEF StatementFacts
  <2>5. /\ ~checks => Switches
        /\ checked /\ ~checks => Switch(1) \in list \/ "switch" \in errors
        /\ Switch(0) \in list => Switch(1) \in list
    BY <1>3 DEF IInv, Checking
  <2>6. ASSUME e.obj.kind # "checks" PROVE Checking'
    <3>1. e # Switch(0) /\ e # Switch(1) /\ checks' = checks
      BY <1>4, <2>2, <2>6 DEF StatementFacts
    <3> QED BY <1>1, <1>3, <2>1, <2>3, <2>4, <2>5, <3>1 DEF Checking
  <2>7. ASSUME e.obj.kind = "checks" PROVE Checking'
    <3>1. e \in {Switch(0), Switch(1)} /\ Switches /\ tx = "auto"
      BY <2>1, <2>7 DEF IInv, Session, Switches
    <3>2. (why = "" /\ checks' = (e.obj.n = 1)) \/ (why = "switch" /\ checks' = checks /\ "switch" \in errors')
      BY <1>4, <2>7, <3>1 DEF StatementFacts
    <3>3. e = Switch(1) => Switch(0) \notin list
      <4> SUFFICES ASSUME e = Switch(1), Switch(0) \in list PROVE FALSE
        OBVIOUS
      <4>1. e.at <= Switch(0).at
        BY <1>4 DEF StatementFacts
      <4>2. e.at = 1000 /\ Switch(0).at = 0
        BY <2>2
      <4> QED BY <4>1, <4>2
    <3>4. e = Switch(0) => Switch(1) \in list'
      BY <1>3, <2>2, <2>5
    <3>5. e = Switch(1) => (checks' \/ "switch" \in errors') /\ Switch(0) \notin list'
      BY <1>3, <2>2, <3>2, <3>3
    <3>6. (~checks' => Switches) /\ (checked /\ ~checks' => Switch(1) \in list' \/ "switch" \in errors')
      BY <2>4, <2>5, <3>1, <3>2, <3>4, <3>5
    <3>7. Switch(0) \in list' => Switch(1) \in list'
      BY <1>3, <2>5, <3>1, <3>4, <3>5
    <3>8. \A x \in list' : x.obj.kind = "checks" => x \in {Switch(0), Switch(1)} /\ Switches
      BY <1>3, <2>1
    <3> QED BY <1>1, <1>3, <2>3, <3>6, <3>7, <3>8 DEF Checking
  <2> QED BY <2>6, <2>7
<1>12. Telling'
  BY <1>1, <1>3, <1>7 DEF IInv, Telling
<1>13. Emptying'
  <2> SUFFICES ASSUME "aborted" \notin errors', NEW o \in Droppable', o \notin failed', o.kind \notin missed
               PROVE  o \in Listed'
    BY <1>3 DEF Emptying
  <2>1. "aborted" \notin errors /\ why # "aborted"
    BY <1>4 DEF StatementFacts
  <2>2. o \in Droppable /\ o.kind # "checks" /\ o \notin failed /\ o \in db'
    BY <1>1, <1>2, <1>4 DEF Droppable, StatementFacts, PluginFacts
  <2>3. PICK x \in list : x.obj = o
    BY <1>3, <2>1, <2>2 DEF IInv, Emptying, Listed
  <2>4. x # e
    BY <1>4, <2>1, <2>2, <2>3 DEF StatementFacts
  <2> QED BY <1>3, <2>3, <2>4 DEF Listed
<1>14. Surveying'
  <2> SUFFICES ASSUME dialect = "snowflake"
               PROVE  /\ survey'.watched = Listed'
                      /\ \A x, y \in list' : x.obj = y.obj => x = y
                      /\ list' = {} => survey'.done
                      /\ survey'.done => list' = {} /\ (db' = {} \/ told' \/ survey'.failed)
    BY <1>1 DEF Surveying
  <2>1. /\ survey.watched = Listed
        /\ \A x, y \in list : x.obj = y.obj => x = y
        /\ ~survey.done
    BY <1>3 DEF IInv, Surveying
  <2>2. survey'.watched = survey.watched \ {e.obj} /\ (survey'.done <=> survey.watched = {e.obj})
    BY <1>7, <2>1
  <2>3. survey'.watched = Listed'
    BY <1>3, <2>1, <2>2 DEF Listed
  <2>4. survey'.done <=> list' = {}
    BY <1>3, <2>1, <2>2 DEF Listed
  <2>5. survey'.done => db' = {} \/ told' \/ survey'.failed
    BY <1>7, <2>2
  <2> QED BY <1>3, <2>1, <2>3, <2>4, <2>5
<1>15. Mirroring'
  BY <1>3 DEF Mirroring
<1>16. Told'
  <2>1. pc' \notin {"done", "failed"}
    BY <1>3
  <2> QED BY <2>1 DEF Told, Over, SuccessMeansEmpty, SurvivorsAreTold, PreviewMirrorsClean, FailuresAreIsolated,
                      ChecksRestored
<1> QED BY <1>8, <1>9, <1>10, <1>11, <1>12, <1>13, <1>14, <1>15, <1>16 DEF IInv

\* The end of a transaction: only one that was aborted brings back what there was before, and
\* that one says so.
LEMMA SettledIsSound ==
  ASSUME IInv, Settled, mode' = mode, dialect' = dialect, Objects(dialect)' = Objects(dialect)
  PROVE  /\ db' \subseteq Objects(dialect) /\ tx' \in {"auto", "open"}
         /\ tx' # "auto" => dialect \in {"postgresql", "redshift"}
         /\ db' = db \/ (NoSavepoints' /\ tx' = "open" /\ errors # {})
         /\ tx = "aborted" => NoSavepoints' /\ tx' = "open" /\ errors # {}
BY DEF IInv, TypeOK, Session, Settled, NoSavepoints

\* A call that ends without a failure leaves what the drops left: only a failure brings back
\* what there was before.
LEMMA CommitKeeps ==
  ASSUME IInv, Commit
  PROVE  IInv'
<1>1. dialect' = dialect /\ enabled' = enabled /\ It' = It /\ (IsSystem' <=> IsSystem) /\ (Switches' <=> Switches)
      /\ Objects(dialect)' = Objects(dialect)
  BY SettingStays DEF Commit
<1>2. /\ pc = "drop" /\ list = {} /\ list' = list /\ mode' = mode /\ mode = "clean" /\ kinds' = kinds
      /\ before' = before /\ checks' = checks /\ checked' = checked /\ survey' = survey /\ told' = told
      /\ missed' = missed /\ reported' = reported /\ failed' = failed /\ pc' \in {"done", "failed"}
  BY DEF IInv, Allowed, Commit, call, words
<1>3. \/ Settled /\ errors' = errors /\ (pc' = "done" <=> errors = {})
      \/ /\ reported # {} /\ pc' = "failed" /\ errors' = errors \cup {"commit"}
         /\ db' \in {db, before} /\ tx' \in {"auto", "open"} /\ (tx = "auto" <=> tx' = "auto")
         /\ tx = "auto" => db' = db
  BY DEF Commit, IInv, TypeOK
<1>4. /\ db' \subseteq Objects(dialect) /\ tx' \in {"auto", "open"}
      /\ tx' # "auto" => dialect \in {"postgresql", "redshift"}
      /\ db' = db \/ "commit" \in errors' \/ (NoSavepoints' /\ tx' = "open" /\ errors' # {})
      /\ "aborted" \in errors => "commit" \in errors' \/ (NoSavepoints' /\ tx' = "open" /\ errors' # {})
  <2>1. CASE Settled /\ errors' = errors
    <3>1. "aborted" \in errors => tx = "aborted"
      BY <1>2 DEF IInv, Session, Working
    <3> QED BY <1>1, <1>2, <2>1, <3>1, SettledIsSound
  <2>2. CASE errors' = errors \cup {"commit"} /\ db' \in {db, before} /\ tx' \in {"auto", "open"} /\ (tx = "auto" <=> tx' = "auto")
    BY <2>2 DEF IInv, TypeOK, Session
  <2> QED BY <1>3, <2>1, <2>2
<1>5. errors \subseteq errors' /\ errors' \subseteq Whys \ {""} /\ (pc' = "done" => errors' = {})
      /\ (errors' # {} => errors # {} \/ reported # {})
  <2>1. errors \subseteq Whys \ {""} /\ "commit" \in Whys \ {""}
    BY DEF IInv, TypeOK, Whys
  <2> QED BY <1>3, <2>1
<1>6. TypeOK'
  BY <1>1, <1>2, <1>4, <1>5 DEF IInv, TypeOK
<1>7. Allowed' /\ Session'
  <2>1. errors' = {} => failed' = {}
    BY <1>2, <1>5 DEF IInv, Session
  <2> QED BY <1>1, <1>2, <1>4, <2>1 DEF IInv, Allowed, Session, Working
<1>8. Checking'
  BY <1>1, <1>2 DEF IInv, Checking
<1>9. Telling' /\ Emptying' /\ Surveying' /\ Mirroring'
  BY <1>2 DEF Telling, Emptying, Surveying, Mirroring
<1>10. "aborted" \notin errors => \A o \in Droppable : o \in failed \/ o.kind \in missed
  BY <1>2 DEF IInv, Emptying, Listed
<1>11. SuccessMeansEmpty'
  <2> SUFFICES ASSUME pc' = "done", NEW o \in Droppable' PROVE PassedOver(o)'
    BY DEF SuccessMeansEmpty
  <2>1. errors = {} /\ errors' = {} /\ failed = {}
    BY <1>3, <1>5 DEF IInv, Session
  <2>2. o.kind \in missed
    BY <1>1, <1>2, <1>4, <1>10, <2>1 DEF Droppable
  <2>3. missed = {} \/ told \/ dialect = "sqlserver"
    BY <1>2 DEF IInv, Telling
  <2> QED BY <1>1, <1>2, <2>2, <2>3 DEF PassedOver
<1>12. SurvivorsAreTold'
  <2> SUFFICES ASSUME dialect = "snowflake", reported # {} \/ errors' # {}
               PROVE  survey.done /\ (db' = {} \/ told \/ survey.failed)
    BY <1>1, <1>2 DEF SurvivorsAreTold
  <2>1. db' = db
    BY <1>3 DEF IInv, TypeOK, Session, Settled
  <2> QED BY <1>2, <1>5, <2>1 DEF IInv, Surveying
<1>13. FailuresAreIsolated'
  <2> SUFFICES ASSUME "commit" \notin errors', ~(NoSavepoints' /\ tx' = "open" /\ errors' # {})
               PROVE  reported' \cap db' = {} /\ \A o \in Droppable' : o \in failed' \/ o.kind \in missed'
    BY DEF FailuresAreIsolated
  <2>1. db' = db /\ "aborted" \notin errors
    BY <1>4
  <2>2. reported \cap db = {}
    BY <1>2 DEF IInv, Session, Working
  <2> QED BY <1>1, <1>2, <1>10, <2>1, <2>2 DEF Droppable
<1>14. PreviewMirrorsClean' /\ ChecksRestored'
  BY <1>1, <1>2, <1>5 DEF IInv, Checking, PreviewMirrorsClean, ChecksRestored
<1> QED BY <1>6, <1>7, <1>8, <1>9, <1>11, <1>12, <1>13, <1>14 DEF IInv, Told

\* Nothing is dropped before the checks are off, or before that fails.
LEMMA NativeStartKeeps ==
  ASSUME IInv, NativeStart
  PROVE  IInv'
<1>1. dialect' = dialect /\ enabled' = enabled /\ It' = It /\ (IsSystem' <=> IsSystem) /\ (Switches' <=> Switches)
      /\ Objects(dialect)' = Objects(dialect)
  BY SettingStays DEF NativeStart
<1>2. /\ pc = "start" /\ mode' = mode /\ db' = db /\ list' = list /\ tx' = tx /\ before' = before /\ checked' = checked
      /\ reported' = reported /\ failed' = failed /\ missed' = missed /\ told' = told /\ survey' = survey
      /\ errors = {} /\ reported = {} /\ failed = {} /\ missed = {} /\ mode = "native" /\ tx # "aborted"
  BY DEF IInv, Allowed, Session, NativeStart, call, words
<1>3. \/ pc' = "native" /\ checks' = FALSE /\ kinds' = kinds /\ errors' = errors
      \/ checks' = checks /\ dialect = "mysql" /\ pc' = "raised" /\ kinds' = <<>> /\ errors' = {"query"}
      \/ checks' = checks /\ dialect = "mysql" /\ pc' = "native" /\ kinds' = kinds /\ errors' = {"switch"}
      \/ checks' = checks /\ dialect = "sqlite" /\ pc' = "raised" /\ kinds' = <<>> /\ errors' = {"switch"}
  BY <1>2 DEF NativeStart
<1>4. /\ pc' \in {"native", "raised"} /\ kinds' \in {<<>>, kinds} /\ errors' \in {{}, {"query"}, {"switch"}}
      /\ checks' \in {FALSE, checks} /\ Switches
  <2>1. Switches
    BY <1>2 DEF IInv, Checking
  <2> QED BY <1>2, <1>3, <2>1
<1>5. TypeOK'
  <2>1. errors' \subseteq Whys \ {""} /\ checks' \in BOOLEAN
    BY <1>4 DEF IInv, TypeOK, Whys
  <2> QED BY <1>1, <1>2, <1>4, <2>1 DEF IInv, TypeOK
<1>6. Allowed'
  BY <1>1, <1>2, <1>4 DEF IInv, Allowed, Working
<1>7. Session'
  <2>1. kinds' \in Seq(Kinds)
    <3>1. <<>> \in Seq(Kinds) /\ kinds \in Seq(Kinds)
      BY DEF IInv, Session
    <3> QED BY <1>4, <3>1
  <2>2. "aborted" \notin errors'
    BY <1>4
  <2> QED BY <1>1, <1>2, <1>4, <2>1, <2>2 DEF IInv, Session
<1>8. Checking'
  <2>1. Switch(0)' = Switch(0) /\ Switch(1)' = Switch(1)
    BY DEF Switch
  <2>2. list = {}
    BY <1>2 DEF IInv, Checking
  <2>3. pc' = "raised" /\ dialect = "mysql" => "query" \in errors'
    BY <1>3
  <2> QED BY <1>1, <1>2, <1>4, <2>1, <2>2, <2>3 DEF Checking
<1>9. Telling' /\ Emptying' /\ Surveying'
  BY <1>2, <1>4 DEF Telling, Emptying, Surveying
<1>10. Mirroring'
  BY <1>1, <1>2, <1>3 DEF IInv, Mirroring, Listed
<1>11. Told'
  BY <1>4 DEF Told, Over, SuccessMeansEmpty, SurvivorsAreTold, PreviewMirrorsClean, FailuresAreIsolated,
              ChecksRestored
<1> QED BY <1>5, <1>6, <1>7, <1>8, <1>9, <1>10, <1>11 DEF IInv

\* The next kind, or every kind, leaves the kinds still to be listed for the list of what to
\* drop, or for what could not be listed.
LEMMA NativeListKeeps ==
  ASSUME IInv, NativeList
  PROVE  IInv'
<1>1. dialect' = dialect /\ enabled' = enabled /\ It' = It /\ (IsSystem' <=> IsSystem) /\ (Switches' <=> Switches)
      /\ Objects(dialect)' = Objects(dialect)
  BY SettingStays DEF NativeList
<1>2. PluginFacts(dialect, It)
  BY ItIsSound DEF IInv
<1>3. /\ pc = "native" /\ pc' = pc /\ list = {} /\ mode' = mode /\ mode = "native" /\ db' = db /\ tx' = tx
      /\ tx # "aborted" /\ before' = before /\ checked' = checked /\ checks' = checks /\ survey' = survey
      /\ reported' = reported /\ failed' = failed /\ errors' = errors
      /\ kinds # <<>> /\ kinds' = IF It.whole THEN <<>> ELSE Tail(kinds)
  BY DEF IInv, Allowed, NativeList, call, session, outcome
<1>4. PICK bad \in Skippable :
        LET found == {o \in Seen(bad) : o.kind \in Asked}
            aggregates == IF dialect = "postgresql" /\ "view" \in Asked THEN {o \in db : o.kind = "aggregate"} ELSE {}
        IN  Listing(bad, {Entry(o, Looks(o, bad), bad) : o \in found} \cup {Entry(o, "view", bad) : o \in aggregates})
  BY DEF NativeList
<1> DEFINE found == {o \in Seen(bad) : o.kind \in Asked}
           aggregates == IF dialect = "postgresql" /\ "view" \in Asked THEN {o \in db : o.kind = "aggregate"} ELSE {}
<1>5. /\ list' = {Entry(o, Looks(o, bad), bad) : o \in found} \cup {Entry(o, "view", bad) : o \in aggregates}
      /\ missed' = missed \cup (bad \cap Range(It.kinds)) /\ told' = (told \/ (bad # {} /\ It.says))
  BY <1>4 DEF Listing
<1>6. \A o, k : Entry(o, k, bad).obj = o
  BY DEF Entry
<1>7. found \subseteq db /\ aggregates \subseteq db
  BY DEF Seen
<1>8. \A o \in db : o.kind \in Range(It.kinds) /\ o.kind \notin bad /\ o.kind \in Asked => o \in found
  BY DEF Seen
<1> HIDE DEF found, aggregates
<1>9. (\A x \in list' : x.obj \in db) /\ \A o \in found : o \in Listed'
  BY <1>5, <1>6, <1>7 DEF Listed
<1>10. \A o \in db : o.kind # "checks"
  BY ItIsSound, ObjectsHaveKinds DEF IInv, TypeOK
<1>11. kinds' \in Seq(Kinds) /\ \A k \in Range(kinds) : k \in Asked \/ k \in Range(kinds')
  <2>1. kinds \in Seq(Kinds) /\ kinds # <<>>
    BY <1>3 DEF IInv, Session
  <2>2. CASE It.whole
    <3>1. kinds' = <<>> /\ <<>> \in Seq(Kinds)
      BY <1>3, <2>2
    <3> QED BY <2>2, <3>1 DEF Asked
  <2>3. CASE ~It.whole
    <3>1. kinds' = Tail(kinds) /\ Asked = {Head(kinds)}
      BY <1>3, <2>3 DEF Asked
    <3>2. kinds' \in Seq(Kinds)
      BY <2>1, <3>1
    <3>3. ASSUME NEW i \in DOMAIN kinds, i # 1 PROVE kinds[i] \in Range(kinds')
      <4>1. i - 1 \in DOMAIN Tail(kinds) /\ Tail(kinds)[i - 1] = kinds[i]
        BY <2>1, <3>3
      <4> QED BY <3>1, <4>1 DEF Range
    <3> QED BY <2>1, <3>1, <3>2, <3>3 DEF Range
  <2> QED BY <2>2, <2>3
<1>12. TypeOK'
  <2>1. told' \in BOOLEAN
    BY <1>5 DEF IInv, TypeOK
  <2> QED BY <1>1, <1>3, <1>9, <2>1 DEF IInv, TypeOK
<1>13. Allowed' /\ Session'
  <2>1. NoSavepoints' <=> NoSavepoints
    BY <1>1, <1>3 DEF NoSavepoints
  <2> QED BY <1>1, <1>3, <1>11, <2>1 DEF IInv, Allowed, Session, Working
<1>14. Checking'
  <2>1. Switch(0)' = Switch(0) /\ Switch(1)' = Switch(1) /\ Switch(0).obj.kind = "checks"
    BY DEF Switch
  <2>2. \A x \in list' : x.obj.kind # "checks"
    BY <1>9, <1>10
  <2> QED BY <1>1, <1>3, <2>1, <2>2 DEF IInv, Checking
<1>15. Telling'
  <2>1. dialect \in {"sqlserver", "cosmosdb"} \/ bad \cap Range(It.kinds) = {} \/ told'
    <3>1. bad = {} \/ \E k \in It.skipped : bad = Query(k)
      BY DEF Skippable
    <3>2. ASSUME dialect \notin {"sqlserver", "cosmosdb"}, ~It.says, NEW k \in It.skipped, bad = Query(k)
          PROVE  bad \cap Range(It.kinds) = {}
      <4>1. dialect # "redshift"
        BY <1>2, <3>2 DEF PluginFacts
      <4>2. bad = {k}
        BY <3>2, <4>1 DEF Query
      <4> QED BY <1>2, <3>2, <4>2 DEF PluginFacts
    <3> QED BY <1>5, <3>1, <3>2
  <2> QED BY <1>1, <1>3, <1>5, <2>1 DEF IInv, Telling
<1>16. Emptying' /\ Surveying'
  BY <1>3 DEF Emptying, Surveying
<1>17. Mirroring'
  <2> SUFFICES ASSUME dialect # "postgresql", errors = {}, NEW o \in db, o.kind \in Range(It.preview)
               PROVE  o.kind \in Range(kinds') \/ o \in Listed' \/ o.kind \in missed'
    BY <1>1, <1>3 DEF Mirroring
  <2>1. o.kind \in Range(kinds) \/ o.kind \in missed
    BY <1>3 DEF IInv, Mirroring, Listed
  <2>2. o.kind \in Range(It.kinds)
    BY <1>2 DEF PluginFacts
  <2> QED BY <1>5, <1>8, <1>9, <1>11, <2>1, <2>2
<1>18. Told'
  BY <1>3 DEF Told, Over, SuccessMeansEmpty, SurvivorsAreTold, PreviewMirrorsClean, FailuresAreIsolated,
              ChecksRestored
<1> QED BY <1>12, <1>13, <1>14, <1>15, <1>16, <1>17, <1>18 DEF IInv

\* A query that fails ends the call, and in one transaction what it did.
LEMMA NativeQueryFailsKeeps ==
  ASSUME IInv, NativeQueryFails
  PROVE  IInv'
<1>1. dialect' = dialect /\ enabled' = enabled /\ It' = It /\ (IsSystem' <=> IsSystem) /\ (Switches' <=> Switches)
      /\ Objects(dialect)' = Objects(dialect)
  BY SettingStays DEF NativeQueryFails
<1>2. /\ pc = "native" /\ pc' = "raised" /\ list = {} /\ list' = list /\ mode' = mode /\ mode = "native" /\ db' = db
      /\ before' = before /\ checked' = checked /\ checks' = checks /\ survey' = survey /\ kinds' = <<>>
      /\ reported' = reported /\ failed' = failed /\ missed' = missed /\ told' = told
      /\ errors' = errors \cup {"query"} /\ tx' = Aborted
  BY DEF IInv, Allowed, NativeQueryFails, call, words
<1>3. /\ tx' \in {"auto", "aborted"} /\ (tx' = "auto" <=> tx = "auto") /\ NoSavepoints'
      /\ errors' # {} /\ ("aborted" \in errors' => "aborted" \in errors)
  BY <1>2 DEF Aborted, NoSavepoints, IInv, TypeOK
<1>4. TypeOK'
  <2>1. errors' \subseteq Whys \ {""}
    BY <1>2 DEF IInv, TypeOK, Whys
  <2> QED BY <1>1, <1>2, <1>3, <2>1 DEF IInv, TypeOK
<1>5. Allowed'
  BY <1>1, <1>2 DEF IInv, Allowed, Working
<1>6. Session'
  <2>1. <<>> \in Seq(Kinds)
    OBVIOUS
  <2>2. "aborted" \in errors' => tx' = "aborted"
    BY <1>2, <1>3 DEF IInv, Session, Working, Aborted
  <2>3. reported \cap db = {} /\ before \subseteq Objects(dialect) /\ (tx # "auto" => dialect \in {"postgresql", "redshift"})
    BY <1>2 DEF IInv, Session, Working
  <2> QED BY <1>1, <1>2, <1>3, <2>1, <2>2, <2>3 DEF Session
<1>7. Checking'
  <2>1. Switch(0)' = Switch(0) /\ Switch(1)' = Switch(1)
    BY DEF Switch
  <2> QED BY <1>1, <1>2, <2>1 DEF IInv, Checking
<1>8. Telling' /\ Emptying' /\ Surveying' /\ Mirroring'
  BY <1>2 DEF Telling, Emptying, Surveying, Mirroring
<1>9. Told'
  BY <1>2 DEF Told, Over, SuccessMeansEmpty, SurvivorsAreTold, PreviewMirrorsClean, FailuresAreIsolated,
              ChecksRestored
<1> QED BY <1>4, <1>5, <1>6, <1>7, <1>8, <1>9 DEF IInv

\* An object leaves the list once it is gone, or with a failure; MySQL does not stop at one.
LEMMA NativeDropKeeps ==
  ASSUME IInv, NEW e \in list, NEW why \in Whys, NativeDrop(e, why)
  PROVE  IInv'
<1>1. dialect' = dialect /\ enabled' = enabled /\ It' = It /\ (IsSystem' <=> IsSystem) /\ (Switches' <=> Switches)
      /\ Objects(dialect)' = Objects(dialect)
  BY SettingStays DEF NativeDrop
<1>2. PluginFacts(dialect, It) /\ dialect \in DOMAIN Plugins
  BY ItIsSound DEF IInv
<1>3. /\ pc = "native" /\ mode' = mode /\ before' = before /\ checked' = checked
      /\ told' = told /\ survey' = survey /\ missed' = missed
      /\ \/ why # "" /\ It.stops /\ pc' = "raised" /\ list' = {} /\ kinds' = <<>>
         \/ ~(why # "" /\ It.stops) /\ pc' = pc /\ list' = list \ {e} /\ kinds' = kinds
  BY DEF NativeDrop, call, words
<1>4. StatementFacts(e, why)
  BY <1>3, StatementIsSound DEF IInv, NativeDrop
<1>5. mode = "native" /\ ~IsSystem /\ NoSavepoints'
  BY <1>1, <1>3 DEF IInv, Allowed, Working, NoSavepoints
<1>6. e.obj.kind # "checks" /\ checks' = checks
  BY <1>3, <1>4 DEF IInv, Checking, StatementFacts
<1>7. list' \subseteq list /\ kinds' \in Seq(Kinds) /\ pc' \in {"native", "raised"}
  <2>1. <<>> \in Seq(Kinds) /\ kinds \in Seq(Kinds)
    BY DEF IInv, Session
  <2> QED BY <1>3, <2>1
<1>8. TypeOK'
  <2>1. db' \subseteq Objects(dialect) /\ reported' \subseteq Objects(dialect) /\ errors' \subseteq Whys \ {""}
    BY <1>4 DEF IInv, TypeOK, StatementFacts
  <2>2. tx' \in {"auto", "open", "aborted"}
    BY <1>4 DEF IInv, TypeOK, StatementFacts
  <2>3. \A x \in list' : x.obj \in Objects(dialect) \cup {Switch(0).obj, Switch(1).obj}
    BY <1>7 DEF IInv, TypeOK
  <2> QED BY <1>1, <1>3, <1>6, <1>7, <2>1, <2>2, <2>3 DEF IInv, TypeOK
<1>9. Allowed'
  BY <1>1, <1>3, <1>5, <1>7 DEF Allowed, Working
<1>10. Session'
  <2>1. tx' # "auto" => dialect \in {"postgresql", "redshift"}
    BY <1>4 DEF IInv, Session, StatementFacts
  <2>2. tx' = "aborted" => errors' # {}
    BY <1>4 DEF IInv, Session, StatementFacts
  <2>3. "aborted" \in errors' => tx' = "aborted"
    BY <1>3, <1>4 DEF IInv, Session, Working, StatementFacts
  <2>4. reported' \cap db' = {} /\ (errors' = {} => failed' = {})
    BY <1>4 DEF IInv, Session, StatementFacts
  <2> QED BY <1>1, <1>3, <1>5, <1>7, <2>1, <2>2, <2>3, <2>4 DEF IInv, Session
<1>11. Checking'
  <2>1. Switch(0)' = Switch(0) /\ Switch(1)' = Switch(1) /\ Switch(0).obj.kind = "checks"
    BY DEF Switch
  <2>2. \A x \in list' : x.obj.kind # "checks"
    BY <1>3, <1>7 DEF IInv, Checking
  <2>3. pc' = "raised" => dialect # "mysql"
    BY <1>2, <1>3 DEF PluginFacts
  <2> QED BY <1>1, <1>3, <1>6, <1>7, <2>1, <2>2, <2>3 DEF IInv, Checking
<1>12. Telling' /\ Emptying' /\ Surveying'
  BY <1>1, <1>3, <1>7 DEF IInv, Telling, Emptying, Surveying
<1>13. Mirroring'
  <2> SUFFICES ASSUME dialect # "postgresql", pc' = "native", errors' = {},
                      NEW o \in db', o.kind \in Range(It.preview), o.kind \notin missed
               PROVE  o.kind \in Range(kinds') \/ o \in Listed'
    BY <1>1, <1>3, <1>7 DEF Mirroring
  <2>1. why = "" /\ errors = {} /\ o \in db /\ o # e.obj
    BY <1>4, <1>6 DEF StatementFacts
  <2>2. kinds' = kinds /\ list' = list \ {e}
    BY <1>3
  <2>3. o.kind \in Range(kinds) \/ \E x \in list : x.obj = o
    BY <1>3, <2>1 DEF IInv, Mirroring, Listed
  <2> QED BY <2>1, <2>2, <2>3 DEF Listed
<1>14. Told'
  BY <1>7 DEF Told, Over, SuccessMeansEmpty, SurvivorsAreTold, PreviewMirrorsClean, FailuresAreIsolated,
              ChecksRestored
<1> QED BY <1>8, <1>9, <1>10, <1>11, <1>12, <1>13, <1>14 DEF IInv

\* Nothing is left to be listed or dropped, or something was raised; the checks come on again
\* unless that fails, or unless MySQL's clean_schema gave up.
LEMMA NativeEndKeeps ==
  ASSUME IInv, NativeEnd
  PROVE  IInv'
<1>1. dialect' = dialect /\ enabled' = enabled /\ It' = It /\ (IsSystem' <=> IsSystem) /\ (Switches' <=> Switches)
      /\ Objects(dialect)' = Objects(dialect)
  BY SettingStays DEF NativeEnd
<1>2. /\ pc = "raised" \/ (pc = "native" /\ list = {} /\ kinds = <<>>)
      /\ list' = list /\ kinds' = kinds /\ mode' = mode /\ mode = "native" /\ before' = before /\ checked' = checked
      /\ reported' = reported /\ failed' = failed /\ missed' = missed /\ survey' = survey /\ Settled
      /\ ~IsSystem
  BY DEF IInv, Allowed, Working, NativeEnd, call
<1>3. \/ /\ pc' = (IF pc = "raised" THEN "failed" ELSE "done") /\ checks' = (checks \/ SwitchesBack)
         /\ errors' = errors
      \/ /\ SwitchesBack /\ checks' = checks /\ errors' = errors \cup {"switch"}
         /\ pc' = IF pc = "raised" THEN "failed" ELSE IF dialect = "sqlite" THEN "raised" ELSE "done"
  BY DEF NativeEnd
<1>4. told' \in BOOLEAN /\ (told => told')
  BY DEF IInv, TypeOK, NativeEnd
<1>5. /\ db' \subseteq Objects(dialect) /\ tx' \in {"auto", "open"}
      /\ tx' # "auto" => dialect \in {"postgresql", "redshift"}
      /\ db' = db \/ (NoSavepoints' /\ tx' = "open" /\ errors # {})
      /\ tx = "aborted" => NoSavepoints' /\ tx' = "open" /\ errors # {}
  BY <1>1, <1>2, SettledIsSound
<1>6. /\ pc' \in {"raised", "done", "failed"} /\ errors \subseteq errors' /\ errors' \subseteq Whys \ {""}
      /\ "aborted" \in errors' => "aborted" \in errors
      /\ pc' = "done" => pc = "native"
      /\ pc' = "raised" => dialect = "sqlite"
      /\ checks' \in BOOLEAN
  <2>1. errors \subseteq Whys \ {""} /\ "switch" \in Whys \ {""} /\ checks \in BOOLEAN
    BY DEF IInv, TypeOK, Whys
  <2>2. (checks \/ SwitchesBack) \in BOOLEAN
    BY <2>1 DEF SwitchesBack
  <2> QED BY <1>2, <1>3, <2>1, <2>2
<1>7. ChecksRestored' /\ (~checks' => Switches)
  <2>1. ~checks => Switches
    BY DEF IInv, Checking
  <2>2. pc = "raised" /\ dialect = "mysql" => "query" \in errors
    BY DEF IInv, Checking
  <2>3. Switches => SwitchesBack \/ (pc = "raised" /\ dialect = "mysql")
    BY <1>2 DEF SwitchesBack
  <2>4. ~checks' => Switches
    <3>1. checks => checks'
      BY <1>3, Zenon
    <3> QED BY <2>1, <3>1, Zenon
  <2>5. checks' \/ "switch" \in errors' \/ (dialect = "mysql" /\ "query" \in errors')
    <3>1. CASE checks' = (checks \/ SwitchesBack) /\ errors' = errors
      BY <2>1, <2>2, <2>3, <3>1
    <3>2. CASE errors' = errors \cup {"switch"}
      BY <3>2
    <3> QED BY <1>3, <3>1, <3>2
  <2> QED BY <1>1, <1>2, <2>4, <2>5 DEF ChecksRestored
<1>8. TypeOK'
  BY <1>1, <1>2, <1>4, <1>5, <1>6 DEF IInv, TypeOK
<1>9. Allowed'
  BY <1>1, <1>2, <1>6 DEF Allowed, Working
<1>10. dialect = "sqlite" => tx = "auto" /\ tx' = "auto" /\ db' = db /\ "aborted" \notin errors
  BY <1>2, <1>5 DEF IInv, TypeOK, Session, Working, Settled
<1>11. reported \cap db = {} /\ before \subseteq Objects(dialect) /\ kinds \in Seq(Kinds) /\ (errors = {} => failed = {})
  BY <1>2 DEF IInv, Session, Working
<1>12. Session'
  BY <1>1, <1>2, <1>5, <1>6, <1>10, <1>11 DEF Session, Working
<1>13. Checking'
  <2>1. Switch(0)' = Switch(0) /\ Switch(1)' = Switch(1)
    BY DEF Switch
  <2> QED BY <1>1, <1>2, <1>6, <1>7, <2>1 DEF IInv, Checking
<1>14. Telling' /\ Emptying' /\ Surveying' /\ Mirroring'
  BY <1>6 DEF Telling, Emptying, Surveying, Mirroring
<1>15. SuccessMeansEmpty' /\ SurvivorsAreTold'
  BY <1>2 DEF SuccessMeansEmpty, SurvivorsAreTold
<1>16. PreviewMirrorsClean'
  <2> SUFFICES ASSUME dialect # "postgresql", pc' = "done", errors' = {}, NEW o \in db', o.kind \in Range(It.preview)
               PROVE  PassedOver(o)'
    BY <1>1 DEF PreviewMirrorsClean
  <2>1. pc = "native" /\ errors = {} /\ db' = db /\ Range(kinds) = {} /\ Listed = {}
    BY <1>2, <1>5, <1>6 DEF Range, Listed
  <2>2. o.kind \in missed
    BY <2>1 DEF IInv, Mirroring
  <2>3. told \/ dialect \in {"cosmosdb", "sqlserver"}
    BY <2>1, <2>2 DEF IInv, Telling
  <2> QED BY <1>1, <1>2, <1>4, <2>2, <2>3 DEF PassedOver
<1>17. FailuresAreIsolated'
  <2>1. mode' # "clean"
    BY <1>2
  <2>2. errors # {} => errors' # {}
    BY <1>6
  <2> QED BY <1>2, <1>5, <1>11, <2>1, <2>2 DEF FailuresAreIsolated
<1> QED BY <1>7, <1>8, <1>9, <1>12, <1>13, <1>14, <1>15, <1>16, <1>17 DEF IInv, Told

\* The caller's next call finds what the last one left.
LEMMA ReturnKeeps ==
  ASSUME IInv, Return
  PROVE  IInv'
<1>1. dialect' = dialect /\ enabled' = enabled /\ It' = It /\ (IsSystem' <=> IsSystem) /\ (Switches' <=> Switches)
      /\ Objects(dialect)' = Objects(dialect)
  BY SettingStays DEF Return
<1>2. /\ pc \in {"done", "failed"} /\ pc' = "idle" /\ list' = list /\ kinds' = kinds /\ db' = db /\ tx' = tx
      /\ checks' = checks /\ checked' = checked /\ mode' = mode /\ before' = before /\ reported' = reported
      /\ failed' = failed /\ errors' = errors /\ missed' = missed /\ told' = told /\ survey' = survey
  BY DEF Return, call, session, outcome, words
<1>3. TypeOK'
  BY <1>1, <1>2 DEF IInv, TypeOK
<1>4. Checking'
  <2>1. Switch(0)' = Switch(0) /\ Switch(1)' = Switch(1)
    BY DEF Switch
  <2> QED BY <1>1, <1>2, <2>1 DEF IInv, Checking
<1>5. Allowed' /\ Session'
  BY <1>1, <1>2 DEF IInv, Allowed, Session, Working
<1>6. Telling' /\ Emptying' /\ Surveying' /\ Mirroring'
  BY <1>2 DEF Telling, Emptying, Surveying, Mirroring
<1>7. Told'
  BY <1>2 DEF Told, Over, SuccessMeansEmpty, SurvivorsAreTold, PreviewMirrorsClean, FailuresAreIsolated,
              ChecksRestored
<1> QED BY <1>3, <1>4, <1>5, <1>6, <1>7 DEF IInv

\* Every step keeps it.
LEMMA NextKeeps ==
  ASSUME IInv, [Next]_vars
  PROVE  IInv'
<1>1. CASE UNCHANGED vars
  <2>1. /\ dialect' = dialect /\ enabled' = enabled /\ It' = It /\ (IsSystem' <=> IsSystem)
        /\ (Switches' <=> Switches) /\ Objects(dialect)' = Objects(dialect)
    <3>1. UNCHANGED setting
      BY <1>1 DEF vars
    <3> QED BY <3>1, SettingStays
  <2>2. /\ db' = db /\ mode' = mode /\ pc' = pc /\ kinds' = kinds /\ list' = list /\ checks' = checks
        /\ tx' = tx /\ before' = before /\ checked' = checked /\ reported' = reported /\ failed' = failed
        /\ errors' = errors /\ missed' = missed /\ told' = told /\ survey' = survey
    BY <1>1 DEF vars, call, session, outcome, words
  <2>3. TypeOK'
    BY <2>1, <2>2 DEF IInv, TypeOK
  <2>4. Listed' = Listed /\ Droppable' = Droppable /\ (Over' <=> Over) /\ (Working' <=> Working)
        /\ (NoSavepoints' <=> NoSavepoints) /\ Switch(0)' = Switch(0) /\ Switch(1)' = Switch(1)
    BY <2>1, <2>2 DEF Listed, Droppable, Over, Working, NoSavepoints, Switch
  <2>5. Allowed' /\ Session' /\ Checking'
    BY <2>1, <2>2, <2>4 DEF IInv, Allowed, Session, Checking
  <2>6. Telling' /\ Emptying' /\ Surveying' /\ Mirroring'
    BY <2>1, <2>2, <2>4 DEF IInv, Telling, Emptying, Surveying, Mirroring
  <2>7. Told'
    BY <2>1, <2>2, <2>4 DEF IInv, Told, SuccessMeansEmpty, PassedOver, SurvivorsAreTold, PreviewMirrorsClean,
                            FailuresAreIsolated, ChecksRestored
  <2> QED BY <2>3, <2>5, <2>6, <2>7 DEF IInv
<1>2. ASSUME NEW m \in Modes, Begin(m) PROVE IInv'
  BY <1>2, BeginKeeps
<1>3. ASSUME NEW e \in list, NEW why \in Whys, DropObject(e, why) \/ NativeDrop(e, why) PROVE IInv'
  BY <1>3, DropObjectKeeps, NativeDropKeeps
<1> QED BY <1>1, <1>2, <1>3, ListKeeps, CommitKeeps, NativeStartKeeps, NativeListKeeps, NativeQueryFailsKeeps,
           NativeEndKeeps, ReturnKeeps DEF Next

\* It always holds.
LEMMA InvariantHolds == Spec => []IInv
<1>1. Init => IInv
  BY InitIsSound
<1>2. IInv /\ [Next]_vars => IInv'
  BY NextKeeps
<1> QED BY <1>1, <1>2, PTL DEF Spec

-----------------------------------------------------------------------------
(* Theorems.                                                               *)

\* Whatever depends on what, and whichever queries, drops, commits and looks for survivors
\* fail: what a clean that reports success has left could not be listed, and a warning says so
\* but on SQL Server; Snowflake has looked for survivors and told of them, unless the look
\* failed; and what the provider's own clean_schema reports done its preview names no more,
\* but for what could not be listed.
THEOREM CleanNeverLies == Spec => []CleanTellsTheTruth
<1>1. IInv => CleanTellsTheTruth
  BY DEF IInv, Told, CleanTellsTheTruth
<1> QED BY <1>1, InvariantHolds, PTL

\* However many of them fail: what is reported as dropped stays dropped and what clean leaves
\* was tried itself, or could not be listed, except where one transaction has no savepoints;
\* and foreign keys are checked again, unless the statement for it failed or MySQL's
\* clean_schema gave up over a query.
THEOREM FailuresStayContained == Spec => []FailuresAreContained
<1>1. IInv => FailuresAreContained
  BY DEF IInv, Told, FailuresAreContained
<1> QED BY <1>1, InvariantHolds, PTL

\* No call changes a system database under any spelling, and neither does a dry run or a clean
\* that is not enabled.
THEOREM SystemsAreUntouchable == Spec => Untouchable
<1>1. IInv /\ [Next]_vars =>
        [db' # db => ~(target = "system" \/ (target = "cased" /\ ~cased)) /\ mode # "dry"
                     /\ (mode = "clean" => enabled)]_vars
  <2> SUFFICES ASSUME IInv, Next, db' # db
               PROVE  ~(target = "system" \/ (target = "cased" /\ ~cased)) /\ mode # "dry"
                      /\ (mode = "clean" => enabled)
    BY DEF vars
  <2>1. pc \in {"drop", "native", "raised"}
    BY DEF Next, Begin, List, Commit, NativeStart, NativeList, NativeQueryFails, NativeEnd, Return, DropObject,
           NativeDrop
  <2> QED BY <2>1 DEF IInv, Allowed, Working, IsSystem
<1> QED BY <1>1, InvariantHolds, PTL DEF Spec, Untouchable
=============================================================================
