---------------------------- MODULE CleanSchema ----------------------------
(***************************************************************************)
(* clean: the objects of a schema are listed kind by kind, then dropped    *)
(* one by one.  What differs between the dialects is the order of the      *)
(* kinds, which catalogs may be unreadable, what DROP does to dependents,  *)
(* and whether a failed DROP spoils the transaction.  A provider also has  *)
(* a clean_schema of its own beside the command ("native"), with another   *)
(* order of its queries and other ways to take a failure.                  *)
(***************************************************************************)
EXTENDS Naturals, FiniteSets, SequencesExt

CONSTANTS
  Dialects,   \* the dialects to check
  Modes,      \* of "clean", "dry", "native": the calls to check
  Targets,    \* of "user", "system", "cased": what the target's name is
  MaxTies,    \* bound: dependencies between the objects
  MaxFaults,  \* bound: queries, statements and commits that fail
  MaxCalls    \* bound: calls, one after the other

ASSUME CleanSchemaAssumption ==
  /\ Modes \subseteq {"clean", "dry", "native"} /\ Targets \subseteq {"user", "system", "cased"}
  /\ MaxTies \in Nat /\ MaxFaults \in Nat /\ MaxCalls \in Nat

VARIABLES
  dialect, target, cased, enabled,  \* cased: the server tells names apart by case
  db,       \* objects of the schema, [kind, n]
  ties,     \* dependencies, [of, on, effect]: what a DROP of "on" does to "of"
  mode, pc, calls,
  kinds,    \* native: kinds still to be listed
  list,     \* entries still to be dropped, [obj, verb, at], at: their place
  checks,   \* whether the session checks foreign keys
  tx,       \* "auto" a commit per statement, "open" one transaction, "aborted"
  before,   \* db when the transaction began
  checked,  \* checks when the call began
  reported, \* objects reported as dropped
  failed,   \* objects whose own drop failed
  errors,   \* why statements, queries and the commit failed
  missed,   \* kinds whose catalog could not be read and was passed over
  told,     \* a warning says that objects may be left
  survey,   \* Snowflake: the drops to wait for before it looks for survivors
  faults

setting == <<dialect, target, cased, enabled, ties>>
call == <<mode, calls, before, checked>>
session == <<checks, tx>>
outcome == <<reported, failed, errors>>
words == <<missed, told, survey>>

vars == <<setting, db, pc, kinds, list, call, session, outcome, words, faults>>

-----------------------------------------------------------------------------
(* The dialects.                                                           *)
(* kinds: the order of the listing.  optional: kinds whose catalog may be  *)
(* unreadable; shows: the kind such objects are then taken for, with the   *)
(* wrong verb.  says: whether an unreadable catalog is reported.           *)
(* missing: kinds whose DROP fails for an object that is gone.             *)
(* skipped, whole, stops: clean_schema passes over the failed queries of   *)
(* these kinds, lists everything before its first drop, ends at a failed   *)
(* drop.                                                                   *)

Plugin(order, relations) ==
  [kinds |-> order, native |-> order, preview |-> order, ties |-> relations, optional |-> {}, shows |-> <<>>,
   says |-> FALSE, missing |-> {}, skipped |-> {}, whole |-> FALSE, stops |-> FALSE]

\* clean_schema: no materialized views, and an aggregate counts as a view.
PostgreSqlNative == <<"extension", "view", "table", "sequence", "routine", "type">>

\* Every DROP cascades.  A continuous aggregate is listed among the views and dropped as
\* what it is; clean_schema takes it for a view.
PostgreSql ==
  [Plugin(<<"extension", "view", "aggregate", "materialized_view", "table", "sequence", "routine", "type">>,
     {<<"view", "table", "cascade">>, <<"view", "view", "cascade">>, <<"materialized_view", "table", "cascade">>,
      <<"table", "type", "cascade">>, <<"routine", "extension", "cascade">>})
   EXCEPT !.native = PostgreSqlNative]

\* The materialized views first, and routines without CASCADE.
Redshift ==
  [Plugin(<<"materialized_view", "view", "late_binding", "table", "procedure", "function">>,
     {<<"materialized_view", "view", "cascade">>, <<"view", "materialized_view", "cascade">>,
      <<"view", "table", "cascade">>, <<"view", "function", "refuse">>})
   EXCEPT !.optional = {"materialized_view", "late_binding", "procedure", "function"},
          !.shows = [materialized_view |-> "view"], !.says = TRUE,
          !.missing = {"procedure", "function"}, !.whole = TRUE, !.stops = TRUE,
          !.skipped = {"materialized_view", "late_binding", "procedure", "function"}]

MysqlNative == <<"trigger", "view", "table", "sequence", "function", "procedure", "event">>

\* Foreign keys only count while the session checks them.
Mysql ==
  [Plugin(<<"trigger", "view", "table", "sequence", "function", "procedure", "event">>,
     {<<"table", "table", "fk">>, <<"trigger", "table", "cascade">>})
   EXCEPT !.native = MysqlNative]

\* Neither clean_schema nor the preview knows the full-text catalogs.
SqlServerNative == <<"foreign_key", "view", "table", "temporal", "routine", "sequence", "type", "synonym">>
SqlServerPreview == <<"foreign_key", "view", "table", "temporal", "routine", "sequence", "type", "synonym">>

\* A temporal table whose versioning is not turned off cannot be dropped.
SqlServer ==
  [Plugin(<<"foreign_key", "view", "table", "temporal", "routine", "sequence", "type", "synonym", "catalog">>,
     {<<"foreign_key", "table", "refuse">>, <<"table", "catalog", "refuse">>})
   EXCEPT !.native = SqlServerNative, !.preview = SqlServerPreview,
          !.optional = {"temporal", "sequence", "type", "synonym", "catalog"},
          !.shows = [temporal |-> "table"], !.skipped = {"sequence", "type", "synonym"},
          !.missing = {"foreign_key", "view", "table", "routine", "sequence", "type", "synonym", "catalog"}]

Db2 ==
  [Plugin(<<"trigger", "foreign_key", "view", "query_table", "temporary_table", "table", "alias", "sequence",
            "function", "procedure", "type", "module">>,
     {<<"foreign_key", "table", "refuse">>, <<"trigger", "table", "cascade">>})
   EXCEPT !.missing = {"trigger", "foreign_key", "view", "query_table", "temporary_table", "table"},
          !.whole = TRUE]

\* A table partitioned by reference must go before the one it refers to.  A trigger that
\* is gone with its table is fine.  Without the list of partitions the order is by name.
Oracle ==
  [Plugin(<<"database_link", "view", "materialized_view", "table", "sequence", "body", "unit", "trigger", "synonym">>,
     {<<"table", "table", "refuse">>, <<"trigger", "table", "cascade">>})
   EXCEPT !.missing = {"view", "materialized_view", "table", "sequence", "body", "unit", "synonym"},
          !.optional = {"partitions"}, !.skipped = {"partitions"}]

\* Only views, tables and sequences must be listable.
Snowflake ==
  [Plugin(<<"pipe", "stream", "dynamic_table", "materialized_view", "view", "table", "external_table",
            "sequence", "policy", "function", "procedure", "stage", "secret">>,
     {<<"table", "policy", "refuse">>, <<"function", "secret", "refuse">>})
   EXCEPT !.optional = {"pipe", "stream", "dynamic_table", "materialized_view", "external_table", "policy",
                        "function", "procedure", "stage", "secret"},
          !.shows = [dynamic_table |-> "table", external_table |-> "table", materialized_view |-> "view"],
          !.skipped = {"pipe", "stream", "dynamic_table", "materialized_view", "external_table", "policy",
                       "function", "procedure", "stage", "secret"},
          !.whole = TRUE, !.stops = TRUE, !.says = TRUE]

\* A foreign key of another table is not dropped by CASCADE.
DuckDb ==
  [Plugin(<<"view", "table", "sequence", "macro", "table_macro", "type">>,
     {<<"table", "table", "refuse">>, <<"table", "type", "refuse">>})
   EXCEPT !.whole = TRUE, !.stops = TRUE]

Sqlite ==
  [Plugin(<<"view", "trigger", "table">>, {<<"table", "table", "fk">>, <<"trigger", "table", "cascade">>})
   EXCEPT !.whole = TRUE]

\* Views live in a collection of the server, which is not listed.
MongoDb ==
  [Plugin(<<"view", "collection">>, {<<"view", "system", "cascade">>})
   EXCEPT !.missing = {"view", "collection"}, !.whole = TRUE]

\* clean_schema takes a list of containers that it cannot get for an empty one.
CosmosDb ==
  [Plugin(<<"container">>, {}) EXCEPT !.missing = {"container"}, !.whole = TRUE, !.skipped = {"container"}]

Plugins ==
  [postgresql |-> PostgreSql, redshift |-> Redshift, mysql |-> Mysql, sqlserver |-> SqlServer, db2 |-> Db2,
   oracle |-> Oracle, snowflake |-> Snowflake, duckdb |-> DuckDb, sqlite |-> Sqlite, mongodb |-> MongoDb,
   cosmosdb |-> CosmosDb]

ASSUME PluginsAssumption == Dialects \subseteq DOMAIN Plugins

It == Plugins[dialect]

-----------------------------------------------------------------------------
(* The schema.                                                             *)

Objects(d) ==
  LET number(k) == IF k = "table" THEN 1..3 ELSE IF k = "view" THEN 1..2 ELSE 1..1
      all == Range(Plugins[d].kinds) \cup (IF d = "mongodb" THEN {"system"} ELSE {})
  IN  UNION {{[kind |-> k, n |-> i] : i \in number(k)} : k \in all}

PossibleTies(d) ==
  LET of(k) == {o \in Objects(d) : o.kind = k}
      all == UNION {{[of |-> x, on |-> y, effect |-> r[3]] : x \in of(r[1]), y \in of(r[2])} :
                      r \in Plugins[d].ties}
  IN  {t \in all : t.of # t.on}

\* No two objects depend on each other.
SomeTies(d) ==
  LET all == PossibleTies(d)
      some == {{}} \cup (IF MaxTies > 0 THEN {{p} : p \in all} ELSE {})
                   \cup (IF MaxTies > 1 THEN {{p, q} : p, q \in all} ELSE {})
  IN  {s \in some : \A p, q \in s : ~(p.of = q.on /\ p.on = q.of)}

NoSurvey == [watched |-> {}, done |-> FALSE, failed |-> FALSE]

Init ==
  /\ dialect \in Dialects
  /\ target \in (IF dialect = "mysql" THEN Targets ELSE {"user"})
  /\ cased \in (IF target = "cased" THEN BOOLEAN ELSE {FALSE}) /\ enabled \in BOOLEAN
  /\ db \in {Objects(dialect), {o \in Objects(dialect) : o.kind # "aggregate"}} \* with TimescaleDB or without
  /\ ties \in SomeTies(dialect)
  /\ mode = "none" /\ pc = "idle" /\ calls = 0 /\ kinds = <<>> /\ list = {} /\ checks = TRUE
  /\ tx \in (IF dialect \in {"postgresql", "redshift"} THEN {"auto", "open"} ELSE {"auto"})
  /\ before = db /\ checked = TRUE /\ reported = {} /\ failed = {} /\ errors = {}
  /\ missed = {} /\ told = FALSE /\ survey = NoSurvey /\ faults = 0

\* The dependents a DROP takes along, two levels deep: as deep as MaxTies = 2 makes them.
With(o) ==
  LET on(x) == {t.of : t \in {u \in ties : u.on = x /\ u.effect = "cascade"}}
  IN  {o} \cup on(o) \cup UNION {on(x) : x \in on(o)}

Blocked(o) ==
  \E t \in ties : t.on = o /\ t.of \in db /\ (t.effect = "refuse" \/ (t.effect = "fk" /\ checks))

-----------------------------------------------------------------------------
(* The listing.                                                            *)

ByName(s) == SetToSortSeq(s, LAMBDA x, y : x.n < y.n)

\* Kahn's algorithm: a table is emitted once no remaining table refers to it.
FkOrderedTables(tables) ==
  LET Free(left) == {y \in left : ~\E t \in ties : t.on = y /\ t.of \in left}
      Pass[i \in Nat] ==
        IF i = 0 THEN [queue |-> ByName(Free(tables)), left |-> tables, out |-> <<>>]
        ELSE LET p == Pass[i - 1]
                 rest == p.left \ {Head(p.queue)}
             IN  IF p.queue = <<>> THEN p
                 ELSE [queue |-> Tail(p.queue) \o ByName(Free(rest) \ Range(p.queue)), left |-> rest,
                       out |-> Append(p.out, Head(p.queue))]
      end == Pass[Cardinality(tables)]
  IN  end.out \o ByName(end.left)

\* Mutant: by name.
ChildrenUnsorted(tables) == ByName(tables)

\* Tables partitioned by reference first, each group by name.
ChildrenFirst(tables) ==
  LET child(x) == \E t \in ties : t.of = x /\ t.effect = "refuse"
  IN  ByName({x \in tables : child(x)}) \o ByName({x \in tables : ~child(x)})

InOrder(k, found, bad) ==
  CASE k = "table" /\ dialect = "duckdb" -> FkOrderedTables(found)
    [] k = "table" /\ dialect = "oracle" /\ "partitions" \notin bad -> ChildrenFirst(found)
    [] OTHER -> ByName(found)

\* The kind an object is taken for.
Looks(o, bad) == IF o.kind \in bad THEN It.shows[o.kind] ELSE o.kind

\* An object among those of a kind; one that is only taken for it comes after them.
Index(s, x) == SelectInSeq(s, LAMBDA y : y = x)
Entry(o, k, bad) ==
  [obj |-> o, verb |-> k,
   at |-> 10 * Index(It.kinds, k)
            + IF o.kind = k THEN Index(InOrder(k, {x \in db : x.kind = k}, bad), o) ELSE 3 + o.n]

\* The objects that are listed, those of an unreadable kind only as what they are taken for.
Seen(bad) == {o \in db : o.kind \in Range(It.kinds) /\ (o.kind \in bad => o.kind \in DOMAIN It.shows)}

Switch(on) == [obj |-> [kind |-> "checks", n |-> on], verb |-> "control", at |-> 1000 * on]

\* MySQL, MariaDB and SQLite turn the foreign key checks off around the drops.
AroundChecks(entries) ==
  IF dialect \notin {"mysql", "sqlite"} \/ entries = {} THEN entries
  ELSE {Switch(0), Switch(1)} \cup entries

ListDroppableObjects(bad) == AroundChecks({Entry(o, Looks(o, bad), bad) : o \in Seen(bad)})

-----------------------------------------------------------------------------
(* The command.                                                            *)

\* Mutant: the name is compared as it is written.
IsSystemExact == target = "system"

\* Names are folded on a server that does not tell them apart by case.
IsSystem == target = "system" \/ (target = "cased" /\ ~cased)

\* MySQL, MariaDB and SQLite have clean_schema turn the checks off first.
Switches == dialect \in {"mysql", "sqlite"}

Begin(m) ==
  /\ pc = "idle" /\ calls < MaxCalls /\ calls' = calls + 1 /\ mode' = m
  /\ LET refused == (m = "clean" /\ ~enabled) \/ IsSystem
     IN  /\ pc' = IF refused THEN "failed" ELSE IF m # "native" THEN "list"
                  ELSE IF Switches THEN "start" ELSE "native"
         /\ kinds' = IF refused \/ m # "native" THEN <<>> ELSE It.native
  /\ list' = {} /\ before' = db /\ checked' = checks /\ reported' = {} /\ failed' = {} /\ errors' = {}
  /\ missed' = {} /\ told' = FALSE /\ survey' = NoSurvey
  /\ UNCHANGED <<setting, session, db, faults>>

\* The kinds that the query for a kind lists: Redshift has one for its routines.
Query(k) == IF dialect = "redshift" /\ k \in {"procedure", "function"} THEN {"procedure", "function"} ELSE {k}

\* One unreadable catalog, or none.
Unreadable == {{}} \cup (IF faults < MaxFaults THEN {Query(k) : k \in Range(It.kinds) \cup It.optional} ELSE {})

\* What a listing with unreadable catalogs leaves: the entries, and what it says of the rest.
Listing(bad, entries) ==
  /\ list' = entries /\ missed' = missed \cup (bad \cap Range(It.kinds))
  /\ told' = (told \/ (bad # {} /\ It.says)) /\ faults' = IF bad = {} THEN faults ELSE faults + 1

\* Snowflake's list_droppable_objects: the drops to wait for.
Watch(entries) ==
  survey' = IF dialect = "snowflake" THEN [survey EXCEPT !.watched = {e.obj : e \in entries}] ELSE survey

\* Mutant: a catalog that cannot be read counts as empty.
ListLenient ==
  /\ pc = "list" /\ pc' = IF mode = "dry" THEN "done" ELSE "drop"
  /\ \E bad \in Unreadable : Listing(bad, ListDroppableObjects(bad)) /\ Watch(ListDroppableObjects(bad))
  /\ UNCHANGED <<setting, call, session, outcome, db, kinds>>

List ==
  /\ pc = "list"
  /\ \E bad \in Unreadable :
       IF bad \subseteq It.optional
       THEN /\ Listing(bad, ListDroppableObjects(bad)) /\ Watch(ListDroppableObjects(bad))
            /\ pc' = IF mode = "dry" THEN "done" ELSE "drop"
       ELSE pc' = "failed" /\ faults' = faults + 1 /\ UNCHANGED <<list, words>>
  /\ UNCHANGED <<setting, call, session, outcome, db, kinds>>

\* What the server makes of one entry; "" when it succeeds.
Refusals(e) ==
  IF tx = "aborted" THEN {"aborted"}
  ELSE (IF faults < MaxFaults THEN {IF e.obj.kind = "checks" THEN "switch" ELSE "fault"} ELSE {}) \cup
       (IF e.obj.kind = "checks" THEN {""}
        ELSE IF e.obj \notin db THEN {IF e.obj.kind \in It.missing THEN "missing" ELSE ""}
        ELSE IF e.verb # e.obj.kind THEN {"verb"}
        ELSE IF Blocked(e.obj) THEN {"depends"} ELSE {""})

\* An error ends an open transaction of PostgreSQL and Redshift.
Aborted == IF tx = "open" THEN "aborted" ELSE tx

\* Mutant: no savepoint around the drop.
Unguarded == Aborted

\* drop_object of PostgreSQL goes back to its savepoint; Redshift has none, and neither
\* has clean_schema.
Spoiled == IF mode = "clean" /\ dialect = "postgresql" THEN tx ELSE Aborted

\* The statement e of the list; \E why: it succeeds or fails.
Statement(e, why) ==
  LET fails == why # ""
      drops == e.obj.kind # "checks"
  IN  /\ e \in list /\ \A x \in list : e.at <= x.at
      /\ why \in Refusals(e)
      /\ faults' = IF why \in {"fault", "switch"} THEN faults + 1 ELSE faults
      /\ db' = IF ~fails /\ drops THEN db \ With(e.obj) ELSE db
      /\ checks' = IF ~fails /\ ~drops THEN e.obj.n = 1 ELSE checks
      /\ tx' = IF fails THEN Spoiled ELSE tx
      /\ errors' = IF fails THEN errors \cup {why} ELSE errors
      /\ failed' = IF fails /\ why # "aborted" THEN failed \cup {e.obj} ELSE failed
      /\ reported' = IF ~fails /\ drops THEN reported \cup {e.obj} ELSE reported

\* Snowflake's drop_object: after the last drop of the listing it looks for survivors.  A
\* look that fails is only a line of the debug log.
Survey(o) ==
  LET last == dialect = "snowflake" /\ survey.watched = {o}
  IN  \E fails \in BOOLEAN :
        /\ fails => last
        /\ survey' = [watched |-> survey.watched \ {o}, done |-> survey.done \/ last,
                      failed |-> survey.failed \/ fails]
        /\ told' = (told \/ (last /\ ~fails /\ db' # {}))

\* The loop goes on after a failed drop.
DropObject(e, why) ==
  /\ pc = "drop" /\ Statement(e, why) /\ list' = list \ {e} /\ Survey(e.obj)
  /\ UNCHANGED <<setting, call, pc, kinds, missed>>

\* The transaction is over: one that was aborted leaves the schema as it was before.
Settled == db' = (IF tx = "aborted" THEN before ELSE db) /\ tx' = IF tx = "aborted" THEN "open" ELSE tx

\* Committed if anything was dropped.  A commit that fails leaves the schema as it was.
Commit ==
  /\ pc = "drop" /\ list = {}
  /\ \/ pc' = (IF errors = {} THEN "done" ELSE "failed") /\ Settled /\ UNCHANGED <<errors, faults>>
     \/ /\ reported # {} /\ faults < MaxFaults /\ faults' = faults + 1
        /\ pc' = "failed" /\ errors' = errors \cup {"commit"}
        /\ db' = (IF tx = "auto" THEN db ELSE before) /\ tx' = IF tx = "aborted" THEN "open" ELSE tx
  /\ UNCHANGED <<setting, call, words, kinds, list, checks, reported, failed>>

-----------------------------------------------------------------------------
(* clean_schema of the provider: kind by kind, or all of a preview.  What  *)
(* it raises ends it ("raised").                                           *)

\* MySQL looks whether it may list the events.  It goes on if the checks cannot be turned
\* off, where SQLite gives up.
NativeStart ==
  /\ pc = "start"
  /\ \/ pc' = "native" /\ checks' = FALSE /\ UNCHANGED <<kinds, errors, faults>>
     \/ /\ faults < MaxFaults /\ faults' = faults + 1 /\ checks' = checks
        /\ \/ dialect = "mysql" /\ pc' = "raised" /\ kinds' = <<>> /\ errors' = errors \cup {"query"}
           \/ dialect = "mysql" /\ pc' = "native" /\ kinds' = kinds /\ errors' = errors \cup {"switch"}
           \/ dialect = "sqlite" /\ pc' = "raised" /\ kinds' = <<>> /\ errors' = errors \cup {"switch"}
  /\ UNCHANGED <<setting, call, words, db, list, tx, reported, failed>>

\* The kinds that the next queries are for.
Asked == IF It.whole THEN Range(kinds) ELSE {Head(kinds)}

\* Queries that may fail and are passed over: for these kinds, or for Oracle's partitions.
Skippable ==
  {{}} \cup (IF faults < MaxFaults THEN {Query(k) : k \in It.skipped \ (Range(It.kinds) \ Asked)} ELSE {})

\* PostgreSQL's views include the aggregates, which look like views.
NativeList ==
  /\ pc = "native" /\ list = {} /\ kinds # <<>> /\ tx # "aborted"
  /\ \E bad \in Skippable :
       LET found == {o \in Seen(bad) : o.kind \in Asked}
           aggregates == IF dialect = "postgresql" /\ "view" \in Asked THEN {o \in db : o.kind = "aggregate"} ELSE {}
       IN  Listing(bad, {Entry(o, Looks(o, bad), bad) : o \in found} \cup {Entry(o, "view", bad) : o \in aggregates})
  /\ kinds' = (IF It.whole THEN <<>> ELSE Tail(kinds))
  /\ UNCHANGED <<setting, call, session, outcome, db, pc, survey>>

\* Another query that fails ends the call; SQL Server's temporal tables come with the tables.
NativeQueryFails ==
  /\ pc = "native" /\ list = {} /\ kinds # <<>>
  /\ \/ tx = "aborted" /\ faults' = faults
     \/ /\ tx # "aborted" /\ ~(Asked \subseteq It.skipped \cup {"temporal"})
        /\ faults < MaxFaults /\ faults' = faults + 1
  /\ pc' = "raised" /\ kinds' = <<>> /\ errors' = errors \cup {"query"} /\ tx' = Aborted
  /\ UNCHANGED <<setting, call, words, db, list, checks, reported, failed>>

\* A failure is logged, or ends the call.
NativeDrop(e, why) ==
  /\ pc = "native" /\ Statement(e, why)
  /\ IF why # "" /\ It.stops THEN pc' = "raised" /\ list' = {} /\ kinds' = <<>>
     ELSE pc' = pc /\ list' = list \ {e} /\ kinds' = kinds
  /\ UNCHANGED <<setting, call, words>>

\* SQLite turns the checks on again although something raised, MySQL does not.
SwitchesBack == Switches /\ (dialect = "mysql" => pc = "native")

\* The end of clean_schema.  MySQL logs that the checks cannot be turned on, SQLite raises and
\* tries it once more.  Snowflake looks for survivors as after clean.
NativeEnd ==
  /\ pc = "raised" \/ (pc = "native" /\ list = {} /\ kinds = <<>>)
  /\ \/ /\ pc' = (IF pc = "raised" THEN "failed" ELSE "done") /\ checks' = (checks \/ SwitchesBack)
        /\ UNCHANGED <<errors, faults>>
     \/ /\ SwitchesBack /\ faults < MaxFaults /\ faults' = faults + 1 /\ checks' = checks
        /\ errors' = errors \cup {"switch"}
        /\ pc' = IF pc = "raised" THEN "failed" ELSE IF dialect = "sqlite" THEN "raised" ELSE "done"
  /\ told' \in {told, told \/ (dialect = "snowflake" /\ pc = "native" /\ reported # {} /\ db # {})}
  /\ Settled
  /\ UNCHANGED <<setting, call, kinds, list, reported, failed, missed, survey>>

Return ==
  /\ pc \in {"done", "failed"} /\ calls < MaxCalls /\ pc' = "idle"
  /\ UNCHANGED <<setting, call, session, outcome, words, db, kinds, list, faults>>

Whys == {"", "fault", "aborted", "missing", "verb", "depends", "switch", "query", "commit"}

Next ==
  \/ \E m \in Modes : Begin(m)
  \/ List \/ Commit \/ NativeStart \/ NativeList \/ NativeQueryFails \/ NativeEnd \/ Return
  \/ \E e \in list, why \in Whys : DropObject(e, why) \/ NativeDrop(e, why)

Spec == Init /\ [][Next]_vars

-----------------------------------------------------------------------------
(* Properties.                                                             *)

\* Objects, entries and the session have their types.
TypeOK ==
  /\ dialect \in Dialects /\ db \subseteq Objects(dialect) /\ reported \subseteq Objects(dialect)
  /\ pc \in {"idle", "list", "drop", "start", "native", "raised", "done", "failed"} /\ errors \subseteq Whys \ {""}
  /\ tx \in {"auto", "open", "aborted"} /\ checks \in BOOLEAN /\ checked \in BOOLEAN /\ told \in BOOLEAN
  /\ survey \in [watched : SUBSET Objects(dialect), done : BOOLEAN, failed : BOOLEAN]
  /\ \A e \in list : e.obj \in Objects(dialect) \cup {Switch(0).obj, Switch(1).obj}

Over == pc \in {"done", "failed"}
Droppable == {o \in db : o.kind \in Range(It.kinds)}

\* A kind whose catalog could not be read is told of.  SQL Server only logs it for debugging,
\* and so does CosmosDB's clean_schema as an error.
PassedOver(o) == o.kind \in missed /\ (told \/ dialect \in {"sqlserver", "cosmosdb"})

\* A clean that succeeds leaves nothing behind that it would drop, except kinds it could not
\* list, and those it tells.
SuccessMeansEmpty == mode = "clean" /\ pc = "done" => \A o \in Droppable : PassedOver(o)

\* With no failure and only the dependencies the order is made for, clean succeeds.  Oracle's
\* reference partitioned tables are in order one by one, not when two hang on one another.
OrderSuffices ==
  pc = "failed" /\ (dialect = "oracle" => Cardinality(ties) <= 1) =>
     faults > 0 \/ mode # "clean" \/ ~enabled \/ IsSystem

\* Redshift has no savepoints and clean_schema of PostgreSQL sets none: in one transaction a
\* failure there undoes the drops before it.
NoSavepoints == dialect = "redshift" \/ mode = "native"

\* A failed drop undoes no other and keeps no other from happening: what is reported as
\* dropped is gone when the call is over, and what clean leaves was tried and failed for a
\* reason of its own, or could not be listed.
FailuresAreIsolated ==
  Over /\ "commit" \notin errors /\ ~(NoSavepoints /\ tx = "open" /\ errors # {}) =>
    /\ reported \cap db = {}
    /\ mode = "clean" /\ (pc = "done" \/ errors # {}) => \A o \in Droppable : o \in failed \/ o.kind \in missed

\* A session that checked foreign keys does so again when the call is over, although drops
\* failed: unless the statement that turns them on failed, or a query of MySQL's clean_schema,
\* which then leaves them off.
ChecksRestored ==
  Over /\ checked => checks \/ "switch" \in errors \/ (dialect = "mysql" /\ mode = "native" /\ "query" \in errors)

\* A system database loses nothing, under whatever spelling the server knows it, and
\* neither does a schema in a dry run or one that may not be cleaned.
Untouchable ==
  [][db' # db => ~(target = "system" \/ (target = "cased" /\ ~cased)) /\ mode # "dry" /\ (mode = "clean" => enabled)]_vars

\* Snowflake: when a clean that tried to drop something is over, it has looked for survivors,
\* failed drops or not, and if there are any a warning says so, unless the look itself failed.
SurvivorsAreTold ==
  dialect = "snowflake" /\ mode = "clean" /\ Over /\ (reported # {} \/ errors # {})
    => survey.done /\ (db = {} \/ told \/ survey.failed)

\* What the preview's docstring says of clean_schema: they name the same objects, so that
\* after one that reports no failure the preview is empty, except for kinds it could not list.
\* Not in PostgreSQL, whose preview lists materialized views that clean_schema does not know.
PreviewMirrorsClean ==
  dialect # "postgresql" /\ mode = "native" /\ pc = "done" /\ errors = {} =>
    \A o \in db : o.kind \in Range(It.preview) => PassedOver(o)

\* What clean says it dropped is gone, and what it left it tells.
CleanTellsTheTruth == TypeOK /\ SuccessMeansEmpty /\ SurvivorsAreTold /\ PreviewMirrorsClean

\* One failure spoils neither the drops around it nor the session.
FailuresAreContained == FailuresAreIsolated /\ ChecksRestored
=============================================================================
