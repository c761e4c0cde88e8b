# A TLA+ model of dblift

dblift applies versioned, repeatable and undo scripts to a database and keeps a history
table of what it applied. It runs as a command line, as a Python client (synchronous and
asynchronous) and as an MCP server, on relational engines through SQLAlchemy or a native
driver, and on MongoDB and Cosmos DB. Several processes may run it against one database at
the same time; a lock in that database keeps them apart.

The modules here are translated from `src/dblift`. `PROJECT.json` maps every definition to
the lines it stands for, names the run that checks each property together with a mutant of
the code that breaks it, and lists the hazards the properties are about.

## 1. Inventory

| Part | State it keeps | Operations | What makes it correct | Module |
|---|---|---|---|---|
| Lease lock (`db/plugins/lease_lock.py`, `sql_lease_store.py`; also used by SQLite and MongoDB) | one row with owner and timestamp; a token and a heartbeat thread per holder | acquire, heartbeat, release, reclaim | one owner; a live holder keeps it; a dead one's row expires; who lost it learns so | `LeaseLock`, abstract: `MigrationLock` |
| Cosmos DB lock | one document that expires | native phase, fallback phase, release | as above, within the expiry | `CosmosLock` |
| migrate, mark, repair, import-flyway | plan, current script, open transaction, report | plan, lock, plan again, execute, record, release | scripts are whole, in order, recorded once | `MigrateRun`, abstract: `AtomicMigrations` |
| The frame of every command (`base_command.py`, `_script_runner.py`, journal) | lock, journal, events, callbacks | preflight, before/each/after callbacks, scripts, error handlers, footer | one end per started script; error callbacks under the lock; success is earned | `CommandRun` |
| State, plans, undo, repair, validate, info | derived from the history's rows and the files | derive, plan, undo, repair, validate, baseline | the derived state is what really ran; each plan is exact | `SchemaHistory` |
| clean, per dialect | list of drops, session switches, transaction | list, drop, commit; `clean_schema`; preview | success means empty; nothing else is touched | `CleanSchema` |
| History table, per dialect | rows with ranks | create, read, record, baseline check | ranks unique and growing; first runs may race | `HistoryStore` |
| SQLAlchemy provider and execution engine | connection, transaction handle, note of pending work, session schema | begin, execute, commit, roll back, schema switch | a script and its row become durable together; a caller's work is left alone | `ProviderSession` |
| Finding scripts (`migration_script_manager.py`, `filename_parser.py`, `version_utils.py`, `encoding.py`) | directories left, references, scripts read | search, name, read, sort | every script once, in order, as it was written | `ScriptCatalog`, `VersionOrder` |
| Reading scripts (MySQL) | position, delimiter, nesting, fragments | read a token, end a statement, refuse | cut where the mysql client cuts | `DelimiterScript` |
| Reading scripts (PostgreSQL, Redshift, Snowflake, SQLite: `lexical_tokenizer.py`, `lexical_statement_parser.py`) | position, parentheses, body depth, COPY header, shell state | read a token, end a statement, read COPY data, refuse | cut where psql, the shell or the server cut; refuse what only a client runs | `LexicalScript` |
| Configuration | merged data, active environment, anchored paths | read, merge, resolve secrets, anchor | precedence; both entries agree; nothing empty is replaced | `ConfigResolution` |
| Client (`api/client.py`) | reentrant lock, bound emitter, connection | the eight operations, close | serialised; events match results | `ClientCalls` |
| Async client, FastAPI guard | asyncio lock, worker thread | operations, aclose, guard | cancellation never leaves a running worker unguarded | `AsyncClient` |
| Event emitter (`api/events.py`) | listener lists, batch, history | on, off, clear, emit, batch calls | each listener hears once; nothing batched is lost | `EventBus` |
| Command line (`cli/main.py`) | log files, client, recorded results, exit code | a chain of commands, reports, signals | exit code and reports say what happened; all is closed on every way out | `CommandLine` |
| MCP server (`cli/mcp`) | call lock, redirected stdout, pinned log file | tool calls in worker threads | one call at a time; its output is its own; the channel stays clean | `McpServer` |

Hard in this code: processes that overlap in one database and die at any point; a lease that
expires while its holder is paused; results and rows written by different transactions;
listeners and callbacks that call back into what calls them; cancellation while a worker
thread runs; signals in the middle of closing; and the plain sequential rules (state,
configuration, splitting) whose cases are too many to test one by one.

How the parts meet. A command (CLI, client or MCP tool) resolves a configuration, opens a
provider and runs its frame (`CommandRun`). The frame takes the lock (`LeaseLock`, promised
to it by `MigrationLock`), derives the state (`SchemaHistory`), and runs scripts, whose
transactions are the provider's (`ProviderSession`) and whose rows go to the history table
(`HistoryStore`). Events go from the journal through the client (`ClientCalls`) to the
emitter (`EventBus`).

## 2. Models and code

Each module models a component by itself: the others appear as what they promise, or as a
nondeterministic outcome. `MigrateRun` uses the variables of `MigrationLock`, which
`LeaseLock` is proved to implement, and is proved to implement `AtomicMigrations`.

**LeaseLock.** One action per branch of `LeaseLock.acquire`, of the heartbeat and of
`release`, over the row statements of `SqlLeaseStore`. Time is counted in polls; clocks are
ages that saturate. A process in `Unreliable` may be paused for any time; the others act in
time (`Timely`). On SQLite (`StoreLocks`) an open migration transaction locks the lock table.

**CosmosLock.** Both phases of the acquisition as in `locking_manager.py`; the conditional delete
is modelled from how the code uses it (external service). The document has no owner in the code;
the model keeps one to state the property. A request of either phase may fail or its answer be
lost: a failed delete of the first phase is slept on, any other failure there starts the second
phase, and there every failure ends the round, which the next one begins with a create. A run whose
last request failed may therefore be turned away beside a document that expired long ago, and
`RefusalIsJustified` speaks of those whose last look succeeded. A migration longer than the five
minutes of the document, or a second waiter in the phase without the condition, loses the lock:
`HolderKeepsLock` is stated for shorter migrations and one such waiter.

**MigrateRun.** Processes run commands over `MigrationLock`; statements, transactions, kills,
failures of statements, of recording and of committing. `AtomicMigrations` is the promise for
transactional scripts. An autocommit script that is killed before its row is run again from
its start; `RowsMeanRuns` says what a row then still means.

**CommandRun.** One command after another on one executor: every call that can raise may
raise, and a signal may come at any point; one step of the model is one call with every
handler its exception passes. The journal is its entries, by script and by run, not the text
of its summary. Undo may fire `afterUndoError` twice. `CommandEnds` says that a command ends and
that a command that is over, or that a signal ended, holds no lock (`LockGivenBack`).

**SchemaHistory.** Every command is one step over the rows and the files; between commands the user
edits, removes and restores files. The history is a set of rows with a rank each, as in the table;
a plan is any sequence that the code's sort may yield. `inPlace` (versions whose script ran last)
and `accepted` (contents that ran or were repaired in) are the truth that the derivations are
compared with. Scripts may be plain, tagged as a group, or parts of a generated set with one undo
script or one each; the parts of a set carry the group's tag all or none, because the tag is part
of what identifies a set (undo_plan.py:109-130). An undo that meets a part takes the set whole only
while a file of the set is left. Rows whose success is NULL, renamed scripts, tag filters and B
scripts are left out. `InfoIsTrue` claims only one direction for out-of-order marks, because an old
mark stays on a version that was undone and applied again.

**CleanSchema.** The dialects are records: the order of kinds, which catalogs may be
unreadable, what a DROP does to dependents, and for the provider's own `clean_schema`, which
queries it passes over, whether it lists before it drops, and what ends it. Any query, the
statements that switch the foreign key checks, a drop, the commit and Snowflake's look for
survivors may fail. What the server does with a DROP is external. `SuccessMeansEmpty` and
`PreviewMirrorsClean` are claimed but for kinds that SQL Server and Cosmos DB pass over without a
warning, `OrderSuffices` not for two dependencies on Oracle, `PreviewMirrorsClean` not on
PostgreSQL; `FailuresAreIsolated` not for an open transaction without savepoints (Redshift, and
`clean_schema` of PostgreSQL), `ChecksRestored` not after a failed query of MySQL's
`clean_schema` or a failed switch (section 5). PostgreSQL's refusal after failed types, and a
failed commit inside MySQL's `clean_schema`, are left out.

**HistoryStore.** The dialects are records: what a lost race looks like, where ranks come
from, which document a write replaces. import-flyway and clean are not in it. What follows a
failed read on Cosmos DB is exempt (`Blind`): the code logs it and goes on with an empty
history.

**ProviderSession.** Units of work (migrations in SQL and Python, transactional and
autocommit, callbacks, history writes, marks, cleans, the caller's own writes) over one
connection, dblift's or a caller's: `callers` is chosen at the start, and `OwnKinds` and
`CallerKinds` are the units that may run on each. `noted` and `handle` stand for the
transaction's identity. SQLAlchemy's autobegin and its refusal after a failed statement are
external. The instance lists neither Python callbacks nor autocommit migrations among
`CallerKinds`: the writes of a Python callback are never noted, and an autocommit migration's
`_end_open_transaction` rolls noted work back, so both lose work that CHANGELOG.md:116 and
CHANGELOG.md:131 promise. `UnitsStandAlone` holds with them all the same, `ReportedStays` does
not. The commit of a caller's transaction may fail when the next migration settles it
(`SettlingFails`): the note is cleared by then, the failure is a warning and the migration goes
on, so that reported work is lost with it. `ReportedStays` names this, and the caller's own
rollback, as the two ways to lose reported work. Savepoints of reads, autocommit SQL callbacks,
rollback on a failed read (DuckDB, Redshift) and SQLite's native provider are left out.

**DelimiterScript.** The MySQL splitter token by token. A script is a sequence of letters
(words, marks, line ends), all scripts up to a length after a chosen head. The reference is
the mysql client in its skip-comments mode as docs/sql-parsing/mysql.md describes it; USE,
STATUS and SOURCE followed by a terminator are the client's own, as in its section 6. A script
with a USE that has no name is exempt (`NamelessUse`), and a word after `.` is a name also when
the end of a comment stands between them: both are gaps that the page lists. The
length limit of a delimiter, refusals of carriage returns and of NO_BACKSLASH_ESCAPES,
double-quoted strings and dash comments (which behave as the quotes and comments modelled)
are left out.

**LexicalScript.** The engine that PostgreSQL, Redshift, Snowflake and SQLite share, token by
token: one reader (`_next_sql_token`, `_next_sqlite_token`, COPY data) and the parser that cuts
(`_cut`), with the facts of each dialect's `lexical_spec.py`. The reference, `Client`, reads
letter by letter as docs/sql-parsing describes psql, the sqlite3 shell and the two servers, and
decides completeness from the words of the statement, where the code counts. Exempt (`mixed`),
because the code does otherwise (section 5): psql commands in the middle of a statement, a second
one on a line, and a backslash in the header of a COPY. `odd` are the forms the code refuses
because nobody qualified them: text or a comment of several lines after a COPY's semicolon, a
COPY joined by `\;`, a tagged dollar quote in Snowflake. Blanks, placeholders, numbers,
byte-order marks, NUL, `\:` and the analysis texts of joined statements are left out.

**ScriptCatalog.** The search of the directories one by one, in any order a listing may come
in; references, the paths they lead to, encodings, and the final sort, which is
`VersionOrder`'s for versioned scripts. Files may vanish between search and reading. Exempt,
because the code does otherwise: a relative additional directory of the client whose path also
leads below the main one (`Ambiguous`: the references of the two cannot be told apart, and one
script replaces the other or the load fails); one directory listed twice with different
recursive flags (`TwoFlags`: the last one counts); files below a subdirectory that cannot be
read, which the walk of the tree passes over; UTF-16 without a mark (big endian is never
detected, little endian only where encodings are detected). Undo scripts keep the order of the
search. A directory that is missing, a directory that cannot be put in relation to the working
directory (the `ValueError` at migration_script_manager.py:425-429 and 671-673, both skipped),
symbolic links to files, tags, the case of descriptions and placeholders are left out.

**ConfigResolution.** Three entries (command line, `from_config_file`, the same with
`relative_to_config`) resolve one set of sources in turn, 23 to 31 steps each. A database is
found by its `url`, its `path` or its `database` (a file of SQLite and DuckDB); of the variables
DBLIFT_DB_TYPE, _URL, _DATABASE and _SCHEMA count, and DBLIFT_DB_PATH does not. Precedence is of
each key: `PrecedenceHolds` says that the strongest source decides every key, that a URL goes
before a path and a path before a `database`, so the `path` of a weaker source wins over the
`database` of a stronger one. Exempt, because the code does otherwise: with a type inferred only
from the root's URL, an empty URL of the active environment falls back to the root's; an empty
value of one key does not keep the root's value of another key from deciding; a relative
`database` of the file starts at the working directory when the file does not give its type; the
entries differ for a URL on the command line whose type is inferred, for offline runs, for broken
files (the API warns and goes on) and for the default directory. Hosts, credentials, log
directories, the keywords `database_type` and `database` of the API and the filler of validate-sql
are left out.

**ClientCalls.** Threads, reentrant calls from listeners, several clients. Two threads whose
listeners call each other's client wait for each other for ever (`Entangled`): the code's locks
have no timeout. `CallsReturn` says that every call returns unless threads wait in such a circle.
validate announces
a failed verdict as completed; callbacks of a nested validate are not modelled.

**AsyncClient.** asyncio.Lock (first come, first served) and the worker thread are external.

**EventBus.** Lists are Python objects with an identity, because some methods change them in
place and others replace them. Payloads are opaque.

**CommandLine.** One invocation with a chain of commands and its log files. What a handler
does is an outcome: done, failed, nothing to do, raised, refused target, no licence. SIGTERM
and Ctrl-C may strike at any point, also while the client is closed. A report is told to be
a success when every recorded result is one. A command that raises records no result, so that
its JSON report says SUCCESS beside exit code 1, which CHANGELOG.md:1788 ("reflect the actual
result") denies; the model keeps the code's behaviour and the property is stated of the
commands that return. A log file that cannot be written leaves the ones after it unwritten.

**McpServer.** Tool calls in worker threads: the call lock, the redirected stdout that is
saved and restored, the pinned log file, the four kinds of refusals. A log file is named by the
second (text), with a random part (HTML, JSON), or by a `--log-file` pattern, stamped or fixed, so
that calls may share one (`Names`); a document replaces what is in its file (`Replaces`).
`SessionLog` says that text stays where a call wrote it, but for a document that a pattern gives
the same name. A text file with a second format counts as one file when a pattern names both. The
`<format>` placeholder, rotation, cancelled requests and the bootstrap logger are left out.

## 3. Runs

| Run | Question | Instance |
|---|---|---|
| `lease_sqlite` | does the holder own the row, and is no row left behind, where a migration locks the store | 2 processes, 3 tokens |
| `lease_stalls` | with pauses of any length: is a loss real, never a theft, and does the loser learn; does the lease implement `MigrationLock` | 2 processes, one unreliable, one lease without heartbeat |
| `migrate_reliable` | is migrate the atomic promise, and does one process write at a time | 2 processes, 2 scripts, all transactional |
| `migrate_stale` | with holders that outlive their lease: are scripts whole, rows in order, applied work kept | 2 unreliable processes, with import-flyway |
| `migrate_autocommit` | what a row means on an engine without transactional DDL | 2 processes, one autocommit script |
| `command` | the frame of all commands, and that each ends without the lock | 2 commands, 2 scripts, 2 statements, interrupts |
| `history` | the derived state, undo, repair and validation | 7 scripts of 3 versions, 6 groupings (plain, tagged, a generated set with one undo script, with one each, and a tagged set), 4 rows, 2 edits (80305 states) |
| `history_prefix` | expects a violation: see the finding | as above |
| `clean` | clean, preview and `clean_schema` of every dialect | 11 dialects, 2 dependencies, 1 fault (a query, a switch, a drop or the commit; a look for survivors may always fail), 2 calls |
| `stores` | the history table of every dialect and the Cosmos DB lock | see below |
| `scripts` | configuration, finding and splitting scripts, their transactions | see below |
| `api` | clients, events, command line, MCP server | see below |

`Stores`, `Api` and `ScriptRun` each hold several modules: the variable `part` names the one a
behaviour is about, and the variables of the others are parked. `Stores` extends `HistoryStore` and
`ScriptRun` extends `ProviderSession`, which are parked in an initial state; the other modules are
instances, in `Stores` and `Api` with the setup as their parameter (`Cosmos(s)`, `Client(s)`,
`Bus(s)`...), where the setup is a record of constants chosen at the start and kept in the variable
`setup`, and a property conjoins what the modules state for their parts. One run then answers one
question about a layer of the system, and a theorem about `Stores` or `Api` is about every set of
setups, one about `ScriptRun` about every set of sources, scripts and files. In `MCStores` the
Cosmos DB lock has three setups: three processes of which one may be killed and nobody waits for
the second phase, two that reach both phases, and two with migrations that outlast the expiry and a
request of either phase that fails. In `MCScriptRun` the MySQL splitter has four families of
scripts (strings and delimiters; comments and hints; commands of the client; stored programs of
blocks up to two deep), the shared splitter eleven (for each dialect its strings, comments, bodies,
COPY, shell lines or triggers, four or five letters after heads that bring the state about), the
session both kinds of connection, the configuration five families of sources (servers and files;
the three keys of a file in several sources; references; scripts; environments), and the catalog
three of searches (places: directories that overlap, are spelled twice, are linked, locked or lose
a file; names: every lead, version, separator and extension; encodings: every encoding read with
every setting). In `MCApi` the client has four setups (two threads on one client; one thread whose
listeners call two clients; two threads and two clients, whose listeners may call each other's;
every operation), the emitter two, the MCP server two (two threads and text logs; one thread, three
calls, all formats, all ways to name a log file and a deleted one).

Runs whose expectation is `violation` show a disagreement between the code and a line of its
documentation, comments or tests; the finding quotes the line.

Bounds. Two or three processes, threads or tasks; one or two scripts of one or two
statements; one failure and one kill per behaviour unless the cfg says otherwise. Each is
large enough for the case it is about: two processes for a race, a third token for a waiter
that overtakes; four rows for apply, undo, apply again and one more; one fault because a
second one mostly ends what the first left; chains of two commands because a third adds no
new neighbour.

Fairness. `LeaseLock.FairSpec`: time passes, threads are scheduled, transactions end.
`CosmosLock`: the same for its polls. `HistoryStore`: strong fairness of each process's step,
because a waiting process polls a lock that is freed again and again. `AsyncClient`: the
event loop runs ready tasks and the worker finishes. `CommandRun`, `ClientCalls`, `McpServer`:
each step of the running command or call is taken. `CommandLine` states no liveness: an
invocation ends with its last step.

## 4. Proved

TLC checks the instances of section 3; TLAPS proves the theorems below for every value of the
constants that satisfies the module's assumption. A theorem that needs more says so after
`ASSUME`, and the table says why. Where a run checks the property, the theorem states that very
definition.

| Theorem | Property | Beyond the module's assumption |
|---|---|---|
| `LeaseLockProofs`: `Typing`, `LossIsAlwaysReal`, `NoTheftEver`, `RefusalsAreJustified` | `TypeOK`, `LossIsReal`, `NoTheft`, `RefusalIsJustified` | none |
| `LeaseImplementsLock` | `LockSpec` (of `MigrationLock`) | none |
| `HolderKeepsLease` | `HolderOwnsLease` | a store that a migration does not lock |
| `TimelyHolderKeepsLease` | `HolderOwnsLease` | nobody is suspended, on any store |
| `NoRowEverLeft` | `NoRowLeftBehind` | row locks; or nobody suspended and every lease refreshed |
| `MigrateRunProofs`: `RunTyping`, `RowsStay`, `ScriptsAreAtomic` | `TypeOK`, `AppliedStays`, `AtomicScripts` | none: any crash, any lost lock |
| `HistoryInOrder` | `HistoryIsInOrder` | import-flyway not run, or with at most version 1 to import |
| `RowsAlwaysMeanRuns` | `RowsMeanRuns` | no suspended holder, no mark-as-executed, no import-flyway |
| `WritersAreAlone` | `SoleHistoryWriter` | no suspended holder, no import-flyway |
| `RunsKeepPromise` | `PromiseSpec` (of `AtomicMigrations`) | no suspended holder, no import-flyway, no autocommit script |
| `CommandRunProofs`: `EventsAreTrue`, `CallbacksKeepTheirPlace`, `JournalIsTrue`, `LockIsGivenBack` | `EventsTellTheTruth`, `CallbacksInPlace`, `JournalTellsTheTruth`, `LockGivenBack` (the safety part of `CommandEnds`) | none |
| `ProviderSessionProofs`: `SessionIsSound`, `UnitsAlwaysStandAlone` | (the invariant), `UnitsStandAlone` | none |
| `ReportedAlwaysStays` | `ReportedStays` | no Python callback and no autocommit migration on a caller's connection; work goes with the caller's rollback and with a caller's transaction that cannot be committed |
| `PrecedenceIsKept`, `PathsAndReferencesAreSound` (of `ConfigResolution`, in the same module) | `PrecedenceKept`, `PathsAndReferences` | none: any sources of the kinds the module lists |
| `StoresProofs`: `FirstRunsAgree`, `RowsComeOnce` | `HistoryAgrees`, `RowsOnce` | none |
| `NobodyIsLockedOut` | `RefusalIsJustified` | none |
| `DocumentIsHeld` | `DocumentIsTheHolders` | none; its last conjunct is about setups that are `Careful`: no failed request, migrations no longer than the expiry, and `OneFallback` (two processes, or nobody killed, or nobody waits for the second phase) |
| `ApiProofs`: `CancelledTasksAreTold`, `ListenersAreServed`, `OneUserAtATime`, `WaysInTellTheTruth` | `TasksAreTold`, `EmitterHolds`, `OneUser`, `EventsAgree` | none |
| `SchemaHistoryProofs`: `HistoryIsSound`, `HistoryAlwaysTells`, `RepairAlwaysUnblocks`, `ValidationAlwaysForesees` | (the invariant), `HistoryTellsTheSchema`, `RepairUnblocks`, `ValidationForesees` | none |
| `UndoAlwaysExact` | `UndoIsExact` | none |
| `CleanSchemaProofs`: `CleanNeverLies`, `FailuresStayContained`, `SystemsAreUntouchable` | `CleanTellsTheTruth`, `FailuresAreContained`, `Untouchable` | none: any number of dependencies, failures and calls |
| `SchemaHistoryProofs`, of `VersionOrder`: `OlderIsIrreflexive`, `OlderIsTransitive`, `OlderIsTotal`, `SameVersionsAreNotOrdered` | (an order) | none |

The hypotheses are needed; without them TLC finds the counterexample:

- `HistoryIsInOrder`, with import-flyway and versions 1 and 2 to import (9 states): version 1
  has failed, import-flyway skips it because any row of a version counts, and imports 2.
- `HolderOwnsLease`, on SQLite with a process that may be suspended (17 states): a waiter that
  is paused after it looked at the quiet window reclaims a row that has been refreshed since.
- `DocumentIsTheHolders`, with three processes and one death: two waiters in the second phase,
  which deletes without a condition, and the later one deletes the document of the earlier.
- `ReportedStays`, with the two kinds of section 2.
- `RowsMeanRuns`: mark-as-executed and import-flyway write rows for scripts that did not run;
  that is what they are for.

The arguments.

*Lease.* The property alone is not inductive. `FreshInv` says that a holder's token was granted
once and that a timely holder's row is no older than the time since its last beat; a reclaimer
then cannot find the row expired. On SQLite a migration's transaction keeps the beat from the
row, and the row's age alone protects nobody: `LockedInv` says that every waiter is then
`Warned`, turned away by the same transaction within its quiet window. `NoRowLeftBehind` follows
from `ThroughInv`: who waits or is through does not own the row. The refinement to
`MigrationLock` is shown action by action.

*Runs.* `RunTyping` carries what each point of a run knows (which script, how many statements, what
the plan holds); `AtomicInv`, `OrderInv` and `MeaningInv` add what is uncommitted, which versions a
plan may name, and that what a plan holds has not run. `PromiseInv` says that the plan of the one
who holds the lock is what there is to do, and the commit of a script with its row maps to one step
of `AtomicMigrations`; every other step is a stutter.

*Commands.* `Locking` says in which phases of which command the lock is held and in which it is
not; `LockGivenBack` is its case of a command that is over. An exception passes several handlers
within one step, so that the invariant (`Steady`) is stated of a record and every operation is a
lemma about records: `Flight`, `Running` and `Throwable` are the states in which an exception may
leave each of the three nested frames. It orders the marks of the trace pairwise (`MayFollow`),
relates each mark to the journal entry of its run, and says which marks are behind the command at
each phase.

*Session.* `SessionInv` ties the handle and the note to the transaction that is open
(`Connection`), says where each kind of unit has one (`Point`), and that what a unit has written
is exactly its statements so far, pending or durable (`Progress`). `KeptInv` adds that reported
work is durable or pending, and on a caller's connection noted; a commit that fails takes what
was pending out of what counts as reported, and nothing that is durable.

*Configuration.* An entry reads its sources in ten stages, each on what the last one left.
`AnswersAreMade` says of every stage what it has made of the sources, as an operator of the
sources and the entry alone (`MergedIn`, `ReadIn`, `BuiltIn`, `DirectoriesIn`), and which
refusals are behind it; an entry that is through has its `Answer`. The properties are then about
operators, not about runs: a merged value is the strongest one given (`GiverIs`), carries the
base of its source through merging and the resolving of secrets (`PathsOfOne`), and two entries
make the same of the same sources (`SameRefusal`, `SameAnswer`). The assumption lists the kinds
of values each key can have (`Sources`); names of environments are any strings.

*History.* `LockInv`: who works on the history holds the migration lock. `RankInv`: a rank that
was read is still above every row when it is written, and a counter of the database is not behind
them. `KnowsInv`: what a process is about to run or record has no row. `RaceInv`: which step may
have lost a race for the schema or the table, and that losing it fails nobody.

*Derived state.* `HInv` has three parts. `TypeInv` with `HistoryOk`: no two rows have one rank,
ranks are bounded, a row's kind and version are its script's. `PlacesInv`: a version is in place
exactly when the rank of its latest success is above that of its latest undo, which is what the
code's three ways of asking (executed, undone, candidate) come down to (`UndoneIs`, `ExecutedIs`,
`CandidateIs`). `AcceptedInv`: a repeatable script was accepted with the checksum of its latest
success. None of the properties is inductive without it, because the properties speak of the
current version or of what is pending and a step adds rows. New rows come after all others
(`Grows`, for a run and an undo), so that a step's effect on a version follows from the kind of its
newest row; a repair maps rows to rows (`Mends`), so that `RepairUnblocks` is about its second
application (`MendAligns`: what was realigned no longer drifts). `UndoAlwaysExact` counts the
versions of a plan by its injectivity, uses that a set is tagged whole or not at all, so that a
group brings no part without its set (`SchemaHistoryAssumption`), and takes its parts (target,
newest, group, set, order) from what was selected (`SeedsAre`, `GroupIsWhole`, `SetIsWhole`,
`NewestFirst`).

*Cosmos DB.* `HolderInv` says that a holder's document is its own and still young, that a
document about to be deleted has expired, and that the second phase, which does not look again,
follows a death. `RefusalInv`, for any failures: a process that sleeps in the second phase saw a
document that had not expired, or its request failed.

*Clean.* `IInv` says what is still to be done. What clean would drop is on the list, unless a
failure or a warning tells; what the preview names is on the list or of a kind still to be listed;
the set Snowflake waits for is the list; the foreign key checks are off only while the statement
that turns them on is to come or has failed (`Checking`), or after a failed query of MySQL's
`clean_schema`; what could not be listed is told of, where the code tells it (`Telling`); and a
transaction that cannot commit has dropped nothing or has failed, so that the end of a call that
reports success brings nothing back. Of the dialects the proofs use a few facts (`PluginFacts`),
proved of each record.

*Ways in.* A behaviour of `Api` is one of five systems; each has an invariant of its own, which
holds while that part runs, and a step of another part leaves it alone; `OneUserAtATime` and
`WaysInTellTheTruth` need all five (`AllHold`). For threads that share clients (`CallInv`) the
calls of a thread are a stack: only its last call is outside a listener, an overridden operation
has its override around it, each call past the lock remembers the emitter that was bound when it
entered, and no mutating call is underneath another one of its client (`StackFits`,
`NothingUnder`). The reentrant lock of a client counts its owner's calls that are past it, and no
other thread has one (`LockFits`); so nobody can close a connection that another call uses. The
numbers of calls are used once (`IdsFit`), so that the events of a call are those of one call:
none, begun and not ended, or ended with what it is going to return (`EventsFit`). For the command
line, no command follows one that failed, and reports are written from the final records
(`LineInv`). For the MCP server, the process prints into the buffer of the call that has the lock
(`ServerInv`). For the asynchronous client it says where a task is when it holds the lock or was
cancelled. For the emitter (`BusInv`) the frames of the stack are read as the dispatches and
flushes under way. `BusRegistry`: a registration is in one list once, and not both an exact and a
wildcard one. `BusWalks`: what a dispatch still has to call has not heard of its event; as long as
it calls the exact listeners no wildcard listener has; after that the wildcard listeners in place
have heard or are still to come, also when the list it walks is not the wildcard list any more.
`BusWaiting`: an event that waits waits once, in the batch or in one flush. `BusIntent`: batch mode
is what was last asked for, or will be when the flush is over. All changes of the registry are
shown to be of one kind (`BusChange`), which keeps the invariant (`BusChanges`).

*Versions.* Comparing two versions looks for the least segment, and in it the least run, at which
they differ. A segment that runs out compares as 0. `SchemaHistory` numbers versions by naturals and
uses only that they are strictly and totally ordered, which these theorems say of versions.

Only model-checked, and why: all liveness (`EveryoneEnds`, `CallsEnd`, that each command ends
(`CommandEnds`), the fairness of `LeaseLock` and of the API), which needs ENABLED. `OrderSuffices`
of `CleanSchema`: that Kahn's algorithm emits every table is an induction over its passes.
`CutAsTheClient` and `ScriptsAreFound` (`DelimiterScript`, `LexicalScript`, `ScriptCatalog`): they
compare an algorithm with a reference over texts and listings of any length, which are inductions
over data.

## 5. Disagreements met

The finding of `history_prefix` is checked. The others were met while modelling, most by runs of
the same modules whose property was the quoted line without its exemption; the models keep what
the code does and state the property for the rest.

| What the code does | What says otherwise |
|---|---|
| A Cosmos DB lock document expires after five minutes, whether its holder runs or not; the fallback deletes whatever document has the lock's id | the lock's purpose |
| import-flyway records rows without the migration lock | CHANGELOG.md:624 |
| A dry run of clean or undo that fails fires the error callbacks | clean_command.py:145, undo_command.py:254 |
| An acquisition that raises fires `afterMigrateError` without the lock | undo_command.py:92 |
| The journal's summary of a script run again lists the failure of the earlier run | docs/user-guide/troubleshooting.md:127 |
| undo returns the failed result of an unreachable history with no event | CHANGELOG.md:1928 |
| A preview of clean on PostgreSQL lists what `clean_schema` does not drop | postgresql/schema_operations.py:367 |
| Reference-partitioned tables of Oracle are ordered by name among themselves | CHANGELOG.md:2217 |
| `off` during a dispatch makes the next listener miss the event | api/events.py:399 |
| A second `start_batch` clears what the first collected | api/events.py:469 |
| `get_history` is in emit order, not in dispatch order | api/events.py:457 |
| A failed read of the Cosmos DB history counts as an empty one | CHANGELOG.md:2221 |
| A Python callback's writes on a caller's connection are not committed at the boundary | CHANGELOG.md:116, CHANGELOG.md:131 |
| A script in an additional directory of the client can replace the main directory's of the same relative path | the checks on duplicate versions, which never see both |
| `\restrict` in the middle of a statement cuts it in two | docs/sql-parsing/postgresql.md:87 |
| A second backslash command after `\restrict` on its line is dropped with it, not refused | docs/sql-parsing/postgresql.md:74 |
| A backslash in the header of a COPY is sent to the server | docs/sql-parsing/postgresql.md:84 |
| COPY FROM STDIN inside a BEGIN ATOMIC body is read with its data | docs/sql-parsing/postgresql.md:96 |
| The commit of noted work in a caller's transaction may fail after the note was cleared; the next migration warns and goes on, and reported work is lost (sqlalchemy_provider.py:407-413, execution_engine.py:552-554) | CHANGELOG.md:116 |
| SQL Server's `clean_schema` logs a failed query for sequences, types or synonyms for debugging only, and leaves them (sqlserver/provider.py:591, 613, 635) | its preview, which names them |
| Cosmos DB's `clean_schema` takes a list of containers that it cannot get for an empty one (cosmosdb/provider.py:227-233) | the name of the operation |
| Snowflake's look for survivors may itself fail, which only the debug log tells (snowflake/provider.py:506-510) | "Say so when objects remain after clean" (snowflake/provider.py:504) |
| MySQL's `clean_schema` leaves FOREIGN_KEY_CHECKS off when a catalog query fails (mysql/schema_operations.py:159-230) | SQLite's turns them on "even on error" |
| `clean_schema` of PostgreSQL drops without savepoints: in one transaction a failure undoes the drops before it | `drop_object`, which sets one (postgresql/provider.py:134-146) |
| DBLIFT_DB_PATH is ignored (dblift_config.py:1136-1156) | docs/user-guide/configuration.md:199-202 |
| A `path` of a weaker source goes before a `database`, or DBLIFT_DB_DATABASE, of a stronger one (sqlite/config.py:56-68) | the order of sources in docs/user-guide/configuration.md |
| A relative `database` of the file starts at the working directory when the type comes from a variable (file_path_anchoring.py:130-135) | docs/user-guide/configuration.md, on relative file paths |
| `directories: ""` of the active environment, an unset ${VAR}, leaves the root's list in place (dblift_config.py:362-368, 490) | the refusal of empty paths beside it |
| HTML and JSON logs of one second get names of their own by default (a random part, log.py:543-544); only calls with a `--log-file` share one, where a document replaces another call's text | docs/user-guide/mcp.md:42-43 |
| Two threads whose listeners call each other's client deadlock (client.py:147) | "so a listener may nest a read-only call" (api/client.py:116-117) |
| A command that raises leaves a report that says SUCCESS | CHANGELOG.md:1788 |

## 6. Not modelled

The drivers and servers themselves. sqlglot and the facts read from its trees
(`sqlglot_statement_facts.py`, `statement_facts.py`, `dml_analysis.py`): case analyses over a
foreign syntax tree, without state. The SQL model's data classes, the wording of logs, reports
and HTML, argument parsing: data without behaviour over time. The Django, Flask and
OpenTelemetry glue, which only calls the client or reads its events. Advisory locks of
PostgreSQL, MySQL and SQL Server: one call each way, the server keeps the state.
