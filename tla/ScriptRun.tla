------------------------------ MODULE ScriptRun ------------------------------
(***************************************************************************)
(* What a run of scripts is made of: the configuration that finds database *)
(* and scripts, the search for scripts, the MySQL splitter and the one of  *)
(* PostgreSQL, Redshift, Snowflake and SQLite, and units of work on        *)
(* dblift's own and on a caller's connection.  A behaviour is one of them, *)
(* named by part; the variables of the others are parked.                  *)
(***************************************************************************)
EXTENDS ProviderSession, Sequences

CONSTANTS
  MySqlFamilies,    \* of MySQL scripts, see DelimiterScript
  Families,         \* of the other scripts, see LexicalScript
  Inputs, Entries,  \* see ConfigResolution
  Searches          \* see ScriptCatalog

VARIABLES
  part,
  script, phase, pos, head, delimiter, code, spans, fragments, client, program, records,
  dialect, parens, statement, copy, shell,
  given, entry, stage, env, data, config, outcome,
  setting, disk, lost, step, places, listing, read, reported

bothVars == <<script, phase, pos, spans, records>>
textVars == <<bothVars, head, delimiter, code, fragments, client, program>>
lexicalVars == <<bothVars, dialect, parens, statement, copy, shell>>
configVars == <<given, entry, stage, env, data, config, outcome>>
catalogVars == <<setting, disk, lost, step, places, listing, read, reported>>
scriptsVars == <<part, textVars, lexicalVars, vars, configVars, catalogVars>>

MySql == INSTANCE DelimiterScript WITH Families <- MySqlFamilies
Lexical == INSTANCE LexicalScript
Configuration == INSTANCE ConfigResolution
Catalog == INSTANCE ScriptCatalog

ScriptRunAssumption ==
  /\ MySql!DelimiterScriptAssumption /\ Lexical!LexicalScriptAssumption /\ SessionAssumption
  /\ Configuration!ConfigResolutionAssumption /\ Catalog!ScriptCatalogAssumption

ASSUME ScriptRunAssumption

Parked == "parked"
NoMySql ==
  /\ head = Parked /\ delimiter = Parked /\ code = Parked /\ fragments = Parked /\ client = Parked
  /\ program = Parked
NoLexical == dialect = Parked /\ parens = Parked /\ statement = Parked /\ copy = Parked /\ shell = Parked
NoText ==
  /\ script = Parked /\ phase = Parked /\ pos = Parked /\ spans = Parked /\ records = Parked
  /\ NoMySql /\ NoLexical
NoSession == Init /\ ~s.callers
NoConfig ==
  /\ given = Parked /\ entry = Parked /\ stage = Parked /\ env = Parked /\ data = Parked
  /\ config = Parked /\ outcome = Parked
NoCatalog ==
  /\ setting = Parked /\ disk = Parked /\ lost = Parked /\ step = Parked /\ places = Parked
  /\ listing = Parked /\ read = Parked /\ reported = Parked

ScriptsInit ==
  \/ part = "mysql" /\ MySql!Init /\ NoLexical /\ NoSession /\ NoConfig /\ NoCatalog
  \/ part = "lexical" /\ Lexical!Init /\ NoMySql /\ NoSession /\ NoConfig /\ NoCatalog
  \/ part = "session" /\ Init /\ NoText /\ NoConfig /\ NoCatalog
  \/ part = "configuration" /\ Configuration!Init /\ NoText /\ NoSession /\ NoCatalog
  \/ part = "catalog" /\ Catalog!Init /\ NoText /\ NoSession /\ NoConfig

\* What the others keep.
MySqlOnly == UNCHANGED <<part, dialect, parens, statement, copy, shell, vars, configVars, catalogVars>>
LexicalOnly ==
  UNCHANGED <<part, head, delimiter, code, fragments, client, program, vars, configVars, catalogVars>>
SessionOnly == UNCHANGED <<part, textVars, lexicalVars, configVars, catalogVars>>
CatalogOnly == UNCHANGED <<part, textVars, lexicalVars, vars, configVars>>

ScriptsNext ==
  \/ part = "mysql" /\ MySql!Next /\ MySqlOnly
  \/ part = "lexical" /\ Lexical!Next /\ LexicalOnly
  \/ part = "session" /\ Next /\ SessionOnly
  \/ part = "configuration" /\ Configuration!Next
       /\ UNCHANGED <<part, textVars, lexicalVars, vars, catalogVars>>
  \/ part = "catalog" /\ Catalog!Next /\ CatalogOnly

ScriptsSpec == ScriptsInit /\ [][ScriptsNext]_scriptsVars

-----------------------------------------------------------------------------
(* Properties: those of the modules, for the parts they are about.         *)

\* The variables of the part that runs have their types.
PartTypeOK ==
  /\ part = "mysql" => MySql!TypeOK
  /\ part = "lexical" => Lexical!TypeOK
  /\ part = "configuration" => Configuration!TypeOK

\* A script that is not refused is cut where the dialect's client cuts it, and one in which
\* the client would run a command of its own is refused.  A stored program written without
\* DELIMITER stays one statement, and the pieces of a unit that are analysed lose no code
\* and are cut outside strings and comments.
CutAsTheClient ==
  /\ PartTypeOK
  /\ part = "mysql" => /\ MySql!CutsAsTheClient /\ MySql!ClientCommandsRefused
                       /\ MySql!FragmentsAreLive /\ MySql!WholePrograms
  /\ part = "lexical" => Lexical!CutsAsTheClient /\ Lexical!RefusedForAReason

\* Scripts run in the order of their versions and names, callbacks at their own event,
\* whatever order the directories were listed in; every script below the directories is read
\* once and as it was written, or the load fails, and misnamed ones are reported.
ScriptsAreFound ==
  part = "catalog" => /\ Catalog!CatalogInOrder /\ Catalog!CallbacksRunAtTheirEvent
                      /\ Catalog!CatalogIsComplete /\ Catalog!MisnamedAreReported
                      /\ Catalog!FailuresHaveReasons /\ Catalog!TextsAreAsWritten

\* Of several sources for a setting the strongest that gives one decides, on the command
\* line as in the API, so that both find the same database and the same scripts.
PrecedenceKept == part = "configuration" => Configuration!PrecedenceHolds /\ Configuration!EntriesAgree

\* Relative paths start where their source says, and what is empty or a reference nobody
\* resolves is refused, never replaced by another section's or opened as a path.
PathsAndReferences ==
  part = "configuration" =>
    /\ Configuration!PathsFollowTheirSource /\ Configuration!EmptyNeverFallsBack
    /\ Configuration!NothingUnresolved
=============================================================================
