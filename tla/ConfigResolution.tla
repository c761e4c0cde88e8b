--------------------------- MODULE ConfigResolution ---------------------------
(***************************************************************************)
(* How dblift finds its database and its scripts: the configuration file   *)
(* with its environments, environment variables, command-line options or   *)
(* keyword arguments, secrets and the folder relative paths start from.    *)
(* The same sources are read by the command line, by                       *)
(* DBLiftClient.from_config_file and by it with relative_to_config.        *)
(*                                                                         *)
(* A source gives each key a kind of value: "none" when the key is absent, *)
(* "" when it is empty, as a ${VAR} that is unset leaves it.  A URL is of a *)
(* server, of a relative file, of a file without a name, a secret or of a  *)
(* scheme nobody knows ("strange").  Values that two sources give are      *)
(* different ones.  "database" is the key of that name: a file for SQLite  *)
(* and DuckDB; a server has a URL.  Hosts, credentials, log directories,   *)
(* validate-sql's filler, a folder with "?" in its name and the keywords   *)
(* database_type and database, which only the API has, are left out.       *)
(***************************************************************************)
EXTENDS Naturals, Sequences

CONSTANTS
  Inputs,    \* what the sources say
  Entries    \* "cli", "api", "anchored"

VARIABLES
  given,    \* the sources
  entry,    \* who resolves them now
  stage,    \* what it does next
  env,      \* the active environment, "" for none
  data,     \* what was merged so far
  config,   \* the configuration made of it
  outcome   \* of each entry

vars == <<given, entry, stage, env, data, config, outcome>>

Keys == {"type", "url", "path", "database", "schema", "dir", "dirs"}
Locators == {"url", "path", "database"}
Empty == {"none", ""}
Relative == {"rel", "fileUrl", "default"}
\* Paths that may not be used: an empty one, a reference nobody resolves, a list with such.
Unusable == {"", "strange"}
UnusableLists == {"[empty]", "strange"}
Unlisted == {"none", "", "[]"}

\* What the sources can say: kinds of URLs and paths, and the sections of the file.
Urls == {"none", "", "serverUrl", "fileUrl", "fileUrlEmpty", "secretUrl", "strangeUrl"}
Paths == {"none", "", "rel", "abs", "secret", "strange"}
Types == {"none", "", "file", "server"}
Schemas == {"none", "", "name"}
Sections ==
  [type: Types, url: Urls, path: Paths, database: Paths, schema: Schemas, dir: Paths,
   dirs: Paths \cup {"[]", "[empty]"}]
Sources ==
  [file: {"ok", "broken"}, target: STRING, root: Sections, prod: Sections,
   flag: STRING, var: STRING, branch: STRING,
   os: [type: Types, url: Urls, database: Paths, schema: Schemas],
   arg: [url: Urls, schema: Schemas, dir: {"none", "", "rel", "abs"}], offline: BOOLEAN, secrets: BOOLEAN]

ConfigResolutionAssumption == Entries \subseteq {"cli", "api", "anchored"} /\ Inputs \subseteq Sources

None == [v |-> "none", from |-> "default", base |-> "none"]
Given(x) == x.v \notin Empty
Source(from, raw, base) ==
  [k \in Keys |-> IF k \notin DOMAIN raw \/ raw[k] = "none" THEN None
                  ELSE [v |-> raw[k], from |-> from, base |-> IF raw[k] \in Relative THEN base ELSE "none"]]

Unread == [state |-> "open", type |-> "none", locator |-> None, schema |-> None, dirs |-> None]
NoConfig == [type |-> "none", locator |-> None, schema |-> None, dir |-> None, dirs |-> None]

TypeOK ==
  /\ entry \in Entries \cup {"none"} /\ env \in STRING
  /\ stage \in {"load", "select", "check", "apply", "environ", "args", "locator", "build", "override", "dirs"}
  /\ \A k \in Keys : data[k].base \in {"none", "folder", "cwd"}
  /\ \A e \in Entries : outcome[e].state \in {"open", "refused", "done"}

First(S) == IF "cli" \in S THEN "cli" ELSE IF "api" \in S THEN "api" ELSE IF "anchored" \in S THEN "anchored" ELSE "none"

Init ==
  /\ given \in Inputs /\ entry = First(Entries) /\ stage = "load" /\ env = ""
  /\ data = [k \in Keys |-> None] /\ config = NoConfig
  /\ outcome = [e \in Entries |-> Unread]

At(s) == entry # "none" /\ stage = s
Goto(s) == stage' = s /\ UNCHANGED <<given, entry, outcome>>
Keep == UNCHANGED <<env, data, config>>

\* An entry is through; the next one reads the same sources anew.
Ends(result) ==
  /\ outcome' = [outcome EXCEPT ![entry] = result]
  /\ entry' = First({e \in Entries : outcome'[e].state = "open"}) /\ stage' = "load"
  /\ env' = "" /\ data' = [k \in Keys |-> None] /\ config' = NoConfig /\ given' = given
Refuse == Ends([Unread EXCEPT !.state = "refused"])

\* Whether a section of the file, or its root, says that the database is a file.
FileType(from) == (IF given[from].type \in Empty THEN given.root.type ELSE given[from].type) = "file"

\* The file's data: its relative paths start from its folder (anchor_file_data), "database"
\* only where the file says that it is one.  There is none when it cannot be parsed.
File(from) ==
  IF given.file = "broken" THEN [k \in Keys |-> None]
  ELSE [k \in Keys |-> Source(from, given[from], IF k = "database" /\ ~FileType(from) THEN "cwd" ELSE "folder")[k]]

\* Of the file, the active environment's value for a key that it has, else the root's.
Effective(key) ==
  LET block == File("prod")[key] IN IF env = "prod" /\ block.v # "none" THEN block ELSE File("root")[key]

\* Mutant: an empty value overrides.
MergedEmpty(base, over) == [k \in Keys |-> IF over[k].v # "none" THEN over[k] ELSE base[k]]

\* deep_merge_dicts: what is not empty overrides; what is empty reads as absent.
Merged(base, over) == [k \in Keys |-> IF Given(over[k]) THEN over[k] ELSE base[k]]

UrlType(url) ==
  IF url.v \in {"fileUrl", "fileUrlEmpty"} THEN "file" ELSE IF url.v = "serverUrl" THEN "server" ELSE "none"

-----------------------------------------------------------------------------
(* Stages. *)

\* The file is read.  An empty target version in any of its blocks is refused; a file
\* that cannot be parsed stops the command line, the API goes on without it.
LoadFile ==
  /\ At("load")
  /\ IF (given.file = "ok" /\ given.target = "") \/ (given.file = "broken" /\ entry = "cli") THEN Refuse
     ELSE Goto("select") /\ Keep

\* The environment named by the option, the variable or the branch; the file has to have it.
SelectEnvironment ==
  /\ At("select")
  /\ LET name == IF given.flag # "" THEN given.flag ELSE IF given.var # "" THEN given.var
                 ELSE IF given.file = "ok" THEN given.branch ELSE ""
     IN  IF name \notin {"", "prod"} \/ (name = "prod" /\ given.file = "broken") THEN Refuse
         ELSE env' = name /\ UNCHANGED <<data, config>> /\ Goto("check")

\* The scripts directories of the effective file: a list wins once it has an entry.
RefuseFilePaths ==
  /\ At("check")
  /\ IF \/ Effective("dirs").v \in UnusableLists
        \/ Effective("dirs").v \in Unlisted /\ Effective("dir").v \in Unusable
     THEN Refuse ELSE Goto("apply") /\ Keep

ApplyEnvironment ==
  /\ At("apply")
  /\ data' = IF env = "prod" THEN Merged(File("root"), File("prod")) ELSE File("root")
  /\ UNCHANGED <<env, config>> /\ Goto("environ")

\* DBLIFT_DB_TYPE, _URL, _DATABASE and _SCHEMA; DBLIFT_DB_PATH is passed over.
MergeEnviron ==
  /\ At("environ")
  /\ data' = Merged(data, Source("os", given.os, "cwd"))
  /\ UNCHANGED <<env, config>> /\ Goto("args")

\* Options or keyword arguments.  Only the command line infers the type of a URL.
MergeArgs ==
  /\ At("args")
  /\ LET over == [Source("arg", given.arg, "cwd") EXCEPT !["dir"] = None]
         type == [v |-> UrlType(over["url"]), from |-> "arg", base |-> "none"]
     IN  data' = Merged(data, IF entry = "cli" THEN [over EXCEPT !["type"] = type] ELSE over)
  /\ UNCHANGED <<env, config>> /\ Goto("locator")

\* Mutant: an empty locator is refused only when there is no other.
RefuseNoLocator ==
  /\ At("locator")
  /\ LET type == IF Given(data["type"]) THEN data["type"] ELSE Effective("type")
     IN  IF /\ type.v = "file"
            /\ \E k \in Locators : Effective(k).v = "" /\ \A l \in Locators : ~Given(data[l])
         THEN Refuse ELSE Goto("build") /\ Keep

\* An empty locator of a database file that leaves none, or leaves the root's in the place
\* of the active environment's.
RefuseEmptyLocator ==
  /\ At("locator")
  /\ LET type == IF Given(data["type"]) THEN data["type"] ELSE Effective("type")
         inherited(k) == env = "prod" /\ Given(File("root")[k]) /\ data[k] = File("root")[k]
     IN  IF /\ type.v = "file"
            /\ \E k \in Locators :
                 Effective(k).v = "" /\ ((\A l \in Locators : ~Given(data[l])) \/ inherited(k))
         THEN Refuse ELSE Goto("build") /\ Keep

\* "plan" does not resolve secrets.
Online == ~(given.offline /\ entry = "cli")
Resolved(x) ==
  IF ~Online THEN x
  ELSE [x EXCEPT !.v = IF @ = "secretUrl" THEN "serverUrl" ELSE IF @ = "secret" THEN "abs" ELSE @]
Secrets(d) == Online /\ \E k \in Keys : d[k].v \in {"secretUrl", "secret"}

\* A URL without a file's name, and for a file a reference nobody resolves.
UnusableLocator(d) ==
  \/ d["url"].v = "fileUrlEmpty"
  \/ Given(d["url"]) /\ d["type"].v = "file" /\ d["url"].v \in {"serverUrl", "strangeUrl"}
  \/ ~Given(d["url"]) /\ (d["path"].v = "strange" \/ (d["type"].v = "file" /\ d["database"].v = "strange"))

TypeOf(d) == IF Given(d["type"]) THEN d["type"].v ELSE UrlType(d["url"])

Incomplete(d) ==
  \/ TypeOf(d) = "none" /\ ~Given(d["url"])
  \/ TypeOf(d) = "file" /\ \A k \in Locators : ~Given(d[k])
  \/ TypeOf(d) = "server" /\ ~Given(d["url"])
\* A type nobody can tell; a secret may stand for it while it is not resolved.
Untyped(d) == TypeOf(d) = "none" /\ d["url"].v # "secretUrl"

UnusableDirectory(d) ==
  d["dirs"].v \in UnusableLists \/ (d["dirs"].v \in Unlisted /\ d["dir"].v \in Unusable)

\* DbliftConfig.from_dict and BaseDatabaseConfig.create: secrets are resolved, what cannot
\* be used is refused, a URL supersedes the path of a file, and that its "database".
Build ==
  /\ At("build")
  /\ LET d == [k \in Keys |-> Resolved(data[k])]
         default == [v |-> "default", from |-> "default", base |-> "cwd"]
     IN  IF \/ Secrets(data) /\ ~given.secrets
            \/ UnusableLocator(d) \/ Incomplete(d) \/ Untyped(d) \/ UnusableDirectory(d)
         THEN Refuse
         ELSE /\ config' = [type |-> TypeOf(d), schema |-> d["schema"],
                            locator |-> IF Given(d["url"]) THEN d["url"]
                                       ELSE IF Given(d["path"]) THEN d["path"] ELSE d["database"],
                            dir |-> IF Given(d["dir"]) THEN d["dir"] ELSE default, dirs |-> d["dirs"]]
              /\ UNCHANGED <<env, data>> /\ Goto("override")

\* A URL laid over a configuration takes its place and its type.
Overlaid(url) ==
  IF ~Given(url) THEN config
  ELSE [config EXCEPT !.locator = url, !.type = IF UrlType(url) # "none" THEN UrlType(url) ELSE @]

\* What is still relative starts from the file's folder.
Anchored ==
  LET path(x) == IF x.v \in Relative THEN [x EXCEPT !.base = "folder"] ELSE x
  IN  [config EXCEPT !.dir = path(@), !.dirs = path(@),
                     !.locator = IF config.type = "file" THEN path(@) ELSE @]

\* The command line lays its options over the configuration once more; relative_to_config
\* anchors it.
Override ==
  /\ At("override")
  /\ LET over == Source("arg", given.arg, "cwd")
         overlaid == Overlaid(Resolved(over["url"]))
     IN  config' = IF entry = "cli"
                   THEN [overlaid EXCEPT !.schema = IF Given(over["schema"]) THEN over["schema"] ELSE @]
                   ELSE IF entry = "anchored" THEN Anchored ELSE config
  /\ UNCHANGED <<env, data>> /\ Goto("dirs")

\* A list wins over the single directory once it has an entry.
Configured == IF config.dirs.v \in Unlisted THEN config.dir ELSE config.dirs

\* Where the scripts are: --scripts or migrations_dir, relative to the working directory,
\* else the configured ones, on the command line relative to the file's folder.
Directories ==
  /\ At("dirs")
  /\ LET arg == Source("arg", given.arg, "cwd")["dir"]
         dirs == IF Given(arg) THEN arg
                 ELSE IF entry = "cli" /\ Configured.v \in Relative THEN [Configured EXCEPT !.base = "folder"]
                 ELSE Configured
     IN  IF arg.v = "" THEN Refuse
         ELSE Ends([state |-> "done", type |-> config.type, locator |-> config.locator,
                    schema |-> config.schema, dirs |-> dirs])

Next ==
  \/ LoadFile \/ SelectEnvironment \/ RefuseFilePaths \/ ApplyEnvironment \/ MergeEnviron
  \/ MergeArgs \/ RefuseEmptyLocator \/ Build \/ Override \/ Directories

Spec == Init /\ [][Next]_vars

-----------------------------------------------------------------------------
(* Properties. *)

Chosen == IF given.flag # "" THEN given.flag ELSE IF given.var # "" THEN given.var ELSE given.branch

\* The sources of a key, the strongest first.
Ranked(key) ==
  <<Source("arg", given.arg, "cwd")[key], Source("os", given.os, "cwd")[key]>>
    \o (IF Chosen = "prod" THEN <<File("prod")[key]>> ELSE << >>) \o <<File("root")[key]>>
\* Who gives a key its value.
Giver(key) ==
  LET kinds == Ranked(key)
      givers == {i \in DOMAIN kinds : Given(kinds[i])}
  IN  IF givers = {} THEN "default" ELSE kinds[CHOOSE i \in givers : \A j \in givers : i <= j].from

Ready(e) == outcome[e].state = "done"

\* The key the database is found by: a URL, else a path, else a "database", whoever gives it.
Locator ==
  IF Giver("url") # "default" THEN "url" ELSE IF Giver("path") # "default" THEN "path" ELSE "database"

\* Option, then environment variable, then the active environment's block, then the root
\* sections (docs/user-guide/configuration.md): each of the URL, the path, the "database",
\* the schema and the scripts directory is the strongest source's that gives one, through
\* all the merges, inferences and overrides.  It is a precedence of each key: the path of a
\* weaker source goes before the "database" of a stronger one, and its URL before both.
PrecedenceHolds ==
  \A e \in Entries : Ready(e) =>
    /\ outcome[e].locator.from = Giver(Locator)
    /\ Giver("schema") = IF Given(outcome[e].schema) THEN outcome[e].schema.from ELSE "default"
    /\ outcome[e].dirs.from \in {Giver("dir"), Giver("dirs")}
    /\ Giver("dir") = "arg" => outcome[e].dirs.from = "arg"

\* A relative path of the file starts from its folder and one of a variable or an option
\* from the working directory, whoever reads it (anchor_file_data); relative_to_config
\* moves the database's file to the folder, too.  A "database" of the file starts there only
\* where the file says that it is one, and not when another source gives the type.
PathsFollowTheirSource ==
  \A e \in Entries : Ready(e) =>
    /\ outcome[e].dirs.from \in {"root", "prod"} /\ outcome[e].dirs.v \in Relative => outcome[e].dirs.base = "folder"
    /\ (/\ outcome[e].locator.from \in {"root", "prod"} /\ outcome[e].locator.v \in Relative
        /\ Locator # "database" \/ FileType(outcome[e].locator.from))
         => outcome[e].locator.base = "folder"
    /\ outcome[e].dirs.from = "arg" /\ outcome[e].dirs.v \in Relative => outcome[e].dirs.base = "cwd"
    /\ outcome[e].locator.from \in {"os", "arg"} /\ outcome[e].locator.v \in Relative /\ e # "anchored"
         => outcome[e].locator.base = "cwd"

\* A database file whose locator is empty in the active environment is not replaced by the
\* root's under the same key (refuse_empty_database_locator), where its type is written down.
EmptyNeverFallsBack ==
  \A e \in Entries :
    (Ready(e) /\ outcome[e].type = "file" /\ Chosen = "prod" /\ Giver("type") # "default") =>
    (File("prod")[Locator].v = "" => outcome[e].locator.from # "root")

\* A reference that is not resolved is never used as a path (refuse_unresolved_reference).
NothingUnresolved ==
  \A e \in Entries : Ready(e) =>
    /\ outcome[e].dirs.v \notin Unusable \cup UnusableLists /\ outcome[e].locator.v \notin {"strange", "fileUrlEmpty"}
    /\ outcome[e].type = "file" => outcome[e].locator.v \notin {"strangeUrl", "serverUrl"}
    /\ (e # "cli" \/ ~given.offline) => {outcome[e].dirs.v, outcome[e].locator.v} \cap {"secret", "secretUrl"} = {}

\* The command line and the API find the same database and the same scripts, but for the
\* default directory and where only the command line reads a type from a URL.
EntriesAgree ==
  ({"cli", "api"} \subseteq Entries /\ ~given.offline /\ given.file = "ok"
     /\ outcome["cli"].state # "open" /\ outcome["api"].state # "open" /\ given.arg["url"] = "none") =>
    /\ outcome["cli"].state = outcome["api"].state
    /\ outcome["cli"].locator = outcome["api"].locator /\ outcome["cli"].type = outcome["api"].type
    /\ outcome["cli"].schema = outcome["api"].schema
    /\ outcome["cli"].dirs.from # "default" => outcome["cli"].dirs = outcome["api"].dirs
=============================================================================
