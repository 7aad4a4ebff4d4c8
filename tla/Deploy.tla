------------------------------- MODULE Deploy -------------------------------
(***************************************************************************)
(* One run of deploy.py main() on one node: read and validate the         *)
(* test-plan properties, build the database config, clone the product     *)
(* repository, acquire the distribution according to TestMode, call       *)
(* configure_product.configure_product(), and on the master node set up   *)
(* the databases and start the rsync job, then start the product.         *)
(*                                                                         *)
(* The process is single-threaded; every external call (git, HTTP, wget,  *)
(* sqlcmd, sqlplus, pymysql, file system) is one step whose outcome the   *)
(* environment chooses.  The database server state persists outside the   *)
(* process and is modelled as the variable db.                            *)
(***************************************************************************)
EXTENDS Naturals, Sequences, SequencesExt, FiniteSets

CONSTANTS
    TestModes,         \* values the TestMode property may take
    DbEngines,         \* values the DBEngine property may take
    OsNames,           \* values the OS property may take
    Products,          \* product ids derived from ProductGITURL
    MasterDsContents,  \* possible datasource-name sequences of master-datasources.xml
    OtherPorts         \* DBPort values other than the engine's standard port

VARIABLES
    cfg,        \* the property file as read: mode, engine, DBPort, os, node type, product, master-datasources content
    pc,         \* the statement of main() (and of the callee) about to run
    repo,       \* what git left in workspace/<product_id>: "none", "branch" head or latest "tag"
    distName,   \* dist_name: version read from the distribution pom, "none" before get_dist_name
    storage,    \* per version: storage/<dist_name>.zip absent, an older build, or the latest
    dbNames,    \* configure_product.database_names
    db,         \* the database server at DBHost:DBPort, which the datasource urls
                \* name: per logical database, exists / granted / applied scripts
    dbIdx,      \* setup_databases: index into db_names
    scriptIdx,  \* setup_databases: index into the script list of db_names[dbIdx]
    rsync,      \* start_rsync launched the cron job
    started,    \* start_product launched the server
    error,      \* the stage whose exception main() logged, "none" if none
    exitCode    \* process exit status, -1 while running

vars == <<cfg, pc, repo, distName, storage, dbNames, db, dbIdx, scriptIdx,
          rsync, started, error, exitCode>>

-----------------------------------------------------------------------------
(* const.py tables, restricted to the keys this module reads.             *)

MYSQL == "MYSQL"
ORACLE == "ORACLE-SE2"
MSSQL == "SQLSERVER-SE"
POSTGRES == "POSTGRESQL"
MASTER == "MASTER"
CARBON_DB == "WSO2_CARBON_DB"

Versions == {"tag", "branch"}

\* What storage/<dist_name>.zip holds: nothing, a build older than the one
\* the manifest lists now, or that build.
Builds == {"absent", "stale", "latest"}

\* Archives earlier runs left in the storage directory.  A released tag's
\* archive never changes; a branch head's archive of the same name is
\* replaced by every stable build.
CachedArchives == {s \in [Versions -> Builds] : s["tag"] # "stale"}

\* wget.download(url, destination): when destination exists, the download
\* is saved under a new name ("<name> (1).zip") and the old file stays.
download_file(v) ==
  storage' = IF storage[v] = "absent" THEN [storage EXCEPT ![v] = "latest"]
             ELSE storage

\* The two HTTP manifests, archives named by the version whose pom names
\* them (dist_zip_name).  The release API lists the latest release; the
\* build-artifacts API lists builds, each with its main artifact's pom
\* (canonicalName) and its archives.
NONE == "None"
RELEASE_MANIFEST == <<[fileName |-> "tag", relativePath |-> "release"]>>
STABLE_BUILDS ==
  <<[canonicalName |-> "branch",
     artifacts |-> <<[fileName |-> "branch", relativePath |-> "stable"]>>]>>

\* get_relative_path_of_dist_storage: the relativePath beside the first
\* <fileName> equal to dist_zip_name, None if no artifact has it.
RelativePathOfDist(artifacts, zip) ==
  LET k == SelectInSeq(artifacts, LAMBDA a : a.fileName = zip)
  IN  IF k = 0 THEN NONE ELSE artifacts[k].relativePath

\* get_latest_stable_artifacts_api: the build whose main artifact is
\* dist_name.pom, then the archive's path in that build's listing.
StableRelativePath(pom) ==
  LET k == SelectInSeq(STABLE_BUILDS, LAMBDA b : b.canonicalName = pom)
  IN  IF k = 0 THEN NONE ELSE RelativePathOfDist(STABLE_BUILDS[k].artifacts, pom)

\* DB_META_DATA[engine]["DB_SETUP"]["product-apim"], scripts named by their file.
DB_SETUP ==
  [e \in {MYSQL, MSSQL, ORACLE} |->
     [n \in {"WSO2UM_DB", "WSO2AM_DB", "WSO2AM_STATS_DB", "WSO2REG_DB",
             "WSO2_MB_STORE_DB", "WSO2_METRICS_DB"} |->
        CASE n = "WSO2AM_STATS_DB" -> <<>>
          [] n \in {"WSO2UM_DB", "WSO2REG_DB"} -> <<"core">>
          [] n = "WSO2AM_DB" -> <<"apimgt">>
          [] n = "WSO2_MB_STORE_DB" -> <<"mb-store">>
          [] OTHER -> <<"metrics">>]]
  @@ [e \in {POSTGRES} |->
        [n \in {"WSO2UM_DB", "WSO2AM_DB", "WSO2AM_STATS_DB",
                "WSO2_MB_STORE_DB", "WSO2_METRICS_DB"} |-> <<>>]]

DB_META_DATA_KEYS == {MYSQL, MSSQL, ORACLE, POSTGRES}
SQL_DRIVER_PATH_KEYS == {"CENTOS", "WINDOWS"}

\* The port each engine listens on unless configured otherwise.
StandardPort(e) ==
  CASE e = MYSQL -> 3306 [] e = MSSQL -> 1433 [] e = ORACLE -> 1521 [] OTHER -> 5432

\* construct_url puts DBPort into database_config['url'], but the clients
\* setup_databases runs drop it: get_mysql_connection passes pymysql only
\* the host get_db_hostname cuts out of the url, sqlcmd gets '-S db_host'
\* and sqlplus '//db_host/ORCL'.  Each connects to its engine's standard
\* port, which is the server the datasources name only when DBPort is.
Reaches == cfg.dbPort = StandardPort(cfg.engine)

\* products whose START_SCRIPT_PATH entry names a start script
START_SCRIPT_PATH_KEYS == {"product-apim"}

\* keys of CONFIG_PATHS[product_id]
CONFIG_PATHS ==
  [p \in Products |->
     IF p = "product-apim"
     THEN {"REGISTRY_CONF", "CARBON_CONF", "APIM_CONF", "USER_CONF",
           "STORE_CONF", "PUBLISHER_CONF", "JNDI_CONF"}
     ELSE {"REGISTRY_CONF", "CARBON_CONF", "USER_CONF"}]

\* DATASOURCE_PATHS[product_id]: the files, master-datasources first.
DATASOURCE_PATHS(p) ==
  IF p = "product-apim" THEN <<"master", "metrics">> ELSE <<>>

\* Every logical database name any datasource file may declare.
DbNameSet == UNION {ToSet(c) : c \in MasterDsContents}
               \cup {"WSO2REG_DB", "WSO2UM_DB", "WSO2_METRICS_DB"}
Scripts == {"core", "apimgt", "mb-store", "metrics"}

-----------------------------------------------------------------------------
(* configure_product.modify_datasources and add_additional_datasources.   *)

\* The <datasource> names of a file, in document order.
DatasourceItems(file) ==
  IF file = "master" THEN cfg.masterDs ELSE <<"WSO2_METRICS_DB">>

\* Two deep copies of the first datasource renamed WSO2REG_DB and WSO2UM_DB
\* are appended to master-datasources before the rewrite pass.
add_additional_datasources(items) == items \o <<"WSO2REG_DB", "WSO2UM_DB">>

\* Names appended to database_names for one file: every datasource but
\* WSO2_CARBON_DB is rewritten and its name appended.
RewrittenNames(file) ==
  LET items == IF file = "master"
               THEN add_additional_datasources(DatasourceItems(file))
               ELSE DatasourceItems(file)
  IN SelectSeq(items, LAMBDA n : n # CARBON_DB)

modify_datasources(p) ==
  FoldLeft(LAMBDA acc, f : acc \o RewrittenNames(f), <<>>, DATASOURCE_PATHS(p))

-----------------------------------------------------------------------------

NoDb == [exists |-> FALSE, granted |-> FALSE, applied |-> <<>>]

Init ==
  /\ cfg \in {c \in [mode : TestModes, engine : DbEngines, os : OsNames,
                     nodeType : {MASTER, "SLAVE"}, product : Products,
                     masterDs : MasterDsContents,
                     dbPort : {StandardPort(e) : e \in DbEngines} \cup OtherPorts] :
                c.dbPort \in {StandardPort(c.engine)} \cup OtherPorts}
  /\ pc = "read"
  /\ repo = "none"
  /\ distName = "none"
  /\ storage \in CachedArchives
  /\ dbNames = <<>>
  /\ db = [n \in DbNameSet |-> NoDb]
  /\ dbIdx = 0
  /\ scriptIdx = 0
  /\ rsync = FALSE
  /\ started = FALSE
  /\ error = "none"
  /\ exitCode = -1

\* An exception propagates to main(), which logs it (the except clauses).
Raise(stage) ==
  /\ error' = stage
  /\ pc' = "exit"

Goto(l) == pc' = l /\ UNCHANGED error

read_proprty_files ==
  /\ pc = "read"
  /\ \/ Goto("validate")
     \/ Raise("read")               \* file absent, or a line without '='
  /\ UNCHANGED <<cfg, repo, distName, storage, dbNames, db, dbIdx, scriptIdx,
                 rsync, started, exitCode>>

validate_property_readings ==
  /\ pc = "validate"
  /\ \/ Goto("dbconfig")
     \/ Raise("validate")           \* a mandatory key is missing
  /\ UNCHANGED <<cfg, repo, distName, storage, dbNames, db, dbIdx, scriptIdx,
                 rsync, started, exitCode>>

\* DB_META_DATA lookup, then SQL_DRIVER_PATH[os_name.upper()].
construct_db_config ==
  /\ pc = "dbconfig"
  /\ IF cfg.engine \in DB_META_DATA_KEYS /\ cfg.os \in SQL_DRIVER_PATH_KEYS
     THEN Goto("clone")
     ELSE Raise("dbconfig")
  /\ UNCHANGED <<cfg, repo, distName, storage, dbNames, db, dbIdx, scriptIdx,
                 rsync, started, exitCode>>

\* subprocess.call ignores git's exit status, so a failed clone is silent.
\* The TestMode dispatch of main() follows.
clone_repo ==
  /\ pc = "clone"
  /\ repo' \in {"none", "branch"}
  /\ Goto(CASE cfg.mode \in {"DEBUG", "RELEASE"} -> "tag"
            [] cfg.mode \in {"SNAPSHOT", "WUM"} -> "distname"
            [] OTHER -> "configure")
  /\ UNCHANGED <<cfg, distName, storage, dbNames, db, dbIdx, scriptIdx,
                 rsync, started, error, exitCode>>

\* get_latest_tag_name runs git in the repository directory (an exception
\* when it is absent); checkout_to_tag swallows git failures.
checkout_to_tag ==
  /\ pc = "tag"
  /\ IF repo = "none"
     THEN Raise("tag") /\ UNCHANGED repo
     ELSE Goto("distname") /\ repo' \in {repo, "tag"}
  /\ UNCHANGED <<cfg, distName, storage, dbNames, db, dbIdx, scriptIdx,
                 rsync, started, exitCode>>

\* Parses the distribution pom of whatever is checked out.
get_dist_name ==
  /\ pc = "distname"
  /\ IF repo = "none"
     THEN Raise("distname") /\ UNCHANGED distName
     ELSE /\ distName' = repo
          /\ Goto(CASE cfg.mode = "SNAPSHOT" -> "stable"
                    [] cfg.mode = "WUM" -> "configure"
                    [] OTHER -> "released")
  /\ UNCHANGED <<cfg, repo, storage, dbNames, db, dbIdx, scriptIdx,
                 rsync, started, exitCode>>

\* Mutant: the manifest lookup ignores the archive's file name.
get_latest_released_dist_any_name ==
  /\ pc = "released"
  /\ \/ /\ RELEASE_MANIFEST # <<>>
        /\ download_file(distName)
        /\ Goto("configure")
     \/ Raise("released") /\ UNCHANGED storage
  /\ UNCHANGED <<cfg, repo, distName, dbNames, db, dbIdx, scriptIdx,
                 rsync, started, exitCode>>

\* A name the release manifest does not list raises; the download may
\* fail.
get_latest_released_dist ==
  /\ pc = "released"
  /\ \/ /\ RelativePathOfDist(RELEASE_MANIFEST, distName) # NONE
        /\ download_file(distName)
        /\ Goto("configure")
     \/ Raise("released") /\ UNCHANGED storage
  /\ UNCHANGED <<cfg, repo, distName, dbNames, db, dbIdx, scriptIdx,
                 rsync, started, exitCode>>

\* The stable-build lookup returns None when no stable build carries this
\* pom; re.sub then raises before the None check.  The relative-path
\* lookup or the download may fail as well.
get_latest_stable_dist ==
  /\ pc = "stable"
  /\ \/ /\ StableRelativePath(distName) # NONE
        /\ download_file(distName)
        /\ Goto("configure")
     \/ Raise("stable") /\ UNCHANGED storage
  /\ UNCHANGED <<cfg, repo, distName, dbNames, db, dbIdx, scriptIdx,
                 rsync, started, exitCode>>

-----------------------------------------------------------------------------
(* configure_product(): each step either completes or raises; the         *)
(* function catches the exception and returns None.                       *)

ConfigureSteps == <<"extract", "carbon", "jndi", "driver", "datasources",
                    "static", "apim", "apps", "rsyncconf">>

StepAfter(s) ==
  LET i == CHOOSE k \in 1..Len(ConfigureSteps) : ConfigureSteps[k] = s
  IN IF i = Len(ConfigureSteps) THEN "returned" ELSE ConfigureSteps[i + 1]

\* Whether step s can complete; FALSE means it always raises, TRUE that it
\* may still raise on an I/O error (a file absent from the layout).
CanComplete(s) ==
  CASE s = "extract" -> distName \in Versions /\ storage[distName] # "absent"
    [] s = "jndi" -> "JNDI_CONF" \in CONFIG_PATHS[cfg.product]
    [] s = "apim" -> "APIM_CONF" \in CONFIG_PATHS[cfg.product]
    [] s = "apps" -> "STORE_CONF" \in CONFIG_PATHS[cfg.product]
    [] OTHER -> TRUE

configure_step ==
  /\ pc \in ToSet(ConfigureSteps) \cup {"configure"}
  /\ LET s == IF pc = "configure" THEN "extract" ELSE pc IN
       \/ /\ CanComplete(s)
          /\ Goto(IF s = "apps" /\ cfg.nodeType # MASTER
                  THEN "returned" ELSE StepAfter(s))
          /\ dbNames' = IF s = "datasources"
                        THEN dbNames \o modify_datasources(cfg.product)
                        ELSE dbNames
       \/ Raise("configure") /\ UNCHANGED dbNames
  /\ UNCHANGED <<cfg, repo, distName, storage, db, dbIdx, scriptIdx,
                 rsync, started, exitCode>>

\* main(): "if db_names is None or not db_names: raise".
check_db_names ==
  /\ pc = "returned"
  /\ IF dbNames = <<>>
     THEN Raise("configure") /\ UNCHANGED dbIdx
     ELSE IF cfg.nodeType = MASTER
          THEN Goto("setup") /\ UNCHANGED dbIdx
          ELSE Goto("start") /\ UNCHANGED dbIdx
  /\ UNCHANGED <<cfg, repo, distName, storage, dbNames, db, scriptIdx,
                 rsync, started, exitCode>>

-----------------------------------------------------------------------------
(* setup_databases(db_names), master only.                                *)

\* A schema the engine's client can run scripts in: Oracle scripts run as
\* the user named after the database, which needs the granted roles.
Usable(e, r) == r.exists /\ (e = ORACLE => r.granted)

Plan(n) == DB_SETUP[cfg.engine][n]

\* The for loop over db_names moves on to the next name.
NextDatabase == dbIdx' = dbIdx + 1 /\ UNCHANGED <<pc, scriptIdx>>

\* Mutant: the script loop runs one index past the end of the list.
NextScript_past_end ==
  IF scriptIdx <= Len(Plan(dbNames[dbIdx]))
  THEN scriptIdx' = scriptIdx + 1 /\ UNCHANGED <<pc, dbIdx>>
  ELSE scriptIdx' = 0 /\ dbIdx' = dbIdx + 1 /\ Goto("setupdb")

\* After the current script: the next one, or the next database.
NextScript ==
  IF scriptIdx < Len(Plan(dbNames[dbIdx]))
  THEN scriptIdx' = scriptIdx + 1 /\ UNCHANGED <<pc, dbIdx>>
  ELSE scriptIdx' = 0 /\ dbIdx' = dbIdx + 1 /\ Goto("setupdb")

\* DB_META_DATA[engine]["DB_SETUP"][product_id] is {} or missing for the
\* products other than product-apim, which raises.
setup_databases ==
  /\ pc = "setup"
  /\ IF cfg.product = "product-apim"
     THEN Goto("setupdb") /\ dbIdx' = 1
     ELSE Raise("setup") /\ UNCHANGED dbIdx
  /\ UNCHANGED <<cfg, repo, distName, storage, dbNames, db, scriptIdx,
                 rsync, started, exitCode>>

\* The create step of one database.  pymysql raises on failure; sqlcmd and
\* sqlplus are run without looking at their status.  Oracle creates a user
\* and then grants it roles, two independent sqlplus sessions.
CreatedRecords(e, r) ==
  CASE e = MSSQL -> {r, [r EXCEPT !.exists = TRUE]}
    [] e = ORACLE ->
         UNION {{[r EXCEPT !.exists = c, !.granted = g] :
                    g \in {r.granted} \cup (IF c THEN {TRUE} ELSE {})} :
                  c \in {r.exists, TRUE}}
    [] OTHER -> {r}

\* One iteration of the loop over db_names: KeyError for a name the
\* DB_SETUP table lacks; otherwise create, then run the scripts if any.
setup_database ==
  /\ pc = "setupdb"
  /\ IF dbIdx > Len(dbNames)
     THEN Goto("rsync") /\ UNCHANGED <<db, dbIdx, scriptIdx, error>>
     ELSE
       LET n == dbNames[dbIdx]
           e == cfg.engine
           Continue ==
             IF Plan(n) # <<>> /\ e \in {MYSQL, MSSQL, ORACLE}
             THEN scriptIdx' = 1 /\ Goto("script") /\ UNCHANGED dbIdx
             ELSE NextDatabase
       IN IF n \notin DOMAIN DB_SETUP[e]
          THEN Raise("setup") /\ UNCHANGED <<db, dbIdx, scriptIdx>>
          ELSE IF e = MYSQL
          THEN \/ /\ db' = IF Reaches THEN [db EXCEPT ![n].exists = TRUE] ELSE db
                  /\ Continue /\ UNCHANGED error
               \/ Raise("setup") /\ UNCHANGED <<db, dbIdx, scriptIdx>>
          ELSE \E r \in IF Reaches THEN CreatedRecords(e, db[n]) ELSE {db[n]} :
                 db' = [db EXCEPT ![n] = r] /\ Continue /\ UNCHANGED error
  /\ UNCHANGED <<cfg, repo, distName, storage, dbNames, rsync, started, exitCode>>

\* Mutant: a failed MySQL script is logged and the loop goes on.
run_mysql_script_file_ignoring_errors(n, s) ==
  /\ \/ Reaches /\ Usable(MYSQL, db[n]) /\ db' = [db EXCEPT ![n].applied = Append(@, s)]
     \/ UNCHANGED db
  /\ NextScript
  /\ UNCHANGED error

\* run_mysql_script_file: executes the statements through pymysql, which
\* raises when the database is absent or a statement fails.  On a server
\* other than the configured one it changes nothing of db.
run_mysql_script_file(n, s) ==
  \/ /\ IF Reaches THEN /\ Usable(MYSQL, db[n])
                         /\ db' = [db EXCEPT ![n].applied = Append(@, s)]
                    ELSE UNCHANGED db
     /\ NextScript
     /\ UNCHANGED error
  \/ Raise("setup") /\ UNCHANGED <<db, dbIdx, scriptIdx>>

\* run_sqlserver_script_file / run_oracle_script: the client's exit status
\* and output are ignored, so a failed script goes unnoticed.
run_client_script(n, s) ==
  /\ \/ Reaches /\ Usable(cfg.engine, db[n]) /\ db' = [db EXCEPT ![n].applied = Append(@, s)]
     \/ UNCHANGED db
  /\ NextScript
  /\ UNCHANGED error

run_script ==
  /\ pc = "script"
  /\ LET n == dbNames[dbIdx]
         s == Plan(n)[scriptIdx]
     IN IF cfg.engine = MYSQL THEN run_mysql_script_file(n, s)
        ELSE run_client_script(n, s)
  /\ UNCHANGED <<cfg, repo, distName, storage, dbNames, rsync, started, exitCode>>

-----------------------------------------------------------------------------

\* cron-job.sh must exist in the workspace, else FileNotFoundError.
start_rsync ==
  /\ pc = "rsync"
  /\ \/ rsync' = TRUE /\ Goto("start")
     \/ Raise("rsync") /\ UNCHANGED rsync
  /\ UNCHANGED <<cfg, repo, distName, storage, dbNames, db, dbIdx, scriptIdx,
                 started, exitCode>>

\* START_SCRIPT_PATH[product_id]['CENTOS'] (also on other Unix OS values):
\* a KeyError for the products whose entry is empty.
start_product ==
  /\ pc = "start"
  /\ IF cfg.product \in START_SCRIPT_PATH_KEYS
     THEN started' = TRUE /\ Goto("exit")
     ELSE Raise("start") /\ UNCHANGED started
  /\ UNCHANGED <<cfg, repo, distName, storage, dbNames, db, dbIdx, scriptIdx,
                 rsync, exitCode>>

\* main() returns normally whether or not it logged an exception.
main_return ==
  /\ pc = "exit"
  /\ exitCode' = 0
  /\ Goto("done")
  /\ UNCHANGED <<cfg, repo, distName, storage, dbNames, db, dbIdx, scriptIdx,
                 rsync, started, error>>

Next ==
  \/ read_proprty_files
  \/ validate_property_readings
  \/ construct_db_config
  \/ clone_repo
  \/ checkout_to_tag
  \/ get_dist_name
  \/ get_latest_released_dist
  \/ get_latest_stable_dist
  \/ configure_step
  \/ check_db_names
  \/ setup_databases
  \/ setup_database
  \/ run_script
  \/ start_rsync
  \/ start_product
  \/ main_return

Spec == Init /\ [][Next]_vars

-----------------------------------------------------------------------------
(* Properties                                                              *)

Stages == {"read", "validate", "dbconfig", "tag", "distname", "released",
           "stable", "configure", "setup", "rsync", "start"}

TypeOK ==
  /\ pc \in {"read", "validate", "dbconfig", "clone", "tag", "distname",
             "released", "stable", "configure", "returned", "setup",
             "setupdb", "script", "rsync", "start", "exit", "done"}
             \cup ToSet(ConfigureSteps)
  /\ repo \in {"none"} \cup Versions
  /\ distName \in {"none"} \cup Versions
  /\ storage \in [Versions -> Builds]
  /\ dbNames \in Seq(DbNameSet)
  /\ db \in [DbNameSet -> [exists : BOOLEAN, granted : BOOLEAN,
                           applied : Seq(Scripts)]]
  /\ dbIdx \in 0..Len(dbNames) + 1
  /\ pc = "script" => scriptIdx \in 1..Len(Plan(dbNames[dbIdx]))
  /\ rsync \in BOOLEAN /\ started \in BOOLEAN
  /\ error \in {"none"} \cup Stages
  /\ exitCode \in {-1, 0, 1}

\* Every database a node's datasources were rewritten to use holds all of
\* its schema scripts.
Provisioned(n) ==
  /\ n \in DOMAIN DB_SETUP[cfg.engine]
  /\ db[n].exists
  /\ ToSet(Plan(n)) \subseteq ToSet(db[n].applied)

\* When the master node starts the product server (start_product), every
\* database configure_product rewrote a datasource for has been created
\* and has had every script of its DB_SETUP list applied: setup_databases
\* never lets a failed create or script pass unnoticed.
MasterStartsProvisioned ==
  started /\ cfg.nodeType = MASTER =>
    \A i \in 1..Len(dbNames) : Provisioned(dbNames[i])

\* For the engines whose client raises on a failure (pymysql) or that
\* setup_databases refuses, a master starts the product only when every
\* database its datasources name is provisioned on the server the
\* datasource urls point to, DBHost:DBPort (spec: DatabaseConfig is
\* derived from dbHost and dbPort and used to provision the databases).
ProvisionedBeforeStart ==
  cfg.engine \notin {MSSQL, ORACLE} => MasterStartsProvisioned

\* In the DEBUG and RELEASE modes a started product is the distribution
\* of the latest tag, also when checkout_to_tag failed silently and the
\* pom of the branch head named the archive to fetch.
ReleaseModesRunTaggedDist ==
  started /\ cfg.mode \in {"DEBUG", "RELEASE"} => distName = "tag"

\* A SNAPSHOT run starts the latest stable build it downloaded (spec 4.1:
\* download the most recent stable build artifact), not an archive of the
\* same name an earlier run left in the storage directory.
SnapshotRunsLatestStable ==
  started /\ cfg.mode = "SNAPSHOT" => storage[distName] = "latest"

\* configure_product returns each logical database at most once (spec:
\* LogicalDatabaseSet has its duplicates removed).
DbNamesUnique == IsInjective(dbNames)

=============================================================================
