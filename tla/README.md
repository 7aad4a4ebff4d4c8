# TLA+ models of the TestGrid integration-test deployment scripts

The code modelled here is `src/jobs/intg-test-resources/scripts/`. Three files
make up the deployment that runs on each node of a WSO2 product cluster:

- `deploy.py`: the entry point `main()`. It reads `testplan.properties`,
  validates it, builds the database config, clones the product repository and
  acquires the distribution archive according to `TestMode`. It then calls
  `configure_product`. On the master node it also provisions the databases
  (`setup_databases`) and launches the rsync cron job. Last, it starts the
  product server.
- `configure_product.py`: extracts the archive and rewrites the product's
  configuration for this node. It edits `carbon.xml`, `jndi.properties`, the
  datasource descriptors, `api-manager.xml` and the two `site.json` files, and
  copies the static registry and user-management configs. On the master it
  also generates the rsync script. It returns the logical database names it
  rewrote (`database_names`).
- `const.py`: the tables the other two read: `DB_META_DATA` (engine prefix,
  driver, and `DB_SETUP`, the script list per logical database),
  `CONFIG_PATHS`, `DATASOURCE_PATHS`, `SYNC_DIRS`, ports and node addresses.

## Inventory

| Component | State it keeps | Operations | Interacts with |
|---|---|---|---|
| Orchestrator (`main`) | module globals: properties, `dist_name`, `database_config` | the pipeline; `except` clauses that log and return | every other part, by direct calls |
| Property reading | the globals | `read_proprty_files`, `validate_property_readings`, `construct_db_config` | `const.DB_META_DATA`, `SQL_DRIVER_PATH` |
| ArtifactAcquisition | the git checkout, `storage/<dist>.zip` on disk | `clone_repo`, `get_latest_tag_name`/`checkout_to_tag`, `get_dist_name`, `get_latest_released_dist`, `get_latest_stable_dist` | git, the release and build-artifact HTTP APIs, wget |
| ProductConfigurator | the extracted product tree; `database_names` (module list) | `extract_product`, `configure_carbon_xml`, `configure_jndi_properties`, driver copy, `modify_datasources` (+`add_additional_datasources`), `copy_static_configs`, `configure_apim_xml`, `configure_apps`, `configure_rsync` | file system; returns `database_names` to `main` |
| DatabaseProvisioner | the database server (external, persistent) | `setup_databases`, `run_mysql_commands`, `run_mysql_script_file`, `run_sqlserver_commands`, `run_sqlserver_script_file`, `create_oracle_user`, `run_oracle_script` | pymysql (raises on failure), `sqlcmd` and `sqlplus` (status ignored) |
| ClusterSync | the rsync script; the cron job process | `configure_rsync`, `start_rsync` | peer nodes over ssh (out of band) |
| Registry (`const.py`) | constant tables | none | read by all |
| Cluster | one database server shared by all nodes | every node runs `main` on its own | master provisions; slaves only start |

**What is hard.** Each process is single-threaded, but several things are
still hard to test:

- Failures of external calls are handled three different ways. pymysql
  raises. `sqlcmd`, `sqlplus`, `git` and `checkout_to_tag` fail silently.
  `configure_product` catches everything and returns `None`.
- `main` swallows every exception, so the process exits 0 whatever happened.
- The database server persists across runs and is shared by all nodes. Only
  the master provisions it, and the slaves start without waiting for it.
- Archives are cached on disk between runs.
- Some numeric edges: the node address formula, the port offset, and the
  substring guard in `configure_jndi_properties`.

**What makes each component correct.**

- Orchestrator: a product is started only after every earlier stage
  succeeded, and a failure is reported to the caller.
- Acquisition: the archive that is run is the one the mode asks for.
- Configurator: every datasource except `WSO2_CARBON_DB` is rewritten for its
  own database, and each logical database is returned once. Port and address
  arithmetic must be right for every node, and rewrites must be idempotent.
- Provisioner: every returned database is created and has all of its scripts
  applied, in order, before the master starts the product.
- ClusterSync: one command for each (peer, sync directory) pair.

## Modules

### `Deploy` (done)

This module models one run of `deploy.py main()` on one node. `cfg` is the
property file as read, chosen in `Init`: mode, engine, `DBPort`, OS, node
type, product and the datasource names of `master-datasources.xml`. `pc` is
the statement about to run. `repo`, `distName` and `storage` model the git
checkout, the pom version and the cached archives. `dbNames` is
`database_names`. `db` is the database server at `DBHost:DBPort`, the one
the datasource urls name: for each logical database, whether it exists,
whether its Oracle user has been granted roles, and the scripts applied so
far.

Every function `main` calls that changes state is an action named after it.
Its outcomes come from the code. Raising steps have a `Raise` disjunct, which
models `main`'s `except` clause. Steps that ignore failures (`clone_repo`,
`checkout_to_tag`, the `sqlcmd`/`sqlplus` calls) choose between success and
silent no-effect. `configure_step` walks the nine steps of `configure_product`
in the code's order. Each step either completes or raises. `CanComplete`
encodes the failures that always happen, such as a missing archive or a
missing `CONFIG_PATHS` key. The `datasources` step appends
`modify_datasources(product)` to `dbNames`. `setup_databases`,
`setup_database` and `run_script` are the loops of `setup_databases` with
their per-engine branches. The `const.py` tables are definitions restricted to
the keys the code reads. `start_product` looks up the product in
`START_SCRIPT_PATH`: a product with no entry raises `KeyError`, which `main`
logs, and nothing is started.

XML and JSON content, URLs and command strings are abstracted away. The two
manifest lookups are operators over the manifests the HTTP APIs serve:
`RelativePathOfDist` (`get_relative_path_of_dist_storage`) takes the first
artifact whose file name is `dist_zip_name`, and `StableRelativePath`
(`get_latest_stable_artifacts_api`) first finds the build whose main artifact
is `dist_name.pom`. Both give `None` when nothing matches. The release
manifest lists the tagged release, and the stable-build list the branch
head. The script files are named by their `DB_SETUP` entry.

`construct_url` puts `DBPort` into `database_config['url']`, which the
datasources use. The clients of `setup_databases` drop it.
`get_mysql_connection` gives pymysql only the host that `get_db_hostname`
cuts out of the url. `sqlcmd` gets `-S db_host` and sqlplus `//db_host/ORCL`.
Each therefore connects to its engine's standard port (`StandardPort`).
`Reaches` says whether that port is the server `db` models. A provisioning
step that does not reach it leaves `db` unchanged: it fails, or it succeeds
against another server.

### Runs

| Run | cfg | Expect | What it shows |
|---|---|---|---|
| deploy_all_engines | `MCDeploy.cfg` | pass | Engines MYSQL, POSTGRESQL, DB2 (unknown), SQLSERVER-SE and ORACLE-SE2, each on its standard port. The run covers all five TestMode values, two OSes, both products, two shipped datasource layouts, and every failure outcome: 291498 states. For the engines whose client raises, or that `setup_databases` refuses, a master that starts the product has every returned database created and scripted (`ProvisionedBeforeStart`). A DEBUG/RELEASE run only runs the tagged distribution (`ReleaseModesRunTaggedDist`). |
| deploy_client_engines | `MCDeploy_client.cfg` | violation | With SQLSERVER-SE or ORACLE-SE2, a failed create or script is not noticed and the master starts anyway. |
| deploy_duplicate_names | `MCDeploy_dup.cfg` | violation | If `master-datasources.xml` already declares `WSO2UM_DB`, the name is returned twice. The spec says duplicates are removed. |
| deploy_db_port | `MCDeploy_port.cfg` | violation | MySQL with `DBPort` 3306 or 3307. With 3307, pymysql connects to `DBHost:3306`. Whatever answers there gets the databases, and the master starts against an empty server at `DBHost:3307` (`ProvisionedBeforeStart`). With nothing on 3306, every master run fails instead. The spec derives the database config used for provisioning from `dbHost` and `dbPort`. |
| deploy_stale_archive | `MCDeploy_stale.cfg` | violation | `storage` maps each version to the archive on disk: none, an older build, or the latest. `wget.download` saves a new download under another name when the file exists, so a SNAPSHOT run unpacks the build an earlier run left (`SnapshotRunsLatestStable`). The spec says it runs the most recent stable build. |

**Bounds.** The model has no numeric bound. `OtherPorts` is empty for the
passing run: the test plans name each engine's standard port. The port run
adds one other port. `db_names` has at most six
entries and the script lists have at most one entry, exactly as in
`const.py`. The runs enumerate every TestMode value, every engine branch
(including one DB_META_DATA lacks), an OS that `SQL_DRIVER_PATH` lacks, and a
product whose `CONFIG_PATHS` lacks keys. Every external call is allowed to
fail at every step, so every early return and `except` path is reached.

**No liveness.** `main` only loops over finite lists and never retries or
waits. Its termination therefore holds by the shape of the code, unless an
external call hangs. The code has no timeouts, and a hung call is the
environment withholding its answer, which a model can only assume away.
Both are listed as hazards without a property. The exit status 0 after a
logged exception is the single `except` of `main` (`main_return`). Spec §9
already records it as a defect, so no run restates it.

**Deadlock.** The cfgs say `CHECK_DEADLOCK FALSE`. The final state
(`pc = "done"`) is the process having exited, which has no successor.

### `ProductConfig` (done)

This module models what `configure_product` writes into the product tree on
one node, over repeated invocations of `deploy.py` in the same workspace.
`offset`, `nodeCount` and `nodeType` are the properties read (`PortOffset`,
`NodeCount`, `NodeType`). `pc` is the step about to run: extract, carbon,
jndi, static, apim, apps, rsync (master only), done. `portOffset` is the
`<Offset>` of `carbon.xml`. `jndi` is `jndi.properties` as text, a sequence
of decimal digits. `serverUrl` is the slave's `ServerURL` host and port.
`publisher` is the list of throttling receiver groups. `docs` holds the rest
of what the configurator writes: the host elements appended to `carbon.xml`,
whether the registry and user-management configs are the shipped or the
static copies, the gateway endpoints and store URL of `api-manager.xml`, and
the reverse-proxy and whitelist settings of the two `site.json` files.
`rsyncScript` is the rsync script in the workspace. `runs` counts the
invocations.

- `extract_product` resets the product tree, `docs` included, to the
  shipped files. The rsync script is outside the tree, so it persists.
- `configure_carbon_xml`, `configure_jndi_properties`,
  `copy_static_configs`, `configure_apim_xml`, `configure_apps` and
  `configure_rsync` are one action each, in the code's order.
- `rerun` is a new invocation of `deploy.py`, bounded by `MaxRuns`.
- Only the successful steps are here. Which steps raise, and that
  `configure_product` then stops and returns `None`, is modelled in
  `Deploy` (`configure_step`, `CanComplete`).

The text conversions are modelled by what they do. `Str` is Python `str()`
of a natural. `ConcatDec` is the text concatenation that builds the node
address, read back as a number. `Replace` is `str.replace`. `ContainsText`
is `in`. This matters because two findings come from text semantics.

| Run | cfg | Expect | What it shows |
|---|---|---|---|
| config_repeated | `MCProductConfig.cfg` | pass | For 1–4 nodes, offsets 0, 1 and 10000 and two invocations: the throttling groups are the cluster's nodes (`ThrottlingGroupsListCluster`, against the reference address `10.0.1.(100+10(k-1))`), the broker port is `5672 + offset` (`JndiBrokerPortOffset`), and the `ServerURL`, rsync and throttling addresses of the master agree (`AddressesAgree`). `carbon.xml` holds one `HostName` and one `MgtHostName` after any number of invocations, because each one extracts the archive before appending them (`HostElementsOnce`). The first invocation on the master writes one rsync command per (peer, directory) pair (`RsyncCommandsOncePerPeerDir`). A second invocation appends every command again, because the script is outside the tree and opened in append mode (`configure_product.py:117`). The spec scopes a deployment to one run, so the property is checked for the first run only; the rerun case is listed as a hazard. |
| config_eleven_nodes | `MCProductConfig_eleven.cfg` | violation | Node 11 gets the address `10.0.1.1100` (`configure_product.py:240`). |
| config_port_range | `MCProductConfig_ports.cfg` | violation | With `Offset` 60000, `configure_apim_xml` writes the gateway endpoint `lb:68280` (`PortsInRange`). A slave's `ServerURL` and the throttling endpoints are also past 65535. `get_port_value` adds the offset with no check (`configure_product.py:258`). The spec types `portOffset` as any int ≥ 0 and states no upper bound. |

**Bounds.** Offsets are 0, 1 and 10000. 10000 is the smallest offset that
keeps `5672` inside the rewritten port. Because of that, the `5672` guard of
`configure_jndi_properties` does not stop a second rewrite: it would turn
`15672` into `115672` (`configure_product.py:320`). `JndiBrokerPortOffset`
holds over reruns all the same, because `extract_product` restores the file
before every rewrite. Node counts are 1–4 for the passing
runs, enough for a master and three peers. The eleven-node run uses the
smallest count that breaks the formula. The port run uses 60000, past
65535 − 9711 = 55824, the largest offset that keeps every written port
valid. `MaxRuns` 2 is one rerun. The
ProductConfig spec has no fairness: its properties are safety properties.

### `Datasources` and `DatasourcePromise` (done)

`DatasourcePromise` is the abstract specification. It is written from spec
§4.2 step 3, not from the code. Each file of `DATASOURCE_PATHS` is read. In
the master file, the template datasource is duplicated as `WSO2REG_DB` and
`WSO2UM_DB`. Then each `<datasource>` is rewritten in one step, and the file
is written back. Every datasource but `WSO2_CARBON_DB` gets the engine's url,
user, password and driver class, and the Oracle validation query, from the
spec's table. Its name is appended to `database_names`.

`Datasources` is `modify_datasources` with its three nested loops: files,
`<datasource>` items, and the children of an item. Each loop iteration is one
action, and `add_additional_datasources` is applied when the master file is
parsed. An item is a sequence of children `[tag, text, conf]`, where `conf`
is the `<configuration>` of a `<definition>`. `ChildStep` is one iteration
of `for child in item`. A `<name>` other than `WSO2_CARBON_DB` sets
`database_name`. A `<definition>` seen while `database_name` is set is
rewritten (`RewriteConf`, the engine `if/elif`) and the name appended.
`CopyOf` models the `break` of `add_additional_datasources`: only a leading
`<name>` is renamed.

The refinement mapping (`absTree`, `absNames`, `absItemIdx`, `absPhase`)
shows an item whose child loop has begun as if the loop had finished
(`FinishItem`). The abstract rewrite of an item therefore corresponds to the
code's step on the item's first child, and the other child steps are
stuttering. `ImplementsPromise` is `Promise!Spec`, fairness included.

Both modules model reruns of `deploy.py` in one workspace. `archive` is the
descriptor files as the product archive holds them. `extract_product`
(`ZipFile.extractall`) copies them over the files on disk. `rerun` is a new
process, so its module-level `database_names` starts empty, and it goes back
to extraction. In the promise these are `Extract` and `Restart`. Weak
fairness is on the steps of one pass only (`Configure`, `Pass`). A pass that
has begun is completed, and a rerun is never forced.

| Run | cfg | Expect | What it shows |
|---|---|---|---|
| datasources_refinement | `MCDatasources.cfg` | pass | For MYSQL, ORACLE-SE2, SQLSERVER-SE and POSTGRESQL (the default branch), four shipped layouts of master-datasources.xml (with or without `<description>`, `WSO2_MB_STORE_DB` or `WSO2AM_STATS_DB`) and two runs, the code implements the promise (`ImplementsPromise`). However often `deploy.py` ran, master-datasources.xml holds the shipped datasources and at most the two copies one pass appends (`MasterDatasourcesExtendedOnce`): 1136 states. |

The layouts are the shipped ones: `<name>` first, then `<jndiConfig>` in
every datasource. A file whose first datasource has no `<jndiConfig>` makes
`add_additional_datasources` raise. No product ships one, so that error path
is not modelled. `modify_datasources` is not idempotent on its own output:
a second pass over master-datasources.xml appends the two copies again.
`configure_product` extracts the archive before every pass, so the pipeline
never makes a second pass over its own output; `MasterDatasourcesExtendedOnce`
checks this over reruns. `MaxRuns` 2 is one rerun, the smallest instance in
which a second pass could meet the first one's output.

### `PropertyFile` (done)

`read_proprty_files` and `validate_property_readings` of `deploy.py`. `lines`
is `testplan.properties`, one character sequence per line. `idx` is the
`for line in filehandle` loop and `props` the module globals the keys are
read into, `None` at first. `read_line` is one iteration: a line that starts
with `#` is skipped, a line without `=` raises `IndexError`, and any other is
split with `line.split("=")`. Field 0 is the key and field 1, stripped, the
value. A key outside the `elif` chain is ignored.
`validate_property_readings` either passes or makes `main` raise. `Strip`,
`SplitKey` and `SplitVal` model `str.strip` and `split` by what they do,
with `SelectInSeq` and `SelectLastInSeq` of SequencesExt. Key names are one
character each: the key text is not what the property is about.

| Run | cfg | Expect | What it shows |
|---|---|---|---|
| property_value_equals | `MCPropertyFile.cfg` | violation | Two keys, values `a`, ` a` and `a=`, written one per line after a comment line as the test plan writes them. A value that contains `=` (a database password, for one) is read up to that `=`: `LBHost=a=` is read as `a` (`ValuesReadAsWritten`). Spec §9 says a line is split on the first `=`. |

`Deploy` models the outcome of this reading as the choice of `cfg` in its
`Init` and a `Raise` at the `read` stage.

### `Cluster` (done)

Every node runs `main()` on its own machine against one database server.
`pc`, `widx`, `started`, `error` and `runs` are functions over `Nodes`.
`db` is shared. The steps that touch no shared state, up to the return of
`configure_product`, are one action, `prepare`, which succeeds or raises.
`Deploy` models those steps one by one. `setup_databases`' two loops are
one loop over `Work`: for each name in order, its create, then its scripts.
MySQL raises on any failure. SQL Server's `sqlcmd` fails silently. `rerun`
is a second invocation of `deploy.py` on a node whose `main()` returned. The
database server keeps its state, and a server started earlier keeps running.
A script applied a second time may succeed or raise. Which one happens
depends on the SQL files, which are not in this repository.

| Run | cfg | Expect | What it shows |
|---|---|---|---|
| cluster_provisioning | `MCCluster.cfg` | pass | A master and two slaves with MySQL, each run up to twice: a master that starts has every database created and scripted, also on a rerun against a server a failed run left half set up (`MasterStartsProvisioned`): 38656 states. |
| cluster_slave_start | `MCCluster_slave.cfg` | violation | A slave starts its product before the master has created the databases. Nothing in `main()` orders the nodes (`deploy.py:613`). |

**No liveness.** Nodes never wait on each other, so every node's `main()`
ends for the same reason a single run does. `Spec` states no fairness.

**Bounds.** Three nodes show a slave racing the master and slaves
interleaving. The three databases are one with a script list, one without,
and a third so that a failure can leave some done and some not. `MaxRuns` 2
gives one rerun per node.

## Plan

The plan is ordered by importance. Provisioning and the pipeline come first,
then the cluster, then the configuration arithmetic.

1. **Deploy** (done). The single-node pipeline and database provisioning.
2. **Cluster** (done). N nodes (one master) on a shared `db`, with reruns
   that keep the database server. A slave may start before provisioning
   (violation). A rerun master starts only on a fully provisioned server.
3. **ProductConfig** (done). The throttling groups against a reference
   address formula (violated from 11 nodes on), the jndi broker port offset,
   address agreement, and one rsync command per (peer, directory) pair.
   The jndi text rewrite is modelled as `str.replace` over decimal digits.
4. **Datasources refinement** (done). A child-by-child model of `modify_datasources`
   (each `<datasource>` and each child element in turn) is shown to refine
   an abstract "rewrite every non-bootstrap descriptor, return their names"
   specification, via `INSTANCE … WITH`.
5. **Acquisition** (done). The stale archive (violation), and the two
   manifest lookups as first-match operators. The HTTP transport and the
   XML parsing are outcomes: a response or an exception.
6. **Property file** (done). The line-by-line reading, with the `split('=')`
   truncation found (violation).
7. **Reruns** (done for the datasources and the product tree). Extraction
   before every pass keeps the rewrites idempotent across runs.
8. **Database endpoint** (done). `setup_databases` reaches the engine's
   standard port, not `DBPort` (violation).

## Not modelled

- Logging setup, Windows path helpers and file copying: these are I/O with
  no state that other parts read.
- Processes started by earlier runs (the product server and the
  `nohup` rsync loop) are outside the model's state: a rerun starts
  another of each. This is listed as a hazard.
- The content of the SQL scripts: `sqlparse.split` and the statements are
  abstracted to "the script applied".
- Oracle in `Cluster`. `Cluster` has one engine whose client raises (MySQL)
  and one whose client fails silently (SQL Server). Oracle's two sqlplus
  sessions per database, user then grant, are also silent. `Deploy` models
  them and `deploy_client_engines` shows where they lead. In the cluster
  they behave like SQL Server.
- The jndi broker port past 65535. `PortsInRange` checks the ports in
  `api-manager.xml`. The broker port in `jndi.properties` comes from the
  same `offset + port` sum, and `JndiBrokerPortOffset` checks that sum.
