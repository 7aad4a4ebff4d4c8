-------------------------- MODULE DatasourcePromise --------------------------
(* What the datasource rewrite of the product configurator promises, one   *)
(* <datasource> element at a time: for each configured descriptor file,    *)
(* in order, the file is read (the master file with the template           *)
(* descriptor duplicated under the two auxiliary database names), every    *)
(* descriptor but the bootstrap one is rewritten for its own logical       *)
(* database and its name accumulated, and the file is written back.        *)
(* The per-engine values are the spec's table, not the code's branches.    *)
(* Each pass starts from a freshly extracted product tree; the deployment  *)
(* may be run again, up to MaxRuns times.                                  *)
EXTENDS Naturals, Sequences

CONSTANTS
    Engines,        \* database engine names, upper case
    DsPaths,        \* the descriptor files of the product, in order
    Layouts,        \* possible shipped contents: file -> <datasource> list
    MASTER_DS,      \* the master datasource file
    CARBON_DB,      \* the bootstrap catalog, never rewritten
    AUX_DBS,        \* the two auxiliary logical databases, in order
    NONE,           \* no name
    DbUrl, DbUser, DbPassword, DbDriver, MysqlParams, DEFAULT_ORACLE_SID,
    MaxRuns         \* bound on runs of the deployment

VARIABLES
    engine,          \* the configured engine
    files,           \* contents of every descriptor file
    tree,            \* the file being rewritten, in memory
    fileIdx,         \* index into DsPaths of that file
    itemIdx,         \* next <datasource> of tree to rewrite
    database_names,  \* the logical database names accumulated
    phase,
    archive,         \* the descriptor files of the product archive
    runs             \* runs of the deployment so far

vars == <<engine, files, tree, fileIdx, itemIdx, database_names, phase,
          archive, runs>>

\* The logical database a descriptor is named for: its first name child.
NameOf(item) ==
  LET ks == {k \in DOMAIN item : item[k].tag = "name"}
  IN  IF ks = {} THEN NONE
      ELSE item[CHOOSE k \in ks : \A j \in ks : k <= j].text

\* The template descriptor renamed: its name and its JNDI name.
Renamed(item, n) ==
  [k \in DOMAIN item |->
     CASE item[k].tag = "name"       -> [item[k] EXCEPT !.text = n]
       [] item[k].tag = "jndiConfig" -> [item[k] EXCEPT !.text = "jdbc/" \o n]
       [] OTHER                      -> item[k]]

Duplicated(ds) == ds \o [i \in 1..2 |-> Renamed(ds[1], AUX_DBS[i])]

\* The spec's engine table: url, user, validation query; password and
\* driver class always come from the database config.
Target(e, n, conf) ==
  LET c == [conf EXCEPT !.password = DbPassword, !.driver = DbDriver]
  IN  CASE e = "MYSQL" ->
             [c EXCEPT !.url = DbUrl \o "/" \o n \o MysqlParams, !.user = DbUser]
        [] e = "ORACLE-SE2" ->
             [c EXCEPT !.url = DbUrl \o "/" \o DEFAULT_ORACLE_SID, !.user = n,
                       !.validation = "SELECT 1 FROM DUAL"]
        [] e = "SQLSERVER-SE" ->
             [c EXCEPT !.url = DbUrl \o ";databaseName=" \o n, !.user = DbUser]
        [] OTHER ->
             [c EXCEPT !.url = DbUrl \o "/" \o n, !.user = DbUser]

Rewritable(item) ==
  /\ NameOf(item) \notin {NONE, CARBON_DB}
  /\ \E k \in DOMAIN item : item[k].tag = "definition"

Promised(item) ==
  IF Rewritable(item)
  THEN [k \in DOMAIN item |->
          IF item[k].tag = "definition"
          THEN [item[k] EXCEPT !.conf = Target(engine, NameOf(item), @)]
          ELSE item[k]]
  ELSE item

Init ==
  /\ engine \in Engines
  /\ archive \in Layouts
  /\ files = archive
  /\ tree = <<>>
  /\ fileIdx = 1
  /\ itemIdx = 1
  /\ database_names = <<>>
  /\ phase = "extract"
  /\ runs = 1

\* The product tree is extracted afresh.
Extract ==
  /\ phase = "extract"
  /\ files' = archive
  /\ phase' = "parse"
  /\ UNCHANGED <<engine, tree, fileIdx, itemIdx, database_names, archive, runs>>

Parse ==
  /\ phase = "parse"
  /\ LET f == DsPaths[fileIdx]
     IN  tree' = IF f = MASTER_DS THEN Duplicated(files[f]) ELSE files[f]
  /\ itemIdx' = 1
  /\ phase' = IF tree' = <<>> THEN "write" ELSE "rewrite"
  /\ UNCHANGED <<engine, files, fileIdx, database_names, archive, runs>>

RewriteItem ==
  /\ phase = "rewrite"
  /\ tree' = [tree EXCEPT ![itemIdx] = Promised(@)]
  /\ database_names' = IF Rewritable(tree[itemIdx])
                       THEN Append(database_names, NameOf(tree[itemIdx]))
                       ELSE database_names
  /\ itemIdx' = itemIdx + 1
  /\ phase' = IF itemIdx = Len(tree) THEN "write" ELSE "rewrite"
  /\ UNCHANGED <<engine, files, fileIdx, archive, runs>>

Write ==
  /\ phase = "write"
  /\ files' = [files EXCEPT ![DsPaths[fileIdx]] = tree]
  /\ tree' = <<>>
  /\ fileIdx' = fileIdx + 1
  /\ phase' = IF fileIdx = Len(DsPaths) THEN "done" ELSE "parse"
  /\ UNCHANGED <<engine, itemIdx, database_names, archive, runs>>

\* The deployment is run again, with no names accumulated yet.
Restart ==
  /\ phase = "done"
  /\ runs < MaxRuns
  /\ runs' = runs + 1
  /\ database_names' = <<>>
  /\ fileIdx' = 1
  /\ phase' = "extract"
  /\ UNCHANGED <<engine, files, tree, itemIdx, archive>>

Pass == Extract \/ Parse \/ RewriteItem \/ Write

Next == Pass \/ Restart

\* A pass, once begun, is completed; a restart is never forced.
Spec == Init /\ [][Next]_vars /\ WF_vars(Pass)

=============================================================================
