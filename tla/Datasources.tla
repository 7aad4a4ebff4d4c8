----------------------------- MODULE Datasources -----------------------------
(* modify_datasources of configure_product.py, one loop iteration per      *)
(* step: for each file of DATASOURCE_PATHS the tree is parsed (the master  *)
(* file extended by add_additional_datasources), every <datasource> item   *)
(* is walked child by child, and the tree is written back.  The XML is a   *)
(* sequence of items, an item a sequence of children [tag, text, conf];    *)
(* conf is the <configuration> of a <definition> child.                    *)
(*                                                                         *)
(* deploy.py may be run again in the same workspace: each run is a new     *)
(* process (database_names starts empty) whose configure_product first     *)
(* extracts the archive over the product tree.                             *)
EXTENDS Naturals, Sequences

CONSTANTS
    Engines,   \* database_config['db_engine'].upper() values
    DsPaths,   \* DATASOURCE_PATHS[product_id]
    Layouts,   \* shipped contents of those files, file -> item sequence
    MaxRuns    \* bound on runs of deploy.py in one workspace

VARIABLES
    engine,          \* database_config['db_engine'].upper()
    files,           \* the descriptor files on disk
    tree,            \* data_sources of the file being modified
    fileIdx,         \* the datasource_paths loop
    itemIdx,         \* the findall('datasource') loop
    childIdx,        \* the 'for child in item' loop
    database_name,   \* the loop-local database_name
    database_names,  \* the module-level list returned to main
    pc,
    archive,         \* the descriptor files as the product archive holds them
    runs             \* runs of deploy.py so far

vars == <<engine, files, tree, fileIdx, itemIdx, childIdx, database_name,
          database_names, pc, archive, runs>>

\* const.py engine names, bootstrap datasource and Oracle SID.
MYSQL_DB_ENGINE == "MYSQL"
ORACLE_DB_ENGINE == "ORACLE-SE2"
MSSQL_DB_ENGINE == "SQLSERVER-SE"
DEFAULT_ORACLE_SID == "orcl"
CARBON_DB == "WSO2_CARBON_DB"
MASTER_DS == "master-datasources"
NONE == "None"

\* database_config values, as symbols.
DbUrl == "URL"
DbUser == "USER"
DbPassword == "PASSWORD"
DbDriver == "DRIVER"
MysqlParams == "?autoReconnect=true&useSSL=false&requireSSL=false&verifyServerCertificate=false"

\* A deep copy of the first datasource: 'for child ...: if name: rename;
\* break' renames only a leading <name>; jndiConfig/name is always set.
CopyOf(item, n) ==
  LET named == IF item[1].tag = "name" THEN [item EXCEPT ![1].text = n]
               ELSE item
      j == CHOOSE k \in DOMAIN item :
             /\ item[k].tag = "jndiConfig"
             /\ \A i \in 1..k-1 : item[i].tag # "jndiConfig"
  IN  [named EXCEPT ![j].text = "jdbc/" \o n]

add_additional_datasources(ds) ==
  ds \o <<CopyOf(ds[1], "WSO2REG_DB"), CopyOf(ds[1], "WSO2UM_DB")>>

AUX_DBS == <<"WSO2REG_DB", "WSO2UM_DB">>

\* The if/elif chain on the engine; str.replace(text, v) on the whole
\* text is an overwrite with v.
RewriteConf(e, n, conf) ==
  LET c == [conf EXCEPT !.password = DbPassword, !.driver = DbDriver]
  IN  CASE e = MYSQL_DB_ENGINE ->
             [c EXCEPT !.url = DbUrl \o "/" \o n \o MysqlParams, !.user = DbUser]
        [] e = ORACLE_DB_ENGINE ->
             [c EXCEPT !.url = DbUrl \o "/" \o DEFAULT_ORACLE_SID, !.user = n,
                       !.validation = "SELECT 1 FROM DUAL"]
        [] e = MSSQL_DB_ENGINE ->
             [c EXCEPT !.url = DbUrl \o ";databaseName=" \o n, !.user = DbUser]
        [] OTHER ->
             [c EXCEPT !.url = DbUrl \o "/" \o n, !.user = DbUser]

\* Mutant: the WSO2_CARBON_DB skip dropped.
ChildStep_rewrites_carbon(item, k, dn) ==
  LET c    == item[k]
      name == IF c.tag = "name" THEN c.text ELSE dn
      rw   == c.tag = "definition" /\ name # NONE
  IN  [item  |-> IF rw THEN [item EXCEPT ![k].conf = RewriteConf(engine, name, @)]
                 ELSE item,
       name  |-> name,
       added |-> IF rw THEN <<name>> ELSE <<>>]

\* One iteration of 'for child in item': a <name> other than
\* WSO2_CARBON_DB sets database_name; a <definition> seen while
\* database_name is set is rewritten and the name appended.
ChildStep(item, k, dn) ==
  LET c    == item[k]
      name == IF c.tag = "name" /\ c.text # CARBON_DB THEN c.text ELSE dn
      rw   == c.tag = "definition" /\ name # NONE
  IN  [item  |-> IF rw THEN [item EXCEPT ![k].conf = RewriteConf(engine, name, @)]
                 ELSE item,
       name  |-> name,
       added |-> IF rw THEN <<name>> ELSE <<>>]

\* The rest of the child loop of an item from child k on.
RECURSIVE FinishItem(_, _, _, _)
FinishItem(item, k, dn, names) ==
  IF k > Len(item) THEN [item |-> item, names |-> names]
  ELSE LET s == ChildStep(item, k, dn)
       IN  FinishItem(s.item, k + 1, s.name, names \o s.added)

Parsed(f, content) ==
  IF f = MASTER_DS THEN add_additional_datasources(content) ELSE content

-----------------------------------------------------------------------------

Init ==
  /\ engine \in Engines
  /\ archive \in Layouts
  /\ files = archive
  /\ tree = <<>>
  /\ fileIdx = 1
  /\ itemIdx = 1
  /\ childIdx = 1
  /\ database_name = NONE
  /\ database_names = <<>>
  /\ pc = "extract"
  /\ runs = 1

\* Mutant: the archive is not extracted over a tree already on disk.
extract_product_keep_existing ==
  /\ pc = "extract"
  /\ pc' = "parse"
  /\ UNCHANGED <<engine, files, tree, fileIdx, itemIdx, childIdx,
                 database_name, database_names, archive, runs>>

\* ZipFile.extractall overwrites every descriptor with the archive's copy.
extract_product ==
  /\ pc = "extract"
  /\ files' = archive
  /\ pc' = "parse"
  /\ UNCHANGED <<engine, tree, fileIdx, itemIdx, childIdx, database_name,
                 database_names, archive, runs>>

\* ET.parse, getroot().find('datasources'), add_additional_datasources
\* for the master file.
parse_file ==
  /\ pc = "parse"
  /\ tree' = Parsed(DsPaths[fileIdx], files[DsPaths[fileIdx]])
  /\ itemIdx' = 1
  /\ childIdx' = 1
  /\ database_name' = NONE
  /\ pc' = IF tree' = <<>> THEN "write" ELSE "child"
  /\ UNCHANGED <<engine, files, fileIdx, database_names, archive, runs>>

visit_child ==
  /\ pc = "child"
  /\ childIdx <= Len(tree[itemIdx])
  /\ LET s == ChildStep(tree[itemIdx], childIdx, database_name)
     IN  /\ tree' = [tree EXCEPT ![itemIdx] = s.item]
         /\ database_name' = s.name
         /\ database_names' = database_names \o s.added
  /\ childIdx' = childIdx + 1
  /\ UNCHANGED <<engine, files, fileIdx, itemIdx, pc, archive, runs>>

\* Mutant: the last item does not end the loop.
next_item_past_end ==
  /\ pc = "child"
  /\ childIdx > Len(tree[itemIdx])
  /\ itemIdx' = itemIdx + 1
  /\ childIdx' = 1
  /\ database_name' = NONE
  /\ pc' = "child"
  /\ UNCHANGED <<engine, files, tree, fileIdx, database_names, archive, runs>>

\* The next <datasource>: database_name = None.
next_item ==
  /\ pc = "child"
  /\ childIdx > Len(tree[itemIdx])
  /\ itemIdx' = itemIdx + 1
  /\ childIdx' = 1
  /\ database_name' = NONE
  /\ pc' = IF itemIdx = Len(tree) THEN "write" ELSE "child"
  /\ UNCHANGED <<engine, files, tree, fileIdx, database_names, archive, runs>>

\* artifact_tree.write(file_path), then the next file.
write_file ==
  /\ pc = "write"
  /\ files' = [files EXCEPT ![DsPaths[fileIdx]] = tree]
  /\ tree' = <<>>
  /\ fileIdx' = fileIdx + 1
  /\ pc' = IF fileIdx = Len(DsPaths) THEN "done" ELSE "parse"
  /\ UNCHANGED <<engine, itemIdx, childIdx, database_name, database_names,
                 archive, runs>>

\* deploy.py is run again: a new process, whose module-level
\* database_names is empty again, calls configure_product.
rerun ==
  /\ pc = "done"
  /\ runs < MaxRuns
  /\ runs' = runs + 1
  /\ database_names' = <<>>
  /\ fileIdx' = 1
  /\ pc' = "extract"
  /\ UNCHANGED <<engine, files, tree, itemIdx, childIdx, database_name, archive>>

\* The steps of one configure_product call.
Configure ==
  extract_product \/ parse_file \/ visit_child \/ next_item \/ write_file

Next == Configure \/ rerun

\* The process does not stop inside configure_product; whether deploy.py
\* is run again is the harness's choice.
Spec == Init /\ [][Next]_vars /\ WF_vars(Configure)

-----------------------------------------------------------------------------
(* Properties.                                                              *)

Child == [tag : {"name", "description", "jndiConfig", "definition"},
          text : STRING,
          conf : [url : STRING, user : STRING, password : STRING,
                  validation : STRING, driver : STRING]]

TypeOK ==
  /\ engine \in Engines
  /\ \A f \in DOMAIN files : files[f] \in Seq(Seq(Child))
  /\ tree \in Seq(Seq(Child))
  /\ fileIdx \in 1..Len(DsPaths) + 1
  /\ pc = "child" => itemIdx \in 1..Len(tree)
  /\ childIdx \in 1..6
  /\ database_name \in STRING
  /\ database_names \in Seq(STRING)
  /\ pc \in {"extract", "parse", "child", "write", "done"}
  /\ runs \in 1..MaxRuns

\* Refinement mapping: an item whose child loop has begun is shown as if
\* the loop had run to its end (FinishItem); the promise rewrites it in one
\* step, which the code takes at the item's first child.
Started == pc = "child" /\ childIdx > 1
Rest == FinishItem(tree[itemIdx], childIdx, database_name, database_names)
absTree == IF Started THEN [tree EXCEPT ![itemIdx] = Rest.item] ELSE tree
absNames == IF Started THEN Rest.names ELSE database_names
absItemIdx == IF Started THEN itemIdx + 1 ELSE itemIdx
absPhase == CASE pc = "child" /\ absItemIdx > Len(tree) -> "write"
              [] pc = "child" -> "rewrite"
              [] OTHER -> pc

Promise == INSTANCE DatasourcePromise
             WITH tree <- absTree, itemIdx <- absItemIdx,
                  database_names <- absNames, phase <- absPhase

\* Each run of deploy.py extracts the archive before modify_datasources
\* reads master-datasources.xml, so however often deploy.py ran in the
\* workspace the file on disk holds the shipped datasources and at most
\* the two copies one add_additional_datasources call appends.
MasterDatasourcesExtendedOnce ==
  Len(files[MASTER_DS]) <= Len(archive[MASTER_DS]) + 2

\* modify_datasources implements the spec's datasource rewrite: every
\* datasource but WSO2_CARBON_DB, including the two copies of the template
\* added to master-datasources.xml, gets its engine's url, user,
\* password, driver (and Oracle validation query), its name is appended to
\* database_names once, in document order, and every file is written.
ImplementsPromise == Promise!Spec

=============================================================================
