------------------------------- MODULE Cluster -------------------------------
(* Every node of the cluster runs deploy.py main() on its own machine,    *)
(* against one database server.  Only the master runs setup_databases and  *)
(* start_rsync; slaves go from configure_product straight to               *)
(* start_product.  Nothing in main() waits for another node.  A node's     *)
(* main() may be run again after it returned (the harness re-running the   *)
(* deployment); the database server keeps what earlier runs did.           *)
(*                                                                         *)
(* The steps of main() up to configure_product that touch no shared state  *)
(* (modelled one by one in Deploy) are one step here that succeeds,        *)
(* returning db_names, or raises.  setup_databases' two nested loops are   *)
(* one loop over its work list: for each name, its create, then its        *)
(* scripts in DB_SETUP order.                                              *)
EXTENDS Naturals, Sequences, SequencesExt

CONSTANTS
    Nodes,      \* the cluster's nodes
    Master,     \* the node whose NodeType is MASTER
    Engines,    \* DBEngine values: MYSQL raises, SQLSERVER-SE does not
    DbNames,    \* database_names configure_product returns
    MaxRuns     \* how often main() may be run on a node

ASSUME Master \in Nodes

VARIABLES
    engine,     \* DBEngine of the test plan, the same on every node
    pc,         \* per node: the statement of main() about to run
    widx,       \* per node: position in setup_databases' work list
    started,    \* per node: start_product launched the server
    error,      \* per node: the stage of the exception main() logged
    runs,       \* per node: runs of main() so far
    db          \* database server: per name, exists and scripts applied

vars == <<engine, pc, widx, started, error, runs, db>>

MYSQL == "MYSQL"

\* DB_META_DATA[engine]["DB_SETUP"]["product-apim"], scripts named by file.
DB_SETUP(n) ==
  CASE n = "WSO2AM_STATS_DB" -> <<>>
    [] n \in {"WSO2UM_DB", "WSO2REG_DB"} -> <<"core">>
    [] n = "WSO2AM_DB" -> <<"apimgt">>
    [] n = "WSO2_MB_STORE_DB" -> <<"mb-store">>
    [] OTHER -> <<"metrics">>

\* setup_databases' loops as one list: a create, then each script.
Work == FoldLeft(LAMBDA w, n :
                   w \o <<[op |-> "create", db |-> n, script |-> ""]>>
                     \o [i \in 1..Len(DB_SETUP(n)) |->
                           [op |-> "script", db |-> n, script |-> DB_SETUP(n)[i]]],
                 <<>>, DbNames)

NoDb == [exists |-> FALSE, applied |-> <<>>]

Init ==
  /\ engine \in Engines
  /\ pc = [n \in Nodes |-> "configure"]
  /\ widx = [n \in Nodes |-> 1]
  /\ started = [n \in Nodes |-> FALSE]
  /\ error = [n \in Nodes |-> "none"]
  /\ runs = [n \in Nodes |-> 1]
  /\ db = [d \in ToSet(DbNames) |-> NoDb]

Goto(n, l) == pc' = [pc EXCEPT ![n] = l]

\* main()'s except clauses log the exception; main returns.
Raise(n, stage) ==
  /\ Goto(n, "exit")
  /\ error' = [error EXCEPT ![n] = stage]

\* read_proprty_files ... configure_product and the db_names check.
prepare(n) ==
  /\ pc[n] = "configure"
  /\ \/ Goto(n, IF n = Master THEN "setup" ELSE "start") /\ UNCHANGED error
     \/ Raise(n, "configure")
  /\ UNCHANGED <<engine, widx, started, runs, db>>

\* Mutant: the loop runs one item past the end of the list.
Advance_past_end(n) ==
  /\ widx' = [widx EXCEPT ![n] = @ + 1]
  /\ IF widx[n] > Len(Work) THEN Goto(n, "rsync") ELSE UNCHANGED pc
  /\ UNCHANGED error

\* The next item of setup_databases' loops, or start_rsync after the last.
Advance(n) ==
  /\ widx' = [widx EXCEPT ![n] = @ + 1]
  /\ IF widx[n] = Len(Work) THEN Goto(n, "rsync") ELSE UNCHANGED pc
  /\ UNCHANGED error

\* Mutant: a database that already exists is taken as set up, its
\* scripts skipped.
setup_step_skip_existing(n) ==
  /\ pc[n] = "setup"
  /\ LET w == Work[widx[n]]
     IN  IF w.op = "create" /\ db[w.db].exists
         THEN /\ widx' = [widx EXCEPT ![n] = @ + 1 + Len(DB_SETUP(w.db))]
              /\ IF widx[n] + Len(DB_SETUP(w.db)) = Len(Work)
                 THEN Goto(n, "rsync") ELSE UNCHANGED pc
              /\ UNCHANGED <<error, db>>
         ELSE IF engine = MYSQL
         THEN \/ /\ w.op = "script" => db[w.db].exists
                 /\ db' = IF w.op = "create"
                          THEN [db EXCEPT ![w.db].exists = TRUE]
                          ELSE [db EXCEPT ![w.db].applied = Append(@, w.script)]
                 /\ Advance(n)
              \/ Raise(n, "setup") /\ UNCHANGED <<widx, db>>
         ELSE /\ \/ /\ w.op = "script" => db[w.db].exists
                    /\ db' = IF w.op = "create"
                             THEN [db EXCEPT ![w.db].exists = TRUE]
                             ELSE [db EXCEPT ![w.db].applied = Append(@, w.script)]
                 \/ UNCHANGED db
              /\ Advance(n)
  /\ UNCHANGED <<engine, started, runs>>

\* One create or script of setup_databases.  MySQL: CREATE DATABASE IF NOT
\* EXISTS, then the statements through pymysql, which raises on any
\* failure (also a statement failing because an earlier run applied it).
\* SQL Server: sqlcmd, whose status is ignored.
setup_step(n) ==
  /\ pc[n] = "setup"
  /\ LET w == Work[widx[n]]
         Applied == /\ w.op = "script" => db[w.db].exists
                    /\ db' = IF w.op = "create"
                             THEN [db EXCEPT ![w.db].exists = TRUE]
                             ELSE [db EXCEPT ![w.db].applied = Append(@, w.script)]
     IN  IF engine = MYSQL
         THEN \/ Applied /\ Advance(n)
              \/ Raise(n, "setup") /\ UNCHANGED <<widx, db>>
         ELSE (Applied \/ UNCHANGED db) /\ Advance(n)
  /\ UNCHANGED <<engine, started, runs>>

\* cron-job.sh must exist in the workspace, else FileNotFoundError.
start_rsync(n) ==
  /\ pc[n] = "rsync"
  /\ \/ Goto(n, "start") /\ UNCHANGED error
     \/ Raise(n, "rsync")
  /\ UNCHANGED <<engine, widx, started, runs, db>>

start_product(n) ==
  /\ pc[n] = "start"
  /\ started' = [started EXCEPT ![n] = TRUE]
  /\ Goto(n, "exit")
  /\ UNCHANGED <<engine, widx, error, runs, db>>

main_return(n) ==
  /\ pc[n] = "exit"
  /\ Goto(n, "done")
  /\ UNCHANGED <<engine, widx, started, error, runs, db>>

\* deploy.py is run again on a node whose main() returned; a server it
\* started keeps running, the database server keeps its state.
rerun(n) ==
  /\ pc[n] = "done"
  /\ runs[n] < MaxRuns
  /\ runs' = [runs EXCEPT ![n] = @ + 1]
  /\ Goto(n, "configure")
  /\ widx' = [widx EXCEPT ![n] = 1]
  /\ error' = [error EXCEPT ![n] = "none"]
  /\ UNCHANGED <<engine, started, db>>

\* The steps of main() on node n.
Node(n) ==
  \/ prepare(n) \/ setup_step(n) \/ start_rsync(n) \/ start_product(n)
  \/ main_return(n)

Next == \E n \in Nodes : Node(n) \/ rerun(n)

Spec == Init /\ [][Next]_vars

-----------------------------------------------------------------------------
(* Properties                                                              *)

TypeOK ==
  /\ engine \in Engines
  /\ pc \in [Nodes -> {"configure", "setup", "rsync", "start", "exit", "done"}]
  /\ \A n \in Nodes : pc[n] = "setup" => widx[n] \in 1..Len(Work)
  /\ started \in [Nodes -> BOOLEAN]
  /\ error \in [Nodes -> {"none", "configure", "setup", "rsync"}]
  /\ runs \in [Nodes -> 1..MaxRuns]
  /\ db \in [ToSet(DbNames) -> [exists : BOOLEAN, applied : Seq(STRING)]]

Provisioned(d) == db[d].exists /\ ToSet(DB_SETUP(d)) \subseteq ToSet(db[d].applied)

\* When the master's main() starts the product, every returned database
\* exists and holds its scripts, also on a rerun against a database server
\* an earlier, failed run left half set up.
MasterStartsProvisioned ==
  pc[Master] = "exit" /\ error[Master] = "none" =>
    \A d \in ToSet(DbNames) : Provisioned(d)

\* A slave starts its product only against a database server the master
\* has set up (spec: the master alone executes schema setup; no partial
\* cluster state).
SlaveStartsOnProvisionedDb ==
  \A n \in Nodes \ {Master} :
    started[n] => \A d \in ToSet(DbNames) : Provisioned(d)

=============================================================================
