------------------------------ MODULE MCCluster ------------------------------
(* Cluster for TLC: a master and two slaves, product-apim's databases      *)
(* with and without schema scripts.                                        *)
EXTENDS Cluster

MCNodes == {"n1", "n2", "n3"}
MCMaster == "n1"

\* A database with a script list and one (WSO2AM_STATS_DB) without.
MCDbNames == <<"WSO2AM_DB", "WSO2AM_STATS_DB", "WSO2UM_DB">>

MCReporting == {"MYSQL"}
MCAllEngines == {"MYSQL", "SQLSERVER-SE"}

\* One rerun of deploy.py per node.
MCMaxRuns == 2

=============================================================================
