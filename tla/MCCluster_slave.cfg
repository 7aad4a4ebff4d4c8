\* Slaves start independently of the master's setup_databases.
CONSTANTS
    Nodes <- MCNodes
    Master <- MCMaster
    Engines <- MCAllEngines
    DbNames <- MCDbNames
    MaxRuns <- MCMaxRuns
SPECIFICATION Spec
INVARIANT SlaveStartsOnProvisionedDb
\* Every main() returns and reruns are bounded: the cluster stops.
CHECK_DEADLOCK FALSE
