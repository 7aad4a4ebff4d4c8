\* A cluster of a master and two slaves with MySQL, each node's main()
\* run up to twice against one database server.
CONSTANTS
    Nodes <- MCNodes
    Master <- MCMaster
    Engines <- MCReporting
    DbNames <- MCDbNames
    MaxRuns <- MCMaxRuns
SPECIFICATION Spec
INVARIANT TypeOK
INVARIANT MasterStartsProvisioned
\* Every main() returns and reruns are bounded: the cluster stops.
CHECK_DEADLOCK FALSE
