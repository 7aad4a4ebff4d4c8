\* MySQL listening on a DBPort other than 3306.
CONSTANTS
    TestModes <- MCTestModes
    DbEngines <- MCMySql
    OsNames <- MCOsNames
    Products <- MCProducts
    OtherPorts <- MCOtherPorts
    MasterDsContents <- MCMasterDsShipped

SPECIFICATION Spec

INVARIANT ProvisionedBeforeStart

\* main() returns and the process ends: the final state has no successor.
CHECK_DEADLOCK FALSE
