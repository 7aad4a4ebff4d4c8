\* configure_product on a master-datasources.xml that already declares WSO2UM_DB.
CONSTANTS
    TestModes <- MCTestModes
    DbEngines <- MCReportingEngines
    OsNames <- MCOsNames
    Products <- MCProducts
    OtherPorts <- MCStandardPortsOnly
    MasterDsContents <- MCMasterDsWithUm

SPECIFICATION Spec

INVARIANT DbNamesUnique

\* main() returns and the process ends: the final state has no successor.
CHECK_DEADLOCK FALSE
