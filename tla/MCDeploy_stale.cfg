\* SNAPSHOT runs with an archive of the same name already in storage.
CONSTANTS
    TestModes <- MCTestModes
    DbEngines <- MCReportingEngines
    OsNames <- MCOsNames
    Products <- MCProducts
    OtherPorts <- MCStandardPortsOnly
    MasterDsContents <- MCMasterDsShipped

SPECIFICATION Spec

INVARIANT SnapshotRunsLatestStable

\* main() returns and the process ends: the final state has no successor.
CHECK_DEADLOCK FALSE
