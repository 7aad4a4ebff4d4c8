\* setup_databases with sqlcmd / sqlplus, whose failures are not checked.
CONSTANTS
    TestModes <- MCTestModes
    DbEngines <- MCClientEngines
    OsNames <- MCOsNames
    Products <- MCProducts
    OtherPorts <- MCStandardPortsOnly
    MasterDsContents <- MCMasterDsShipped

SPECIFICATION Spec

INVARIANT MasterStartsProvisioned

\* main() returns and the process ends: the final state has no successor.
CHECK_DEADLOCK FALSE
