\* deploy.py main() on one node, every engine, the standard database port.
CONSTANTS
    TestModes <- MCTestModes
    DbEngines <- MCAllEngines
    OsNames <- MCOsNames
    Products <- MCProducts
    OtherPorts <- MCStandardPortsOnly
    MasterDsContents <- MCMasterDsShipped

SPECIFICATION Spec

INVARIANT TypeOK
INVARIANT ProvisionedBeforeStart
INVARIANT ReleaseModesRunTaggedDist

\* main() returns and the process ends: the final state has no successor.
CHECK_DEADLOCK FALSE
