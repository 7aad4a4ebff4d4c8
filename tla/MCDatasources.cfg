\* modify_datasources against the spec's datasource rewrite.
CONSTANTS
    Engines <- MCEngines
    DsPaths <- MCDsPaths
    Layouts <- MCLayouts
    MaxRuns <- MCMaxRuns
SPECIFICATION Spec
INVARIANT TypeOK
INVARIANT MasterDatasourcesExtendedOnce
PROPERTY ImplementsPromise
\* The last run returns: its final state has no successor.
CHECK_DEADLOCK FALSE
