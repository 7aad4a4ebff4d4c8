\* the throttling URL groups of an eleven-node cluster.
CONSTANTS
    Offsets <- MCOffsets
    NodeCounts <- MCNodeCountsLarge
    MaxRuns <- MCSingleRun

SPECIFICATION Spec

INVARIANT ThrottlingGroupsListCluster

\* The last invocation ends the process: its final state has no successor.
CHECK_DEADLOCK FALSE
