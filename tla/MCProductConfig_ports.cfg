\* the ports written for a large Offset.
CONSTANTS
    Offsets <- MCOffsetsLarge
    NodeCounts <- MCNodeCounts
    MaxRuns <- MCSingleRun

SPECIFICATION Spec

INVARIANT PortsInRange

\* The last invocation ends the process: its final state has no successor.
CHECK_DEADLOCK FALSE
