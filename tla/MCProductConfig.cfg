\* configure_product's values over repeated invocations in one workspace.
CONSTANTS
    Offsets <- MCOffsets
    NodeCounts <- MCNodeCounts
    MaxRuns <- MCRepeatedRun

SPECIFICATION Spec

INVARIANT TypeOK
INVARIANT ThrottlingGroupsListCluster
INVARIANT JndiBrokerPortOffset
INVARIANT AddressesAgree
INVARIANT HostElementsOnce
INVARIANT RsyncCommandsOncePerPeerDir

\* The last invocation ends the process: its final state has no successor.
CHECK_DEADLOCK FALSE
