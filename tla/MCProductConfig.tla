--------------------------- MODULE MCProductConfig ---------------------------
(* Instantiation of ProductConfig for TLC.                                 *)
EXTENDS ProductConfig

\* Offset 0, a small offset, and 10000, whose broker port 15672 still
\* contains the text "5672".
MCOffsets == {0, 1, 10000}

\* An offset that puts 9711 + Offset past the largest port, 65535.
MCOffsetsLarge == {60000}

\* Clusters the address formula handles, and the first it does not.
MCNodeCounts == {1, 2, 3, 4}
MCNodeCountsLarge == {11}

\* One invocation, and one repeated invocation in the same workspace.
MCSingleRun == 1
MCRepeatedRun == 2

=============================================================================
