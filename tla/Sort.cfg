\* Every graph on three nodes.
SPECIFICATION FairSpec
CONSTANTS
    Node = {"a", "b", "c"}
INVARIANTS
    SortedIffAcyclic
    BatchesPartition
PROPERTIES
    BatchIsReady
    Terminates
\* The function returns.
CHECK_DEADLOCK FALSE
