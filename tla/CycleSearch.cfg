\* Every graph of three nodes with up to two dependencies each, unresolved
\* names, repeated names and self-dependencies included.
SPECIFICATION FairSpec
CONSTANTS
    N = 3
    MaxDeps = 2
    Graphs <- MCGraphs
INVARIANTS
    SilenceMeansOrder
    ErrorMeansCycle
PROPERTY
    SearchEnds
\* The search stops when every node has been visited.
CHECK_DEADLOCK FALSE
