SPECIFICATION FairSpec
CONSTANTS
    Node <- MCNode
    IdLists <- DistinctIdLists
    EdgeLists <- RequestEdgeLists
INVARIANTS
    ParentsFirst
    InputsAreFinal
    SortInv
    VerdictMatchesNodes
    TraceIsBracketed
PROPERTIES
    RunReturns
    ImplementsDag
\* run() returns and the task ends.
CHECK_DEADLOCK FALSE
