SPECIFICATION FairServiceSpec
CONSTANTS
    c1 = c1
    Node <- MCNode
    IdLists <- MCIdLists
    EdgeLists <- ChainEdgeLists
    Client <- MCClient
    QueueMax = 8
    HistoryMax = 8
    MaxLostSaves = 0
    MaxDeletes = 0
    MayCrash = FALSE
PROPERTY
    ShownResultsStay
CHECK_DEADLOCK FALSE
