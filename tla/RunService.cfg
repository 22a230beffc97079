SPECIFICATION FairServiceSpec
CONSTANTS
    c1 = c1
    Node <- MCNode
    IdLists <- MCIdLists
    EdgeLists <- ChainOrCycleEdgeLists
    Client <- MCClient
    QueueMax = 2
    HistoryMax = 3
    MaxLostSaves = 1
    MaxDeletes = 1
    MayCrash = TRUE
INVARIANTS
    RecordIsHonest
    FinalRecordIsTheResult
    SnapshotMatchesEvents
    RunEndComesLast
    StreamHasNoGap
PROPERTIES
    ResultsSurvive
    RunEnds
    StreamsEnd
\* The run is over, and its clients have gone.
CHECK_DEADLOCK FALSE
