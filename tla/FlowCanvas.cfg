SPECIFICATION CanvasSpec
CONSTANTS
    a = a
    b = b
    x = x
    y = y
    DocNode <- MCDocNode
    FreshNode <- MCFreshNode
    Doc <- MCDoc
    MaxEdges = 2
INVARIANTS
    DanglesOnlyByInsert
    NewNodesAreApart
    EntriesReachAll
PROPERTY
    InsertKeepsOrder
