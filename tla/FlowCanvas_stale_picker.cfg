SPECIFICATION CanvasSpec
CONSTANTS
    a = a
    b = b
    x = x
    y = y
    DocNode <- MCDocNode
    FreshNode <- MCFreshNode
    Doc <- MCDoc
    MaxEdges = 2
INVARIANT EdgesJoinNodes
CHECK_DEADLOCK FALSE
