SPECIFICATION EditorSpec
CONSTANTS
    a = a
    x = x
    NoNode = NoNode
    DocNode <- MCDocNode
    FreshNode <- MCFreshNode
    Doc <- MCDoc
    Schema <- MCSchema
    MaxEdits = 2
INVARIANTS
    CrossesOnlyByTrace
    EditsAreTimed
PROPERTY
    OpenDrawerKeepsItsNode
    EditsLand
