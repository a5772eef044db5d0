SPECIFICATION Spec
CONSTANTS
    LeafCap = 2
    NodeCap = 2
    HeapWidth = 2
    HeapStart = 8
    HeapMaxDirect = 16
    BlockPrefix = 2
    MaxManaged = 6
    Align = 4
    MaxMessage = 11
    AttrFixed = 2
    Name = {1, 2, 3, 4, 5, 7, 8, 9, 10}
    NewName = 6
    SoftTarget = 2
    Hash <- MCHash
    LinkSize <- MCLinkSize
    DenseAbove = 2
    Graphs <- MCGraphs
    Foreign <- MCForeign
    MaxSaves = 2
INVARIANTS
    Faithful
    RefusedIffObstructed
    GroupsSearchable
    ArenaExact
PROPERTIES
    Ends
CHECK_DEADLOCK FALSE
