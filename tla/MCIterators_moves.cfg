CONSTANTS
    LeafSize = 2
    InternalSize = 4
    Transients = {t1}
    Persistents = {}
    Values = {v1}
    MaxDepth = 3
    Operations = {"insert", "erase", "assign", "pop_back"}
    ObjectCalls = {}
    MaxNodes = 16
    MaxSize = 7
    Jumps <- UpToThree
SPECIFICATION ISpec
VIEW CursorView
INVARIANTS
    WordNamesSpot
    FreshLeafIsCurrent
    ComparisonIsOrder
    IndexesApart
