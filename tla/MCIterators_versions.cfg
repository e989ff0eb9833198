SPECIFICATION ISpec
CONSTANTS
  LeafSize = 1
  InternalSize = 4
  MaxDepth = 3
  Transients = {t1}
  Persistents = {p1}
  Values = {v}
  Operations = {"insert", "erase", "update", "pop_back"}
  ObjectCalls = {"clear", "persist", "thaw", "thaw_move", "persist_move", "drop"}
  MaxNodes = 14
  MaxSize = 3
  Jumps <- OneBackOrOn
VIEW CursorView
INVARIANTS
  WordNamesSpot
  FreshLeafIsCurrent
