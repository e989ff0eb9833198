SPECIFICATION HSpec
CONSTANTS
  LeafSize = 1
  InternalSize = 4
  MaxDepth = 4
  Transients = {t1}
  Persistents = {p1, p2}
  Values = {v, w}
  Operations = {"insert", "assign", "update", "erase", "pop_back"}
  ObjectCalls = {"clear", "persist", "persist_move", "thaw", "thaw_move", "copy", "drop"}
  MaxNodes = 16
  MaxSize = 2
VIEW HistoryView
INVARIANTS
  SizeIsCount
PROPERTY ImplementsVersionedSeq
