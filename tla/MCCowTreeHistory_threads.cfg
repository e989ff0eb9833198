SPECIFICATION HSpec
CONSTANTS
  LeafSize = 1
  InternalSize = 4
  MaxDepth = 4
  Transients = {t1, t2}
  Persistents = {p1}
  Values = {v}
  Operations = {"insert", "erase"}
  ObjectCalls = {"clear", "persist", "persist_move", "thaw", "thaw_move", "copy", "drop"}
  MaxNodes = 18
  MaxSize = 2
VIEW HistoryView
INVARIANTS
  RefExact
  MutableIsExclusive
  PersistentBelow
PROPERTIES
  ImplementsVersionedSeq
  ImplementsAtomicSeq
