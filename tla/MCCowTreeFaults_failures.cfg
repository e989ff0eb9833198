SPECIFICATION FSpec
CONSTANTS
  LeafSize = 1
  InternalSize = 4
  MaxDepth = 2
  Transients = {t1}
  Persistents = {p1}
  Values = {v}
  Operations = {"insert", "update", "erase"}
  ObjectCalls = {"clear", "persist", "persist_move", "thaw", "thaw_move", "copy", "drop"}
  MaxNodes = 20
  MaxSize = 4
  MaxDrift = 1
VIEW CanonicalView
INVARIANTS
  RefExact
  MutableIsExclusive
  NodeShape
PROPERTIES
  PersistentFrozen
  CallsEnd
