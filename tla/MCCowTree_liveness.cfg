SPECIFICATION FairSpec
CONSTANTS
  LeafSize = 2
  InternalSize = 4
  MaxDepth = 3
  Transients = {t1}
  Persistents = {p1}
  Values = {v}
  Operations = {"insert", "update", "erase", "pop_back"}
  ObjectCalls = {"clear", "drop"}
  MaxNodes = 24
  MaxSize = 7
VIEW CanonicalView
PROPERTY CallsEnd
