SPECIFICATION VSpec
CONSTANTS
  LeafSize = 1
  InternalSize = 4
  MaxDepth = 3
  Transients = {t1}
  Persistents = {p1}
  Values = {1}
  Operations = {"insert", "erase"}
  ObjectCalls = {"persist"}
  MaxNodes = 20
  MaxSize = 5
  SumBits = 3
  KeyOf <- Half
  SumOf <- Same
  MinOf <- Same
VIEW VersionsView
INVARIANTS
  TypeOK
  RefExact
  NodeShape
  StackIsPath
  CountsExact
PROPERTIES
  MetaFrozen
  ImplementsVersionedSeq
