SPECIFICATION MSpec
CONSTANTS
  LeafSize = 2
  InternalSize = 4
  MaxDepth = 3
  Transients = {t1}
  Persistents = {}
  Values = {1, 4}
  Operations = {"insert", "pop_back"}
  ObjectCalls = {}
  MaxNodes = 20
  MaxSize = 3
  SumBits = 3
  KeyOf <- Half
  SumOf <- Same
  MinOf <- Same
VIEW MixinsView
INVARIANT MinIsMin
