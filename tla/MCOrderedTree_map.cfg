SPECIFICATION OSpec
CONSTANTS
  LeafSize = 2
  InternalSize = 4
  MaxDepth = 3
  Transients = {t1}
  Persistents = {}
  Values = {2, 4, 5, 6, 8, 10, 12}
  Operations = {"insert_v", "insert_or_assign", "assign", "update", "erase", "pop_back"}
  ObjectCalls = {"clear"}
  MaxNodes = 16
  MaxSize = 6
  SumBits = 3
  Jumps <- BackAndOn
  KeyOf <- Half
  SumOf <- Scrambled
  MinOf <- Scrambled
  Updater <- Other
VIEW OrderedView
INVARIANTS
  KeysGuide
  KeysAscend
  SearchesFind
  IndexFinds
  IndexedMovesExact
  DistancesExact
  SumsRight
  MinsRight
PROPERTY ImplementsKeyedMap
