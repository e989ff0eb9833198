SPECIFICATION ISpec
CONSTANTS
  LeafSize = 2
  InternalSize = 4
  MaxDepth = 2
  Transients = {t1}
  Persistents = {}
  Values = {v}
  Operations = {"insert"}
  ObjectCalls = {}
  MaxNodes = 4
  MaxSize = 2
  Jumps <- OneBackOrOn
VIEW CursorView
INVARIANT ReverseLessIrreflexive
