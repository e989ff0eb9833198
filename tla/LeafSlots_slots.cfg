SPECIFICATION Spec
CONSTANTS
  LeafSize = 4
  InternalSize = 4
  Values = {v, w}
  Calls = {"insert", "assign", "erase", "pop_back"}
INVARIANTS
  SlotsRespected
  LengthDivides
  LoopsMatchNodeOps
  ArgumentIntact
PROPERTY PersistentUntouched
