SPECIFICATION Spec
CONSTANTS
  LeafSize = 4
  InternalSize = 4
  Values = {v}
  Calls = {"insert", "pop_back"}
INVARIANT NoneAboveLength
