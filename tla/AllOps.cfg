SPECIFICATION Spec
CONSTANTS
  N = 4
  Blocks = 10
  Key <- Keys1toN
  Val = {v1, v2}
  None = None
  Node <- Pool
  Null = Null
  LeafCap = 1
  BranchCap = 1
  MayFail = FALSE
  Ops = {"insert", "remove", "get", "get_mut", "clear", "drop"}
INVARIANTS
  NoDangling
  NothingLeaks
  LookupsMeetChain
PROPERTIES
  ImplementsOrderedMap
CHECK_DEADLOCK FALSE
