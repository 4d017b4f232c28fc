SPECIFICATION ResumingSpec
CONSTANTS
  N = 4
  Blocks = 8
  MaxLost = 8
  Key <- Keys1toN
  Val = {v1}
  None = None
  Node <- Pool
  Null = Null
  LeafCap = 1
  BranchCap = 1
  MayFail = TRUE
  Ops = {"insert", "remove", "clear"}
VIEW
  Sighted
INVARIANTS
  ChainThreadsTree
PROPERTIES
  SeenChangesAsMap
  LostAtPanicsOnly
CHECK_DEADLOCK FALSE
