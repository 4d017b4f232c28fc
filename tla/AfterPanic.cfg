SPECIFICATION ResumingSpec
CONSTANTS
  N = 5
  Blocks = 7
  MaxLost = 3
  Key <- Keys1toN
  Val = {v1}
  None = None
  Node <- Pool
  Null = Null
  LeafCap = 2
  BranchCap = 2
  MayFail = TRUE
  Ops = {"insert", "remove"}
VIEW
  Sighted
INVARIANTS
  NoDangling
  TreeStaysValid
  ChainThreadsTree
PROPERTIES
  SeenChangesAsMap
  LostAtPanicsOnly
CHECK_DEADLOCK FALSE
