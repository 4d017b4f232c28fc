SPECIFICATION Spec
CONSTANTS
  N = 8
  Blocks = 16
  Key <- Keys1toN
  Val = {v1}
  None = None
  Node <- Pool
  Null = Null
  LeafCap = 2
  BranchCap = 1
  MayFail = FALSE
  Ops = {"insert", "remove"}
VIEW Canonical
INVARIANTS
  MergesFit
CHECK_DEADLOCK FALSE
