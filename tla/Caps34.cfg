SPECIFICATION Spec
CONSTANTS
  N = 9
  Blocks = 14
  Key <- Keys1toN
  Val = {v1}
  None = None
  Node <- Pool
  Null = Null
  LeafCap = 3
  BranchCap = 4
  MayFail = FALSE
  Ops = {"insert", "remove"}
VIEW Canonical
INVARIANTS
  WellFilled

