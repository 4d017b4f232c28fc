SPECIFICATION Spec
CONSTANTS
  N = 8
  Blocks = 16
  Key <- Keys1toN
  Val = {v1}
  None = None
  Node <- Pool
  Null = Null
  LeafCap = 2
  BranchCap = 2
  MayFail = FALSE
  Ops = {"insert", "remove"}
VIEW Canonical
INVARIANTS
  TypeOK
  ValidBetweenCalls
  Balanced
  ChainInOrder
  BlocksRespected
  MergesFit
  NoDangling
  NothingLeaks
PROPERTIES
  StepsAreMapSteps
