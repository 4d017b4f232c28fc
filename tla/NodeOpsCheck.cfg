SPECIFICATION Spec
CONSTANTS
  MaxLen = 12
INVARIANTS
  RankParts
  LeafSplits
  BranchSplits
CHECK_DEADLOCK FALSE
