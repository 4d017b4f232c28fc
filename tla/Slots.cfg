SPECIFICATION Spec
CONSTANTS
  MaxCap = 6
  PanicAt = {"sep_key", "new_sep", "key", "removed_key", "slots"}
INVARIANTS
  TypeOK
  MovesInArrays
  NothingLost
  OwnedOnce
  SlotsHoldResult
CHECK_DEADLOCK FALSE
