SPECIFICATION Spec
CONSTANTS
  PtrSize = 8
  MaxLen = 65535
  MaxCapacity = 0
  MaxBudget = 0
  LineBytes = 64
  MaxBytes = 100000000
  Lines = {}
  Types <- OneType
  Capacities <- U16Edge
  Budgets = {}
  None = None
INVARIANTS
  CapacityAtLeastFour
CHECK_DEADLOCK FALSE
