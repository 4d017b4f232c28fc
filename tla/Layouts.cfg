SPECIFICATION Spec
CONSTANTS
  PtrSize = 8
  MaxLen = 7
  MaxCapacity = 20
  MaxBudget = 160
  LineBytes = 16
  MaxBytes = 500
  Lines <- SomeLines
  Types <- SomeTypes
  Capacities <- UpToMaxCapacity
  Budgets <- UpToMaxBudget
  None = None
INVARIANTS
  TypeOK
  LeavesCarved
  BranchesCarved
  BudgetsWellSpent
  BudgetOfCapSuffices
CHECK_DEADLOCK FALSE
