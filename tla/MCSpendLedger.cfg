SPECIFICATION Spec
CONSTANTS
  c1 = c1
  c2 = c2
  c3 = c3
  Attempts <- MCAttempts
  Cap = 5
  Ceiling = 2
  MaxFaults = 2
  MaxCrashes = 2
SYMMETRY MCSymmetry
INVARIANTS
  BudgetHolds
  BillsAreCharged
CHECK_DEADLOCK FALSE
