SPECIFICATION Spec
CONSTANTS
  Process = { p1 }
  RepairLimit = 1
  MaxEpochs = 3
INVARIANTS OneGrantPerEpoch BudgetIsExact ActiveEpochIsCurrent
PROPERTIES OutcomesStay
CHECK_DEADLOCK FALSE
