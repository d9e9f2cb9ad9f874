SPECIFICATION BudgetSpec
CONSTANTS
  t1 = t1
  t2 = t2
  t3 = t3
  Tasks <- MCTasks
  CapChoices = {0, 1, 3, 5}
  Sizes = {1, 2, 3}
SYMMETRY MCSymmetry
INVARIANTS
  BudgetTypeOK
  UsedIsGranted
  CapHolds
  LateCallsRefused
  LimitAnnouncedOnce
