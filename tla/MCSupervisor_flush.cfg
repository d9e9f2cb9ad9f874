SPECIFICATION SupervisorSpec
CONSTANTS
  l1 = l1
  l2 = l2
  l3 = l3
  Listeners <- MCListeners
INVARIANTS
  CtrlCFlushes
