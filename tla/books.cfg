SPECIFICATION Spec
CONSTANTS
  HopperCost = 2
  MaxCredit = 2
  MaxHandlers = 4
  MaxLosses = 2
  Torn = Torn
CHECK_DEADLOCK FALSE
INVARIANTS TypeOK LinesSurvive BooksDrift
