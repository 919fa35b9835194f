SPECIFICATION StuckSpec
CONSTANTS
  HopperCost = 2
  CoinPerPulse = 1
  BankPerPulse = 3
  Nominals = {3}
  ButtonStart = FALSE
  Cube = TRUE
  SaveCredit = TRUE
  IgnoreHopperErrors = FALSE
  QueueLen = 16
  Faults = {"motor","validator"}
  MaxPending = 1
  MaxMoney = 3
  MaxLosses = 0
INVARIANTS TypeOK MoneyLedger MotorHasGoal
PROPERTIES StuckMotorStops
CHECK_DEADLOCK FALSE
