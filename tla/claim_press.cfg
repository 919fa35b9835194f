SPECIFICATION FairSpec
CONSTANTS
  HopperCost = 2
  CoinPerPulse = 1
  BankPerPulse = 2
  Nominals = {2}
  ButtonStart = TRUE
  Cube = FALSE
  SaveCredit = TRUE
  IgnoreHopperErrors = FALSE
  QueueLen = 16
  Faults = {}
  MaxPending = 1
  MaxMoney = 2
  MaxLosses = 0
PROPERTY PressServed
CHECK_DEADLOCK FALSE
