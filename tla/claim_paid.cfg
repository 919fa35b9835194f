SPECIFICATION Spec
CONSTANTS
  HopperCost = 2
  CoinPerPulse = 1
  BankPerPulse = 2
  Nominals = {2}
  ButtonStart = TRUE
  Cube = FALSE
  SaveCredit = FALSE
  IgnoreHopperErrors = FALSE
  QueueLen = 16
  Faults = {"hopper"}
  MaxPending = 1
  MaxMoney = 3
  MaxLosses = 0
INVARIANTS TokensOnlyForMoney
CHECK_DEADLOCK FALSE
