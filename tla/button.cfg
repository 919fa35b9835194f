SPECIFICATION Spec
CONSTANTS
  HopperCost = 3
  CoinPerPulse = 1
  BankPerPulse = 2
  Nominals = {5}
  ButtonStart = TRUE
  Cube = FALSE
  SaveCredit = FALSE
  IgnoreHopperErrors = TRUE
  QueueLen = 3
  Faults = {"hopper","index"}
  MaxPending = 1
  MaxMoney = 7
  MaxLosses = 1
INVARIANTS CoinOutCoversTokens TokensPaidFor
CHECK_DEADLOCK FALSE
