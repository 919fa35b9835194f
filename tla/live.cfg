SPECIFICATION FairSpec
CONSTANTS
  HopperCost = 2
  CoinPerPulse = 1
  BankPerPulse = 2
  Nominals = {2}
  ButtonStart = TRUE
  Cube = FALSE
  SaveCredit = FALSE
  IgnoreHopperErrors = FALSE
  QueueLen = 16
  Faults = {"nomoney"}
  MaxPending = 1
  MaxMoney = 3
  MaxLosses = 1
PROPERTIES PressServed MoneyTakenAgain BooksKept
CHECK_DEADLOCK FALSE
