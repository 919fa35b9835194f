SPECIFICATION FairSpec
CONSTANTS
  N = 2
  MaxClock = 2
  MaxWritten = 4
  MaxFaults = 1
INVARIANTS TypeOK NoErrorForgotten
PROPERTIES OldestGoesFirst EnteredOnce ErrorEntered
CHECK_DEADLOCK FALSE
