SPECIFICATION FairSpec
CONSTANTS
  MaxBills = 2
  MaxFaults = 2
INVARIANTS TypeOK OneOnBus EveryBillOnce
PROPERTIES CountedIsCredited PollGoesOn
