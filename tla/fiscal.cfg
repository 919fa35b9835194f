SPECIFICATION FairSpec
CONSTANTS
  Settings <- MCSettings
  MaxSales = 2
  MaxPayments = 1
  MaxFaults = 2
INVARIANTS TypeOK OneBillOneSale LockGivenBack RecordMeansBill
PROPERTIES EveryStepCounts ServerReturns ErrorsClear
