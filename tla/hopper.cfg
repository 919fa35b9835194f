SPECIFICATION FairSpec
CONSTANTS
  QueueLen = 3
  MaxGoal = 3
  MaxCount = 3
INVARIANT TypeOK
PROPERTIES NeverShort MotorStops
