SPECIFICATION FairSpec
CONSTANTS
  Pulse = 3
  Span = 1
  Pause = 2
  Silence = 4
  MaxPulses = 4
  MaxQueued = 2
INVARIANTS TypeOK EveryPulseOnce
PROPERTIES CountedIsFetched
