SPECIFICATION FairSpec
CONSTANTS
  Depth = 2
  MaxRetries = 1
  FrameSkip = 2
  MaxSignals = 1
INVARIANT
  TypeOK
PROPERTIES
  StopsForAReason
  SignalEnds
  KeyEnds
  KeepsShowing
CHECK_DEADLOCK FALSE
