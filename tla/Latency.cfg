SPECIFICATION Spec
CONSTANTS
  EpochOffset = 1000
  IntMax = 127
  MaxClock = 8
  MaxFrames = 4
INVARIANTS
  PercentilesRanked
  NoTimeCountedTwice
