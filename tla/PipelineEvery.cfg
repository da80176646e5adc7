SPECIFICATION FairSpec
CONSTANTS
  FrameSlots = 2
  ResultSlots = 2
  MaxRetries = 1
  FrameSkip = 1
  MaxFrames = 2
  MaxResults = 2
INVARIANTS
  ResultsInOrder
PROPERTIES
  ShownInOrder
  ShutdownCompletes
  CameraLossEnds
