SPECIFICATION Spec
CONSTANTS
  FrameSlots = 2
  ResultSlots = 2
  MaxRetries = 0
  FrameSkip = 1
  MaxFrames = 3
  MaxResults = 5
INVARIANT
  OriginalFrame
