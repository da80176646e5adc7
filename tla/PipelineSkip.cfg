SPECIFICATION BuffersSpec
CONSTANTS
  FrameSlots = 2
  ResultSlots = 2
  MaxRetries = 0
  FrameSkip = 2
  MaxFrames = 3
  MaxResults = 3
INVARIANTS
  TypeOK
  AbortsOnlyOvertaken
  InputMatchesFrame
  SkipRatio
  StatsComplete
  OneHolder
