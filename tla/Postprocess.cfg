SPECIFICATION Spec
CONSTANTS
  InputSize = 4
  OriginalWidth = 6
  OriginalHeight = 5
  NumClasses = 2
  NumDetections = 2
  Thresholds = {0, 2}
  Scores = {0, 2, 3}
  Tensors <- MCTensors
INVARIANTS
  TypeOK
  DetectionsGenuine
  NoneMissed
  OutsideOnlyUnscored
  BoxesInFrame
