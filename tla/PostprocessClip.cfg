SPECIFICATION Spec
CONSTANTS
  InputSize = 4
  OriginalWidth = 6
  OriginalHeight = 5
  NumClasses = 2
  NumDetections = 2
  Thresholds = {2}
  Scores = {1, 2, 3}
  Tensors <- MCTensors
INVARIANT
  ClippedToImage
