SPECIFICATION Spec
CONSTANTS
  InputSize = 4
  OriginalWidth = 6
  OriginalHeight = 5
  NumClasses = 2
  NumDetections = 2
  Threshold = 2
  Scores = {1, 2, 3}
  Tensors <- MCTensors
INVARIANTS
  TensorIsPicture
  AgreesWithCamera
  FileIsGenuine
