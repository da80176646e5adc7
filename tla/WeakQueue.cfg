SPECIFICATION Spec
CONSTANTS
  BufferCapacity = 3
  MaxItems = 4
  MaxTakes = 3
INVARIANTS
  RaceNeedsDrop
PROPERTY
  ImplementsFifo
