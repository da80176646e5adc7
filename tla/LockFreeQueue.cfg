SPECIFICATION FairSpec
CONSTANTS
  BufferCapacity = 3
  MaxItems = 5
INVARIANTS
  TypeOK
  FifoWindow
  SlotsNotShared
  Fresh
PROPERTIES
  ImplementsFifo
  NulloptEmptyOrFull
  HoldsWhatIsPut
  NoItemStuck
