\* One queue that is pushed to once more than its first buffer holds.
SPECIFICATION Spec
CONSTANTS
  Kinds = {"queue"}
  Values = {0, 1}
  Keys = {}
  InitialSlots = 64
  InitialCap = 2
  Buckets = 2
  IntRange = 4
  MaxHandles <- OneEach
  MaxLen <- QueuesGrow
  MaxLive = 2
  Null = Null
PROPERTIES
  ImplementsCollections
