\* Two of three queues, a vector and a map at a time; a table of three slots, vectors
\* that grow, rings that wrap, keys that collide.
SPECIFICATION Spec
CHECK_DEADLOCK FALSE
CONSTANTS
  Kinds = {"vec", "queue", "map"}
  Values = {0, 1}
  Keys <- Colliding
  InitialSlots = 3
  InitialCap = 2
  Buckets = 2
  IntRange = 4
  MaxHandles <- ThreeQueues
  MaxLen <- QueuesFit
  MaxLive = 2
  Null = Null
INVARIANTS
  TypeOK
  FewHandlesFit
PROPERTIES
  ImplementsCollections
