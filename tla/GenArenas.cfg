\* All five kinds on one counter; fixed tables of three entries, handles up to 3.
SPECIFICATION SpecAll
CONSTANTS
  InitialSlots = 2
  MaxSize = 1
  Sizes <- SomeSizes
  Byte = {0}
  Faults = {"half", "misuse", "regex_first", "table", "overflow"}
  MaxHandles = 3
  NoOut = NoOut
  FixedSlots = 3
  MaxLong = 2
CHECK_DEADLOCK FALSE
INVARIANTS
  TypeOKAll
  AccessesAreSound
  OneOwnerAll
  BlocksDisjoint
PROPERTIES
  DeadHandleStaysDeadAll
