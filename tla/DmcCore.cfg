\* Table of 1, 2 and then 3 slots: growth is doubled once and clamped once.
SPECIFICATION Spec
CONSTANTS
  DMC_MIN_HANDLES = 1
  DMC_MAX_HANDLES = 3
  DMC_MEM_MAX_SIZE = 2
  Sizes = {0, 1, 2, 3}
  Byte = {0, 1}
  a1 = a1
  a2 = a2
  a3 = a3
  Addr <- ThreeAddr
  Null = Null
  Failed = 9
  NoOut = NoOut
SYMMETRY AddrSymmetry3
INVARIANTS
  TypeOK
  OwnedExactlyOnce
PROPERTIES
  DeadHandleStaysDead
  ImplementsResourceTable
