\* What the smoke program expects of dmc_mem_free.
SPECIFICATION Spec
CONSTANTS
  DMC_MIN_HANDLES = 1
  DMC_MAX_HANDLES = 2
  DMC_MEM_MAX_SIZE = 1
  Sizes = {0, 1, 2}
  Byte = {0, 1}
  a1 = a1
  a2 = a2
  a3 = a3
  Addr <- TwoAddr
  Null = Null
  Failed = 9
  NoOut = NoOut
PROPERTY MemFreeReportsSuccess
