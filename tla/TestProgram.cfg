\* 9102 files of up to three items, and a test for each of 7344 expressions.
SPECIFICATION SpecTest
CONSTANTS
  Sources <- AnySource
  Imported <- AnyModule
  MaxLong = 100
  X = 2
  IntRange = 16
  ExitRange = 4
CHECK_DEADLOCK FALSE
INVARIANTS
  TypeOKTest
  LossIsLocal
  PassIsEarned
  FailHasACause
  EmittedIsWorthTheSource
PROPERTIES
  EveryFileIsDecided
