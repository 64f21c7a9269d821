\* Import graphs over three modules, one missing name, one or two directories;
\* an error in the main file, in one of its modules, in both or in none; and
\* one fault at most that ends the compiler, in the main file or in a module.
SPECIFICATION Spec
CONSTANTS
  main = main
  a = a
  b = b
  c = c
  none = none
  Files <- AllFiles
  Root = main
  Missing = none
  Graphs <- AnyGraph
  Layouts <- OneOrTwoDirs
  Defines <- OwnFunctions
  Broken = {main, a}
  Faults <- OneFault
  MaxHops = 3
CHECK_DEADLOCK FALSE
INVARIANTS
  TypeOK
  CleanExitIsComplete
  NoDoubleDefinition
  ParsedOnce
PROPERTIES
  Terminates
