\* Two processes and an editor; one process on 426 texts.
SPECIFICATION MCSpec
CONSTANTS
  p1 = p1
  p2 = p2
  Procs <- TwoProcs
  Starts <- AnyText
  Edits <- Plain
  Faults = {"kill", "full"}
  MaxBegun = 3
SYMMETRY ProcSymmetry
CHECK_DEADLOCK FALSE
INVARIANTS
  TypeOK
  SourcesSurvive
  ProjectIsWhole
  LeftoverHasACause
PROPERTIES
  SoleCommandTakesEffect
