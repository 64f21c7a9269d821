\* Three processes at one package; 3 is a version nobody offers.
SPECIFICATION Spec
CONSTANTS
  p1 = p1
  p2 = p2
  p3 = p3
  Procs <- ThreeProcs
  Names = {"json", "yaml"}
  Registry <- SmallRegistry
  Asked = {0, 1, 3}
  Faults = {"kill"}
SYMMETRY ProcSymmetry
INVARIANTS
  TypeOK
  HalfDoneHasACause
PROPERTIES
  SoleCommandTakesEffect
