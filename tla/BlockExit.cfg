\* An exit inside an if, as the examples of the documentation have it.
SPECIFICATION Spec
CONSTANTS
  Names = {}
  Underscored = {}
  EnumValues = {}
  Types = {"int"}
  EnumType = "int"
  Leaves = {"plain", "proc_exit"}
  Openers = {"if"}
  Features = {"nested_exit"}
  MaxStatements = 3
  MaxDepth = 2
INVARIANTS
  EmittedMeansSource
