\* Five statements, three blocks deep, two variables of two types, one of
\* which has a name that begins with "_".
SPECIFICATION Spec
CONSTANTS
  Names = {"x", "_x"}
  Underscored = {"_x"}
  EnumValues = {}
  Types = {"int", "string"}
  EnumType = "int"
  Leaves = {"plain", "return", "proc_exit", "break", "continue", "let"}
  Openers = {"if", "while", "for", "do", "until", "switch"}
  Features = {}
  MaxStatements = 5
  MaxDepth = 3
INVARIANTS
  TypeOK
  EmittedMeansSource
  InferredTypeIsDeclared
