CONSTANTS
  Name = {"x", "f"}
  NoName = "unnamed"
  MaxLiteral = 7
SPECIFICATION Spec
INVARIANT ParametersAreNames
CHECK_DEADLOCK FALSE
