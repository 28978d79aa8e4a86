CONSTANTS
  Name = {"x", "f"}
  NoName = "unnamed"
  Node <- Nodes
  Program <- Programs
  Parsed <- Parses
  CommandLines <- Lines
  Absent = Absent
  Width = 3
  MaxLiteral = 3
  MaxDepth = 4
  MaxReturns = 3
  MaxPrinted = 12
SPECIFICATION Spec
INVARIANT OnlyCheckedRuns
INVARIANT OutputIsWhole
INVARIANT OneDiagnosis
INVARIANT AlwaysAValue
INVARIANT AcceptedFindsVariables
CHECK_DEADLOCK FALSE
