CONSTANTS
  Name = {"x", "f", "g"}
  NoName = "unnamed"
  Node <- Nodes
  Program <- Programs
  Absent = Absent
  Width = 4
  MaxFrames = 5
SPECIFICATION MCSpec
INVARIANT TypeOK
INVARIANT LocalOperands
INVARIANT Verifies
INVARIANT AcceptedTranslates
INVARIANT CompiledMeansSame
PROPERTY Terminates
CHECK_DEADLOCK FALSE
