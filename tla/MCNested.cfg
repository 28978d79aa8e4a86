CONSTANTS
  Name = {"x", "f", "g"}
  NoName = "unnamed"
  Node <- Nodes
  Program <- Nested
  Absent = Absent
  Width = 4
  MaxFrames = 5
SPECIFICATION MCSpec
INVARIANT CodegenAgrees
CHECK_DEADLOCK FALSE
