CONSTANTS
  Name = {"x", "f"}
  NoName = "unnamed"
  Node <- Nodes
  Program <- Programs
  Absent = Absent
  Width = 4
  MaxDepth = 6
  MaxReturns = 3
  MaxPrinted = 12
SPECIFICATION FairSpec
INVARIANT ReturnEndsScope
CHECK_DEADLOCK FALSE
