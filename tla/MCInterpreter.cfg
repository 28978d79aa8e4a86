CONSTANTS
  Name = {"x", "f"}
  NoName = "unnamed"
  Node <- Nodes
  Program <- Programs
  Absent = Absent
  Width = 4
  MaxDepth = 6
  MaxReturns = 3
  MaxPrinted = 12
SPECIFICATION FairSpec
INVARIANT TypeOK
INVARIANT ScopesMatchVisits
INVARIANT ReturnEndsScope
INVARIANT AgreesWithMeaning
PROPERTY CallersKept
PROPERTY Terminates
CHECK_DEADLOCK FALSE
