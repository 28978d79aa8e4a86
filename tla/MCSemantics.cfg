CONSTANTS
  Name = {"x", "f"}
  NoName = "unnamed"
  Node <- Nodes
  Program <- Programs
  Absent = Absent
SPECIFICATION FairSpec
INVARIANT TypeOK
INVARIANT ScopesMatchVisits
INVARIANT InitializerStillBound
INVARIANT VerdictFollowsRules
PROPERTY OuterStateKept
PROPERTY Terminates
CHECK_DEADLOCK FALSE
