CONSTANTS
  Name = {"x", "f"}
  NoName = "unnamed"
  MaxLiteral = 7
  MaxTokens = 2
  MaxCut = 3
  MaxLength = 30
SPECIFICATION Spec
INVARIANT TextKept
INVARIANT PrecedenceKept
INVARIANT TreeIsWhole
INVARIANT ParsedBack
PROPERTY ErrorStays
CHECK_DEADLOCK FALSE
