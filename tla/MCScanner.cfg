CONSTANTS
  Letter <- Letters
  Digit <- Digits
  Text <- Texts
  MaxText = 3
  MaxComment = 6
  MaxNumber = 5
SPECIFICATION FairSpec
INVARIANT TypeOK
INVARIANT EndsWithEof
INVARIANT PointsToToken
PROPERTY FollowsRules
PROPERTY Terminates
CHECK_DEADLOCK FALSE
