CONSTANTS
  Letter <- Letters
  Digit <- Digits
  Text <- Texts
  MaxText = 3
  MaxComment = 6
  MaxNumber = 5
SPECIFICATION Spec
INVARIANT NumbersAccepted
CHECK_DEADLOCK FALSE
