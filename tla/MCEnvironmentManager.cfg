CONSTANTS
  EnvId = {e1, e2, e3, e4}
  Name = {x}
  Value = {v1, v2}
  Absent = Absent
  Null = Null
SPECIFICATION FairSpec
INVARIANT TypeOK
INVARIANT NestingInv
INVARIANT NoLeak
INVARIANT LookupInFrame
PROPERTY DefineNeverThrows
PROPERTY LexicalSpec
PROPERTY OperationsEnd
CHECK_DEADLOCK FALSE
