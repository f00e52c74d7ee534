SPECIFICATION FairSpec
CONSTANTS
  Dirs = {d1, d2}
  Txns = {x1, x2}
  None = None
  MaxClaims = 3
INVARIANTS
  TypeOK
  EndedOnce
PROPERTY TransactionsEnd
CHECK_DEADLOCK FALSE
