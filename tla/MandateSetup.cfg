CONSTANTS
  Regs = {r1, r2}
  Allowances = {a1, a2}
  Revokes = {v1}
  None = None
  MaxSeq = 3
  MaxMoves = 1
  MaxLag = 1
  MaxDrops = 1
SPECIFICATION FairSpec
\* A user may stop setting up anything.
CHECK_DEADLOCK FALSE
INVARIANTS
  TypeOK
  NothingSignedTwice
  SentIsOnRecord
PROPERTIES
  UndecidedIsDecided
