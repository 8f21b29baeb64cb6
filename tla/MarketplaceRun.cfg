\* Three calls and two rewrites of one settlement, up to two of them cut short.
CONSTANTS
  Callers = {c1, c2, c3}
  Editors = {e1, e2}
  None = None
  MaxStops = 2
SPECIFICATION FairSpec
\* Every request may have ended.
CHECK_DEADLOCK FALSE
INVARIANTS
  TypeOK
  PaidAndRewrittenOnce
  CompleteOnGoodEvidence
PROPERTIES
  ConcludedIsKept
  PaidIsConcluded
