CONSTANTS
  b1 = b1
  b2 = b2
  Buyers = {b1, b2}
  Recoveries = {q}
  Plan <- PlanTwoAndOne
  MaxRuns = 2
  QuietReset = TRUE
  None = None
  MaxFaults = 1
SPECIFICATION FairSpec
\* Every run may be over with nothing left to recover.
CHECK_DEADLOCK FALSE
INVARIANTS
  TypeOK
  PaidIsTracked
  ResultsAreTrue
PROPERTY ReceiptsAreResolved
