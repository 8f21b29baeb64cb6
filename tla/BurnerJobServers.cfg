\* Two servers race for every step; one of them may die and start again, its process
\* outliving it or not.
CONSTANTS
  Servers = {s1, s2}
  None = None
  KnownRun = TRUE
  MaxCrashes = 1
SPECIFICATION Spec
SYMMETRY ServerSymmetry
VIEW Live
\* Every controller may have stopped for good.
CHECK_DEADLOCK FALSE
INVARIANTS
  TypeOK
  FundingIsNotRepeated
  FundedMeansLanded
  OneRunAtATime
PROPERTIES
  ImplementsOneOffTest
