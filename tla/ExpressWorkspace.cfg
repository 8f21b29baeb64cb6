\* Four operations, one for each purchase, one failure, four payments from outside.
CONSTANTS
  x1 = x1
  x2 = x2
  x3 = x3
  x4 = x4
  m1 = m1
  m2 = m2
  None = None
  Operations = {o1, o2, o3, o4}
  Consumers = {x1, x2, x3, x4}
  Mandates = {m1, m2}
  MandateOf <- TwoMandates
  MaxFailures = 1
SPECIFICATION Spec
SYMMETRY Alike
\* A workspace that has ended stays ended.
CHECK_DEADLOCK FALSE
INVARIANTS
  TypeOK
  OneChargePerPurchase
  IdleIsReconciled
  AnswersAreTrue
  EndIsExhaustion
