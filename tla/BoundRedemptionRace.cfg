CONSTANTS
  t1 = t1
  p1 = p1
  p2 = p2
  p3 = p3
  p4 = p4
  Terminal = terminal
  None = None
  Tx = {t1}
  Proofs = {p1, p2, p3, p4}
  Requests = {r1, r2}
  Results = {body}
  TxOf <- RaceTxOf
  Authentic = {p1, p2, p3}
  Genuine = {p1, p2}
  TimeBound = {p1, p3}
  MaxFaults = 1
SPECIFICATION FairSpec
\* A merchant with no request left to serve rests.
CHECK_DEADLOCK FALSE
INVARIANTS
  TypeOK
  PaidWorkAtMostOnce
  EveryReplyIsTheStoredAnswer
  WorkIsStored
  OnlyGenuinePaymentsBind
PROPERTIES
  ImplementsOneShotDelivery
  ClaimedIsAnswered
