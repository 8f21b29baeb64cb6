\* Two servers share the journal but not their claims.
CONSTANTS
  a1 = a1
  a2 = a2
  a3 = a3
  r1 = r1
  s1 = s1
  s2 = s2
  c1 = c1
  c2 = c2
  c3 = c3
  u1 = u1
  u2 = u2
  None = None
  Attempts = {a1, a2, a3}
  Recoveries = {r1}
  Servers = {s1, s2}
  Calls = {c1, c2}
  Urls = {u1, u2}
  CallOf <- RepeatedCall
  UrlOf <- TwoUrls
  ServerOf <- Apart
  MaxCrashes = 1
SPECIFICATION Spec
\* Every request may have ended.
CHECK_DEADLOCK FALSE
INVARIANTS
  TypeOK
  OnePaymentPerCall
  ReceiptUntilServed
  OutcomesAreTrue
PROPERTIES
  SendAloneOnServer
