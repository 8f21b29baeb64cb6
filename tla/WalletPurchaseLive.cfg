\* One server, one restart, a user who keeps recovering.
CONSTANTS
  a1 = a1
  a2 = a2
  a3 = a3
  r1 = r1
  s1 = s1
  s2 = s2
  c1 = c1
  c2 = c2
  c3 = c3
  u1 = u1
  u2 = u2
  None = None
  Attempts = {a1, a2}
  Recoveries = {r1}
  Servers = {s1}
  Calls = {c1, c2}
  Urls = {u1, u2}
  CallOf <- TwoCalls
  UrlOf <- TwoUrls
  ServerOf <- OneServer
  MaxCrashes = 1
SPECIFICATION FairSpec
\* Every request may have ended.
CHECK_DEADLOCK FALSE
PROPERTIES
  SettledIsResolved
