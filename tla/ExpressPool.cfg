\* Five requests for three places, two at a time; c3 comes without an origin.
CONSTANTS
  c1 = c1
  c2 = c2
  c3 = c3
  c4 = c4
  c5 = c5
  o1 = o1
  o2 = o2
  None = None
  Creates = {c1, c2, c3, c4, c5}
  Owners = {o1, o2}
  OwnerOf <- SharedAddress
  BadOrigin = {c3}
  MaxSessions = 3
  MaxCreates = 2
SPECIFICATION Spec
SYMMETRY Interchangeable
\* Every workspace may have come and gone.
CHECK_DEADLOCK FALSE
INVARIANTS
  TypeOK
  WithinCapacity
  ServersHaveOwners
  CooldownStands
