CONSTANTS
  i1 = i1
  i2 = i2
  k1 = k1
  k2 = k2
  n1 = n1
  n2 = n2
  r1 = r1
  r2 = r2
  r3 = r3
  None = None
  Idn = {i1, i2}
  Kid = {k1, k2}
  Ec = {k1, k2}
  Slug = {n1, n2}
  Request = {r1, r2, r3}
  Ttl = 1
  MaxTime = 1
  MaxJwks = 1
  FirstRev = {0, 1}
  Failing = TRUE
SPECIFICATION Spec
CONSTRAINT OneOutOfOrder
INVARIANTS
  TypeOK
  RefusedForCause
  IdTokensVerifiable
  SpaceOwned
  OwnedUnlessRacedOrZero
PROPERTIES
  KnownAsClaimed
  SpaceKept
SYMMETRY MCSymmetry
\* Every slot serves one call: then the model really stops.
CHECK_DEADLOCK FALSE
