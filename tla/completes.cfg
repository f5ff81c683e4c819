CONSTANTS
  a1 = a1
  a2 = a2
  pk = pk
  pk2 = pk2
  pw = pw
  g1 = g1
  g2 = g2
  l1 = l1
  l2 = l2
  k1 = k1
  k2 = k2
  k3 = k3
  s1 = s1
  s2 = s2
  r1 = r1
  r2 = r2
  r3 = r3
  r4 = r4
  r5 = r5
  r6 = r6
  None = None
  Canary = Canary
  App = {a1, a2}
  Provider = {pk, pk2, pw}
  AppOf <- MCAppOf
  Slug <- MCSlug
  Login = {l1, l2}
  Cred = {k1, k2, k3}
  Count = {0, 1}
  Seeded <- MCSeeded
  StateId = {s1}
  Request = {r1, r2, r3, r4}
  Served = {"signin", "passkey", "password"}
  Lapsing = {}
SPECIFICATION FairSpec
CONSTRAINT ThreeAtSecondApp
INVARIANTS
  OneCodePerState
  PasskeyMatchesLogin
PROPERTIES
  SomeoneCompletes
  CounterAdvances
\* Every request slot serves one request: then the model really stops.
CHECK_DEADLOCK FALSE
