CONSTANTS
  t1 = t1
  t2 = t2
  p1 = p1
  p2 = p2
  p3 = p3
  Nobody = Nobody
  Id <- MCId
  Proc <- MCProc
  Ttl = 2
  MaxTime = 6
SPECIFICATION Spec
INVARIANTS
  AtMostOneWinner
  ConflictHasWinner
  Custody
PROPERTY ImplementsSingleUse
\* Nothing happens once every row is created, the clock is at its bound and
\* every request has ended: the model really stops.
CHECK_DEADLOCK FALSE
