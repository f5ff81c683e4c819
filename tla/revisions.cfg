CONSTANTS
  p1 = p1
  p2 = p2
  p3 = p3
  NoRev = NoRev
  Proc = {p1, p2, p3}
  Half = 4
  MaxWrites = 7
SPECIFICATION Spec
INVARIANTS
  TypeOK
  ConflictMeansChangeOrZero
PROPERTY NoLostUpdate
SYMMETRY MCSymmetry
\* A row whose revision is not stored can never be written again.
CHECK_DEADLOCK FALSE
