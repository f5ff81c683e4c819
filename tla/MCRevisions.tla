----------------------------- MODULE MCRevisions ------------------------------
\* Revisions with a 3-bit integer: seven updates reach every revision from
\* every other one, through the wrap and through zero, without coming round.
EXTENDS Revisions, TLC

CONSTANTS p1, p2, p3

MCSymmetry == Permutations({p1, p2, p3})
===============================================================================
