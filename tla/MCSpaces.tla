------------------------------- MODULE MCSpaces -------------------------------
\* Two identities, tokens for them, and calls with these tokens that race.
EXTENDS Spaces, TLC

CONSTANTS i1, i2, k1, k2, n1, n2, r1, r2, r3

\* A bound on the initial states: one identity at most is suspended or has the
\* revision zero; either stays as it is.
OneOutOfOrder ==
  Cardinality({i \in Idn : idns[i].status = "suspended" \/ idns[i].rev = 0}) <= 1

MCSymmetry ==
  Permutations(Idn) \cup Permutations(Slug) \cup Permutations(Ec) \cup Permutations(Request)
===============================================================================
