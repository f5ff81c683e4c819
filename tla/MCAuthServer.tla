----------------------------- MODULE MCAuthServer -----------------------------
\* AuthServer on instances TLC can exhaust.  Each run serves the endpoints that
\* its question is about, with as many requests as that takes.
EXTENDS AuthServer, FiniteSets, TLC

CONSTANTS a1, a2, pk, pk2, pw, g1, g2, l1, l2, k1, k2, k3, s1, s2, r1, r2, r3, r4, r5, r6

\* The first app has a provider of each kind, the second one no password provider.
MCAppOf == [p \in Provider |-> IF p \in {pk2, g2} THEN a2 ELSE a1]

MCSlug == [p \in Provider |->
  CASE p \in {pk, pk2} -> "passkey" [] p = pw -> "password" [] OTHER -> "google"]

\* At the first app l1 has signed up with a passkey and l2 has a password; at the
\* second one both have signed up with a passkey.
MCSeeded == {<<pk, l1, k1>>, <<pw, l2, l2>>, <<pk2, l1, k2>>, <<pk2, l2, k3>>}

\* Both have signed up with a passkey.
MCSeededPasskeys == {<<pk, l1, k1>>, <<pk, l2, k2>>}

\* l2 has signed in with Google before.
MCSeededGoogle == {<<g1, l2, l2>>}

\* A bound: in a state of the second app at most three requests begin, a step that no
\* fairness is assumed of.
ThreeAtSecondApp ==
  (\E s \in StateId : states[s] # None /\ states[s].app = a2)
    => Cardinality({r \in Request : req[r].pc # "idle"}) <= 3

\* Requests are interchangeable.
MCSymmetry == Permutations(Request)
===============================================================================
