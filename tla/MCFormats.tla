------------------------------- MODULE MCFormats -------------------------------
\* The bytes of passkeys and of client assertions.  The two have nothing to do
\* with each other: a behaviour takes steps of one of them only.
EXTENDS WebAuthn, ClientAssertion

CONSTANTS f1, f2, f3, n1

\* Cut in the head, in what is attested, in the id and in the key; exact; too long.
MCOffBy == {-120, -100, -80, -1, 0, 1, 20}

\* One key, two keys in order, and a file mkjwks does not support before and after.
MCFileList == {<<f1>>, <<f2>>, <<f1, f2>>, <<f3, f1>>, <<f1, f3>>}

Init == WebAuthnInit /\ AssertionInit

Next ==
  \/ verdict = "idle" /\ keys = << >> /\ clock = 0 /\ WebAuthnNext /\ UNCHANGED assertionVars
  \/ ceremony = "none" /\ AssertionNext /\ UNCHANGED webAuthnVars

Spec == Init /\ [][Next]_<<webAuthnVars, assertionVars>>
================================================================================
