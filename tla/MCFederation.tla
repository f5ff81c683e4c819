----------------------------- MODULE MCFederation ------------------------------
(***************************************************************************)
(* Two issuers with a key each.  The first app trusts both: ann signs in   *)
(* with the first; what claims to be bob's token of the second is signed   *)
(* with the key of the first.  The second app trusts nobody.  Ann's token  *)
(* expires after the first instant, and so do cache entries, the instant   *)
(* they are filled at being good.                                          *)
(***************************************************************************)
EXTENDS Federation, TLC

RsaKey(pair, kid) == [kid |-> kid, alg |-> "RS256", kty |-> "RSA", use |-> "sig", pair |-> pair]

MCKey == {RsaKey("p1", "kid1"), RsaKey("p2", "kid2")}

MCFirstKeys == "uri1" :> {RsaKey("p1", "kid1")} @@ "uri2" :> {RsaKey("p2", "kid2")}

MCFederationRow ==
  {[app |-> "app1", iss |-> "iss1", uri |-> "uri1", aud |-> "aud"],
   [app |-> "app1", iss |-> "iss2", uri |-> "uri2", aud |-> "aud"]}

MCFederatedIdn ==
  {[app |-> "app1", login |-> "ann", iss |-> "iss1"],
   [app |-> "app1", login |-> "bob", iss |-> "iss2"]}

Token(kid, iss, sub, aud, signer) ==
  [kid |-> kid, alg |-> "RS256", iss |-> iss, sub |-> sub, aud |-> aud,
   iat |-> 1, nbf |-> 0, exp |-> 2, signer |-> signer]

MCJwt == {[Token("kid1", "iss1", "ann", "aud", "p1") EXCEPT !.exp = 1],
          Token("kid2", "iss2", "bob", "aud", "p1")}

===============================================================================
