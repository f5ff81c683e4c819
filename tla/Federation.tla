------------------------------- MODULE Federation ------------------------------
(***************************************************************************)
(* gRPC service Authn (internal/srv/authn.go), Check of a federated token: *)
(* a JWT of an issuer that an app trusts.                                  *)
(*                                                                         *)
(* The federation of the app and the issuer the token names gives the URI  *)
(* of the issuer's keys; JwksCache fetches them; the signature and the     *)
(* claims are then checked, and the identity that the token's subject is   *)
(* known by is looked up.  Every failure on the way to a valid token is    *)
(* answered like an invalid token.  Federations and federated identities   *)
(* are rows nothing in the server changes.                                 *)
(***************************************************************************)
EXTENDS JwksCache

CONSTANTS
  App,            \* apps that ask
  Jwt,            \* tokens of typ JWT: [kid, alg, iss, sub, aud, iat, nbf, exp, signer]
  FederationRow,  \* table federations: [app, iss, uri, aud], unique (app, iss)
  FederatedIdn    \* federated rows of idns: [app, login, iss], unique (app, login)

\* Keys are [kid, alg, kty, use, pair]: pair is the key pair, and a token's
\* signer the one whose private key signed it.

ASSUME JwtAssumption == \A t \in Jwt : t.iat \in Int /\ t.nbf \in Int /\ t.exp \in Int
ASSUME RowAssumption == \A f \in FederationRow : f.uri \in Uri
ASSUME UniqueAssumption ==
  /\ \A f, g \in FederationRow : f.app = g.app /\ f.iss = g.iss => f = g
  /\ \A i, j \in FederatedIdn : i.app = j.app /\ i.login = j.login => i = j

VARIABLES
  check   \* the Check each caller is in, its token and app, and its result

federationVars == <<cacheVars, check>>

\* No check, or one that was refused.
NoCheck == [pc |-> "none", app |-> None, jwt |-> None, from |-> 0, idn |-> None]

FederationInit == Init /\ check = [c \in Caller |-> NoCheck]

-------------------------------------------------------------------------------
\* RetrieveFederationByIss: the row of the app and the issuer, if there is one.
RowOf(app, iss) == {f \in FederationRow : f.app = app /\ f.iss = iss}

\* checkJwt up to the fetch.  An issuer the app does not trust is refused at once,
\* and so is any other when the statement fails.
CheckJwt(c, app, t) ==
  /\ check[c].pc \in {"none", "done"}
  /\ \/ /\ check' = [check EXCEPT ![c] = NoCheck]
        /\ UNCHANGED cacheVars
     \/ \E f \in RowOf(app, t.iss) :
          /\ check' = [check EXCEPT ![c] = [pc |-> "keys", app |-> app, jwt |-> t,
                                           from |-> now, idn |-> None]]
          /\ Call(c, f.uri)

\* Mutated form of SelectKeys: any key of the issuer will do.
SelectKeysAny(keys, kid) == keys

\* The keys mkJwkFunc may find: the first of that kid in an order the issuer chose.
SelectKeys(keys, kid) == {k \in keys : k.kid = kid}

\* verifyRSA256: an RSA key verifies what its own private key signed.
Signature(k, t) == k.kty = "RSA" /\ k.pair = t.signer

\* Jws.Validate: the key is for this algorithm, which is RS256, and for
\* signatures, and it verifies this one.
Verified(k, t) ==
  /\ k.alg = t.alg
  /\ k.use = "sig"
  /\ k.alg = "RS256"
  /\ Signature(k, t)

\* Mutated form of ClaimsTime: the clock is read when the check begins.
ClaimsTimeEarly(c) == check[c].from

\* The clock the claims are compared with: it is read after the fetch.
ClaimsTime(c) == now

\* registeredClaims.validate.
ClaimsValid(t, time) ==
  /\ t.exp >= 0 /\ t.iat >= 0 /\ t.exp >= t.iat
  /\ ~(t.exp < time)
  /\ ~(t.iat > time)
  /\ t.nbf > 0 => ~(t.nbf > time)

\* The fetch has returned: the key, the signature and the claims decide.
Verify(c) ==
  /\ check[c].pc = "keys"
  /\ LET t == check[c].jwt
         found == IF call[c].got = None THEN {} ELSE SelectKeys(call[c].got.keys, t.kid)
         good(k) == Verified(k, t) /\ ClaimsValid(t, ClaimsTime(c))
     IN \/ /\ \E k \in found : good(k)
           /\ check' = [check EXCEPT ![c].pc = "lookup"]
        \/ /\ found = {} \/ \E k \in found : ~good(k)
           /\ check' = [check EXCEPT ![c] = NoCheck]
  /\ Done(c)

\* RetrieveIdnByFederatedLogin: the identity of that login which belongs to the
\* federation of this issuer, and the audience that federation has.  One without
\* an audience has none of its identities found: null equals nothing.  A statement
\* that fails ends the check as well, with an error.
FederatedLogin(app, t) ==
  {i \in FederatedIdn :
     /\ i.app = app /\ i.login = t.sub /\ i.iss = t.iss
     /\ \E f \in RowOf(app, t.iss) : f.aud # None /\ f.aud = t.aud}

Lookup(c) ==
  /\ check[c].pc = "lookup"
  /\ LET found == FederatedLogin(check[c].app, check[c].jwt)
     IN \/ check' = [check EXCEPT ![c] = NoCheck]
        \/ \E i \in found :
             check' = [check EXCEPT ![c] = [pc |-> "done", app |-> check[c].app,
                                            jwt |-> check[c].jwt, from |-> 0, idn |-> i]]
  /\ UNCHANGED cacheVars

FederationNext ==
  \/ /\ Environment \/ \E c \in Caller : Acquire(c) \/ Arrive(c) \/ Fill(c)
     /\ UNCHANGED check
  \/ \E c \in Caller :
       \/ \E app \in App, t \in Jwt : CheckJwt(c, app, t)
       \/ Verify(c) \/ Lookup(c)

\* A goroutine that runs goes on.  A mutex that is free again and again is handed
\* to everybody who waits for it (sync.Mutex, starvation mode), hence strong
\* fairness.  That a fetch ends is not the server's doing, for the client sets no
\* timeout: nothing is assumed of Arrive.
FairFederation ==
  \A c \in Caller : /\ SF_federationVars(Acquire(c) /\ UNCHANGED check)
                    /\ WF_federationVars(Fill(c) /\ UNCHANGED check)
                    /\ WF_federationVars(Verify(c))
                    /\ WF_federationVars(Lookup(c))

FederationSpec == FederationInit /\ [][FederationNext]_federationVars

FairFederationSpec == FederationSpec /\ FairFederation

-------------------------------------------------------------------------------
Checks == [pc : {"none", "keys", "lookup", "done"}, app : App \cup {None},
           jwt : Jwt \cup {None}, from : Nat, idn : FederatedIdn \cup {None}]

TypeOK == CacheTypeOK /\ check \in [Caller -> Checks]

Passes(c) == check[c].pc = "keys" /\ check'[c].pc = "lookup"

Refuses(c) == check[c].pc = "keys" /\ check'[c].pc = "none"

\* A token passes only if its own issuer published, at some moment since it was
\* asked, the key that signed it: the key is there now, or has been withdrawn
\* only since; and the token is good at that moment, however long the fetch took.
GenuineAtAcceptance ==
  [][\A c \in Caller :
       Passes(c) =>
         LET t == check[c].jwt
             answer == call[c].got
         IN /\ t.alg = "RS256" /\ t.iat <= now /\ now <= t.exp
            /\ \E f \in RowOf(check[c].app, t.iss) :
                 \E k \in Key : /\ k.pair = t.signer /\ k.use = "sig"
                                /\ \/ k \in published[f.uri]
                                   \/ changed[f.uri][k] >= answer.asked]_federationVars

\* A good token that its issuer signed with the only key of that kid is refused,
\* once the federation is found, only for a cause outside it: the fetch failed, the
\* issuer answered with an error, or the key has changed since the answer in use was
\* asked for.
RefusedForCause ==
  [][\A c \in Caller :
       Refuses(c) =>
         LET t == check[c].jwt
             answer == call[c].got
         IN \A f \in RowOf(check[c].app, t.iss) :
              \A k \in published[f.uri] :
                /\ k.kid = t.kid /\ Verified(k, t) /\ ClaimsValid(t, now)
                /\ \A other \in Key : other.kid = k.kid => other = k
                => answer = None \/ answer.outage \/ changed[f.uri][k] >= answer.asked]_federationVars

\* The identity a check returns belongs to the app that asked, through its
\* federation with the token's issuer, under the token's subject and audience.
IdentityOfFederation ==
  \A c \in Caller :
    LET i == check[c].idn
        t == check[c].jwt
    IN i # None => /\ i.app = check[c].app /\ i.login = t.sub
                   /\ \E f \in FederationRow :
                        f.app = i.app /\ f.iss = t.iss /\ f.iss = i.iss /\ f.aud = t.aud

\* (Liveness.) A check of a federated token is answered, for one issuer or another,
\* or one fetch, of whoever it is, goes on for ever: one mutex serves all issuers and
\* is held while one of them is asked, and only a silent issuer keeps it.
ChecksReturn ==
  \A c \in Caller :
    check[c].pc = "keys" ~> \/ check[c].pc \in {"none", "done"}
                           \/ \E d \in Caller : [](call[d].pc = "fetch")

===============================================================================
