------------------------------- MODULE Exchange -------------------------------
(***************************************************************************)
(* The OIDC end of the server: GET /authorize, which starts a sign-in with *)
(* a new auth state (internal/srv/oidc/authorize.go, auth/auth.go), and    *)
(* POST /token, which exchanges an auth code for an access token           *)
(* (oidc/token.go, auth/tokens.go).                                        *)
(***************************************************************************)
EXTENDS AuthData

\* WriteAuthRedirect: what a new auth state knows is its app and client.
NewAuthState(a) ==
  [app |-> a, login |-> None, provider |-> None, challenge |-> None, rev |-> 1, spentBy |-> None]

\* A known client with a registered redirect URI: one insert.
Authorize(s, a) ==
  /\ states[s] = None
  /\ states' = [states EXCEPT ![s] = NewAuthState(a)]
  /\ UNCHANGED <<otps, codes, atoks, idns, srcs, lapsed, req, browser>>

-------------------------------------------------------------------------------
\* The assertion has been found good for client a; the form holds a code.
TokenBegin(r, c, a) ==
  /\ At(r, "idle")
  /\ Live("code", codes, c)
  /\ Begin(r, "token.expire", [Fresh EXCEPT !.tok = c, !.copy = codes[c], !.client = a])
  /\ UNCHANGED <<tables, lapsed, browser>>

\* Mutated form of TokenExpire: the zero time is stored whatever the row holds.
TokenExpireBlind(r) ==
  /\ At(r, "token.expire")
  /\ codes' = [codes EXCEPT ![req[r].tok].spentBy = r]
  /\ IF req[r].copy.client = req[r].client THEN GoTo(r, "token.insert") ELSE Return(r)
  /\ UNCHANGED <<states, otps, atoks, idns, srcs, lapsed, browser>>

\* Mutated form of TokenExpire: the code that passed its test is not spent.
TokenExpireNothing(r) ==
  /\ At(r, "token.expire")
  /\ IF req[r].copy.client = req[r].client THEN GoTo(r, "token.insert") ELSE Return(r)
  /\ UNCHANGED <<tables, lapsed, browser>>

\* code.Expire, and only then the test that the code was issued to this client:
\* a code presented by another client is spent all the same.
TokenExpire(r) ==
  LET c == req[r].tok IN
  /\ At(r, "token.expire")
  /\ \/ /\ codes[c].spentBy = None
        /\ codes' = [codes EXCEPT ![c].spentBy = r]
        /\ IF req[r].copy.client = req[r].client THEN GoTo(r, "token.insert") ELSE Return(r)
     \/ /\ codes[c].spentBy # None
        /\ Return(r)
        /\ UNCHANGED codes
  /\ UNCHANGED <<states, otps, atoks, idns, srcs, lapsed, browser>>

\* NewAuthToken, with the attributes NewAccessToken passes on from the code.
NewAuthToken(r) ==
  [app |-> req[r].client, provider |-> req[r].copy.provider, sub |-> req[r].copy.sub,
   code |-> req[r].tok]

\* NewAccessToken stores the token before the KMS is asked to sign it; a failure
\* after this step (see Fail) leaves a token nobody was given.
TokenInsert(r) ==
  /\ At(r, "token.insert")
  /\ atoks' = [atoks EXCEPT ![r] = NewAuthToken(r)]
  /\ GoTo(r, "token.sign")
  /\ UNCHANGED <<states, otps, codes, idns, srcs, lapsed, browser>>

\* Access token and ID token are signed and returned.
TokenSign(r) ==
  /\ At(r, "token.sign")
  /\ Return(r)
  /\ UNCHANGED <<tables, lapsed, browser>>

TokenNext(r) ==
  \/ \E c \in Request, a \in App : TokenBegin(r, c, a)
  \/ TokenExpire(r)
  \/ TokenInsert(r)
  \/ TokenSign(r)

===============================================================================
