------------------------------ MODULE AuthServer ------------------------------
(***************************************************************************)
(* The auth server: authorization, sign-in, sign-up and token exchange     *)
(* composed, over one database and one browser.  Every request slot serves *)
(* one request to one of the endpoints in Served; their steps interleave.  *)
(***************************************************************************)
EXTENDS SignIn, SignUp, Callbacks, Exchange

\* Identities made beforehand: by earlier requests, or, those with a password,
\* outside the server (cmd/passwd sets the password of an existing source).
Init ==
  /\ states = [s \in StateId |-> None]
  /\ otps = [r \in Request |-> None]
  /\ codes = [r \in Request |-> None]
  /\ atoks = [r \in Request |-> None]
  /\ idns = [i \in IdnId |->
       IF \E x \in Seeded : i = <<x[1], x[2]>>
         THEN [app |-> AppOf[i[1]], login |-> i[2], via |-> "seed", challenge |-> None] ELSE None]
  /\ srcs = {[idn |-> <<x[1], x[2]>>, provider |-> x[1], sub |-> x[3], count |-> 0, rev |-> 1] :
               x \in Seeded}
  /\ lapsed = {}
  /\ req = [r \in Request |-> Fresh]
  /\ pages = {}
  /\ mailed = {}
  /\ nonce = None

\* The clock passes the expiry instant of a token that has not been spent.
LapseState(s) == Live("state", states, s) /\ lapsed' = lapsed \cup {<<"state", s>>}

LapseOtp(o) == Live("otp", otps, o) /\ lapsed' = lapsed \cup {<<"otp", o>>}

LapseCode(c) == Live("code", codes, c) /\ lapsed' = lapsed \cup {<<"code", c>>}

Lapse ==
  /\ \/ "state" \in Lapsing /\ \E s \in StateId : LapseState(s)
     \/ "otp" \in Lapsing /\ \E o \in Request : LapseOtp(o)
     \/ "code" \in Lapsing /\ \E c \in Request : LapseCode(c)
  /\ UNCHANGED <<tables, req, browser>>

Serve(r) ==
  \/ "signin" \in Served /\ SignInNext(r)
  \/ "signup" \in Served /\ SignUpNext(r)
  \/ "verify" \in Served /\ VerifyNext(r)
  \/ "credentials" \in Served /\ CredentialNext(r)
  \/ "passkey" \in Served /\ PasskeyNext(r)
  \/ "password" \in Served /\ PasswordNext(r)
  \/ "google" \in Served /\ GoogleNext(r)
  \/ "token" \in Served /\ TokenNext(r)

Next ==
  \/ \E s \in StateId, a \in App : Authorize(s, a)
  \/ \E r \in Request : Serve(r)
  \/ \E r \in Request : "fail" \in Served /\ Fail(r)
  \/ Lapse

Spec == Init /\ [][Next]_vars

-------------------------------------------------------------------------------
TypeOK ==
  /\ states \in [StateId -> Maybe(StateRow)]
  /\ otps \in [Request -> Maybe(OtpRow)]
  /\ codes \in [Request -> Maybe(CodeRow)]
  /\ atoks \in [Request -> Maybe(TokenRow)]
  /\ idns \in [IdnId -> Maybe(IdnRow)]
  /\ srcs \subseteq SrcRow
  /\ lapsed \subseteq ({"state"} \X StateId) \cup ({"otp", "code"} \X Request)
  /\ req \in [Request -> Local]
  /\ pages \subseteq Page
  /\ mailed \subseteq Request
  /\ nonce \in Maybe(Request)

-------------------------------------------------------------------------------
\* The single-use promise.  Each kind of token implements SingleUse: a request
\* holds it from the step that found it live until its own Expire or its end.

Holding(stages) == {<<req[r].tok, r>> : r \in {q \in Request : req[q].pc \in stages}}

Gone(kind, table) ==
  {id \in DOMAIN table : table[id] # None
                         /\ (table[id].spentBy # None \/ <<kind, id>> \in lapsed)}

Spender(table) ==
  [id \in DOMAIN table |-> IF table[id] = None THEN None ELSE table[id].spentBy]

StateStages ==
  {"signin.list", "signin.password", "signin.passkey", "signin.page",
   "signup.otp", "signup.mail", "verify.set",
   "cred.find", "cred.idn", "cred.src", "cred.expire",
   "passkey.src", "passkey.count", "passkey.expire",
   "password.src", "password.expire", "google.expire"}

OtpStages == {"verify.expire"}

CodeStages == {"token.expire"}

StateUse == INSTANCE SingleUse WITH
  Token <- StateId, User <- Request, Nobody <- None,
  issued <- {s \in StateId : states[s] # None},
  lapsed <- Gone("state", states),
  seen <- Holding(StateStages),
  spentBy <- Spender(states)

OtpUse == INSTANCE SingleUse WITH
  Token <- Request, User <- Request, Nobody <- None,
  issued <- {o \in Request : otps[o] # None},
  lapsed <- Gone("otp", otps),
  seen <- Holding(OtpStages),
  spentBy <- Spender(otps)

CodeUse == INSTANCE SingleUse WITH
  Token <- Request, User <- Request, Nobody <- None,
  issued <- {c \in Request : codes[c] # None},
  lapsed <- Gone("code", codes),
  seen <- Holding(CodeStages),
  spentBy <- Spender(codes)

\* However the requests of all endpoints interleave, an auth state, a one-time
\* code and an auth code are each spent at most once, and only by a request
\* that found them live (Retrieve, Expired and Expire in each handler).
TokensSingleUse == StateUse!Spec /\ OtpUse!Spec /\ CodeUse!Spec

\* One sign-in gives the client one auth code, though the form is posted twice,
\* in two tabs, or to two endpoints (state.Expire before each NewAuthCode).
OneCodePerState ==
  \A c, d \in Request :
    codes[c] # None /\ codes[d] # None /\ codes[c].state = codes[d].state => c = d

\* One auth code gives one access token (code.Expire before NewAccessToken).
OneTokenPerCode ==
  \A t, u \in Request :
    atoks[t] # None /\ atoks[u] # None /\ atoks[t].code = atoks[u].code => t = u

\* An identity made by a passkey sign-up has a login somebody proved to own, a
\* one-time code mailed to it, for the same app, was spent, or it has none: POST
\* /credentials takes the login from the auth state, which sign-in requests of
\* other tabs rewrite, and asks nothing about where the state has it from.
VerifiedLogin ==
  \A i \in Request :
    idns[i] # None /\ idns[i].via = "passkey" /\ idns[i].login # None =>
      \E o \in Request :
        /\ otps[o] # None
        /\ otps[o].spentBy # None
        /\ otps[o].login = idns[i].login
        /\ states[otps[o].state].app = idns[i].app

\* A passkey made for the challenge of a page is stored for the login that page
\* was opened with, though other tabs may sign up or sign in with other logins in
\* the same state before or after it is posted (credentialsHandler takes the
\* login from the state and relies on the challenge).
CredentialMatchesPage ==
  \A i \in Request, pg \in pages :
    idns[i] # None /\ idns[i].challenge = pg.challenge => idns[i].login = pg.login

\* As long as the challenge of a page is the one in its state, the login of the
\* state is the one the page was opened for: no request replaces one of the two
\* without the other (SetAttrs in sign-in.go and sign-up.go).
ChallengeOwnsLogin ==
  \A pg \in pages :
    states[pg.state].challenge = pg.challenge => states[pg.state].login = pg.login

AssertionStages == {"passkey.count", "passkey.expire", "passkey.code"}

\* When the browser keeps to the credentials its page was given, an assertion
\* that passed its tests belongs to an identity with the login the state was given
\* at the sign-in page, whatever forms other tabs post (cbPasskey compares neither
\* the login nor the credentials of the page: it relies on the challenge).
PasskeyMatchesLogin ==
  \A r \in Request, pg \in pages :
    /\ req[r].pc \in AssertionStages
    /\ pg.challenge = req[r].copy.challenge
    /\ req[r].sub \in pg.allow
    => idns[req[r].idn].login = req[r].copy.login

\* The subject of an auth code can sign in with the provider of the code: there
\* is a source that links the two.
SubjectIdentified ==
  \A c \in Request :
    codes[c] # None =>
      \E src \in srcs : src.idn = codes[c].sub /\ src.provider = codes[c].provider

\* Somebody has verified a sign-up form that named provider p in a state of another
\* app.  The sign-up page takes the provider from GET /providers for its own state;
\* POST /sign-up (sign-up.go) asks for the slug of the provider in the form alone.
ForeignForm(p) ==
  \E o \in Request :
    /\ otps[o] # None
    /\ otps[o].spentBy # None
    /\ otps[o].provider = p
    /\ AppOf[p] # states[otps[o].state].app

\* No identity crosses apps: the subject of a code belongs to the app of the
\* client the code is for, that of an access token to the app of the token.  Only
\* a sign-up can break that, and only for the provider that its form named.
SubjectOfApp ==
  /\ \A c \in Request :
       codes[c] # None =>
         idns[codes[c].sub].app = codes[c].client \/ ForeignForm(codes[c].provider)
  /\ \A t \in Request :
       atoks[t] # None =>
         idns[atoks[t].sub].app = atoks[t].app \/ ForeignForm(atoks[t].provider)

\* The stored signature counter of a credential only moves forward, and each
\* assertion that updates it advances it, unless the authenticator keeps none
\* (step 22 and SetAttrsCr in cb.go).  Sources never go away.
CounterAdvances ==
  [][\A old \in srcs :
       \E new \in srcs' :
         /\ new.idn = old.idn /\ new.provider = old.provider /\ new.sub = old.sub
         /\ \/ new = old
            \/ new.count > old.count
            \/ new.count = 0 /\ old.count = 0 /\ new.rev > old.rev]_srcs

-------------------------------------------------------------------------------
\* Fairness: a request that has been accepted goes on.  It runs in a goroutine
\* of its own, every statement and call it makes returns, and it waits for no
\* other request.  Nothing is assumed about new requests or about the clock.
FairSpec == Spec /\ \A r \in Request : WF_vars(req[r].pc # "idle" /\ Serve(r))

Completing(r, s) ==
  /\ req[r].tok = s
  /\ req[r].pc \in {"cred.expire", "passkey.expire", "password.expire"}

\* Requests that complete the same sign-in never refuse each other altogether:
\* once one of them has proved who the user is, the client gets an auth code,
\* whatever sign-in forms other tabs post meanwhile.  (Google's callback spends
\* the state before the proof, so it is not part of this.)
SomeoneCompletes ==
  \A s \in StateId :
    (\E r \in Request : Completing(r, s))
      ~> (\E c \in Request : codes[c] # None /\ codes[c].state = s)

-------------------------------------------------------------------------------
\* What the text says and the code does not do.

\* A sign-up that was answered "Service temporarily unavailable." can be tried
\* again: no finished request leaves an identity that holds its login for good
\* and has no source to sign in with.
UnavailableIsTemporary ==
  \A i \in Request :
    idns[i] # None /\ idns[i].login # None /\ req[i].pc = "done" => \E src \in srcs : src.idn = i

\* The credential of an assertion that passed its tests is one of the user who
\* was identified before the ceremony: the login the state was given at the
\* sign-in page.
UserIdentifiedBefore ==
  \A r \in Request :
    req[r].pc \in AssertionStages => idns[req[r].idn].login = req[r].copy.login

===============================================================================
