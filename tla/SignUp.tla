-------------------------------- MODULE SignUp --------------------------------
(***************************************************************************)
(* Sign-up (internal/srv/auth/sign-up.go, credentials.go), three requests: *)
(* POST /sign-up mails a one-time code, GET /sign-up (the mailed link)     *)
(* spends it and opens the passkey page, POST /credentials stores the      *)
(* credential made there as a new identity, and returns an auth code.      *)
(*                                                                         *)
(* One browser with any number of tabs does all of it; its only memory     *)
(* besides its pages is the nonce cookie.                                  *)
(***************************************************************************)
EXTENDS AuthData

-------------------------------------------------------------------------------
\* POST /sign-up.

\* The form names a provider, which must be a passkey provider.  (The sign-up
\* page names the one that GET /providers listed for the app of the state; the
\* two are not compared here.)
SignUpBegin(r, s, l, p) ==
  /\ At(r, "idle")
  /\ Slug[p] = "passkey"
  /\ Live("state", states, s)
  /\ Begin(r, "signup.otp", [Fresh EXCEPT !.tok = s, !.login = l, !.provider = p])
  /\ UNCHANGED <<tables, lapsed, browser>>

SignUpOtp(r) ==
  /\ At(r, "signup.otp")
  /\ otps' = [otps EXCEPT ![r] = [login |-> req[r].login, provider |-> req[r].provider,
                                  state |-> req[r].tok, spentBy |-> None]]
  /\ GoTo(r, "signup.mail")
  /\ UNCHANGED <<states, codes, atoks, idns, srcs, lapsed, browser>>

\* The mail goes out, then the response sets the cookie, replacing one that an
\* earlier sign-up left.  (A mail whose response is lost is of no use to this
\* browser: no cookie will match it.)
SignUpMail(r) ==
  /\ At(r, "signup.mail")
  /\ mailed' = mailed \cup {r}
  /\ nonce' = r
  /\ Return(r)
  /\ UNCHANGED <<tables, lapsed, pages>>

-------------------------------------------------------------------------------
\* GET /sign-up?code=...: every response deletes the cookie, even one that was
\* set after this request had been sent.

ReturnWithoutNonce(r) == Return(r) /\ nonce' = None

VerifyBegin(r, o) ==
  /\ At(r, "idle")
  /\ o \in mailed
  /\ \/ /\ Live("otp", otps, o)
        /\ nonce = o
        /\ Begin(r, "verify.expire",
                 [Fresh EXCEPT !.tok = o, !.login = otps[o].login, !.provider = otps[o].provider])
        /\ UNCHANGED nonce
     \/ /\ ~Live("otp", otps, o) \/ nonce # o
        /\ ReturnWithoutNonce(r)
  /\ UNCHANGED <<tables, lapsed, pages, mailed>>

\* Mutated form of VerifyExpire: the zero time is stored whatever the row holds.
VerifyExpireBlind(r) ==
  LET o == req[r].tok IN
  /\ At(r, "verify.expire")
  /\ otps' = [otps EXCEPT ![o].spentBy = r]
  /\ req' = [req EXCEPT ![r].pc = "verify.state", ![r].tok = otps[o].state]
  /\ UNCHANGED <<states, codes, atoks, idns, srcs, lapsed, browser>>

\* otp.Expire.  What follows concerns the state the code was issued for.
VerifyExpire(r) ==
  LET o == req[r].tok IN
  /\ At(r, "verify.expire")
  /\ \/ /\ otps[o].spentBy = None
        /\ otps' = [otps EXCEPT ![o].spentBy = r]
        /\ req' = [req EXCEPT ![r].pc = "verify.state", ![r].tok = otps[o].state]
        /\ UNCHANGED nonce
     \/ /\ otps[o].spentBy # None
        /\ ReturnWithoutNonce(r)
        /\ UNCHANGED otps
  /\ UNCHANGED <<states, codes, atoks, idns, srcs, lapsed, pages, mailed>>

\* The state may have run out or been spent by now: the code is gone with it.
VerifyState(r) ==
  LET s == req[r].tok IN
  /\ At(r, "verify.state")
  /\ \/ /\ Live("state", states, s)
        /\ req' = [req EXCEPT ![r].pc = "verify.set", ![r].copy = states[s]]
        /\ UNCHANGED nonce
     \/ /\ ~Live("state", states, s)
        /\ ReturnWithoutNonce(r)
  /\ UNCHANGED <<tables, lapsed, pages, mailed>>

\* Mutated form of VerifySet: the login stays as it is in the state.
VerifySetForgetsLogin(r) ==
  /\ At(r, "verify.set")
  /\ \/ /\ SetAttrs(r, [req[r].copy EXCEPT !.provider = req[r].provider, !.challenge = r])
        /\ pages' = pages \cup
             {[type |-> "create", state |-> req[r].tok, challenge |-> r,
               login |-> req[r].login, allow |-> {}]}
     \/ Conflict(r) /\ UNCHANGED <<states, pages>>
  /\ ReturnWithoutNonce(r)
  /\ UNCHANGED <<otps, codes, atoks, idns, srcs, lapsed, mailed>>

\* Login, provider and a new challenge go into the state together, and the
\* redirect opens the page that makes a credential for them.  When another
\* request has changed the state since it was read, the code is lost.
VerifySet(r) ==
  /\ At(r, "verify.set")
  /\ \/ /\ SetAttrs(r, [req[r].copy EXCEPT !.login = req[r].login,
                                           !.provider = req[r].provider,
                                           !.challenge = r])
        /\ pages' = pages \cup
             {[type |-> "create", state |-> req[r].tok, challenge |-> r,
               login |-> req[r].login, allow |-> {}]}
     \/ Conflict(r) /\ UNCHANGED <<states, pages>>
  /\ ReturnWithoutNonce(r)
  /\ UNCHANGED <<otps, codes, atoks, idns, srcs, lapsed, mailed>>

-------------------------------------------------------------------------------
\* POST /credentials.

\* Credential k comes with client data for a challenge, which must be the one
\* the state holds now.  Nothing asks whether the state has a login, or has had a
\* page opened in it at all: on a fresh state both challenges are empty.  The
\* other tests (origin, relying party, flags, key algorithm) are about data the
\* client fills in and do not depend on what other requests do.
CredentialBegin(r, s, k) ==
  /\ At(r, "idle")
  /\ Live("state", states, s)
  /\ states[s].challenge \in Signable
  /\ Begin(r, "cred.find", [Fresh EXCEPT !.tok = s, !.copy = states[s],
                                         !.provider = states[s].provider, !.sub = k])
  /\ UNCHANGED <<tables, lapsed, browser>>

\* FindIdnSrcBySub: the credential must not be known to any provider.
CredentialFind(r) ==
  /\ At(r, "cred.find")
  /\ IF \E src \in srcs : src.sub = req[r].sub THEN Return(r) ELSE GoTo(r, "cred.idn")
  /\ UNCHANGED <<tables, lapsed, browser>>

\* NewIdn, for the login in the request's copy of the state, empty or not.
CredentialIdn(r) ==
  LET c == req[r].copy IN
  /\ At(r, "cred.idn")
  /\ \/ /\ NewIdn(r, c.app, c.login, "passkey", c.challenge)
        /\ req' = [req EXCEPT ![r].pc = "cred.src", ![r].idn = r]
     \/ /\ LoginTaken(c.app, c.login)
        /\ Return(r)
        /\ UNCHANGED idns
  /\ UNCHANGED <<states, otps, codes, atoks, srcs, lapsed, browser>>

\* NewIdnSrcWithCr, under the provider of the request's copy of the state: the
\* identity of the step before stays even when this insert is refused.
CredentialSrc(r) ==
  LET q == req[r] IN
  /\ At(r, "cred.src")
  /\ \/ /\ \E n \in Count : NewIdnSrc(q, n)
        /\ GoTo(r, "cred.expire")
     \/ /\ SrcRefused(q.idn, q.provider, q.sub)
        /\ Return(r)
        /\ UNCHANGED srcs
  /\ UNCHANGED <<states, otps, codes, atoks, idns, lapsed, browser>>

CredentialExpire(r) == ExpireState(r, "cred.expire", "cred.code")

SignUpNext(r) ==
  \/ \E s \in StateId, l \in Login, p \in Provider : SignUpBegin(r, s, l, p)
  \/ SignUpOtp(r)
  \/ SignUpMail(r)

VerifyNext(r) ==
  \/ \E o \in Request : VerifyBegin(r, o)
  \/ VerifyExpire(r)
  \/ VerifyState(r)
  \/ VerifySet(r)

CredentialNext(r) ==
  \/ \E s \in StateId, k \in Cred : CredentialBegin(r, s, k)
  \/ CredentialFind(r)
  \/ CredentialIdn(r)
  \/ CredentialSrc(r)
  \/ CredentialExpire(r)
  \/ NewCode(r, "cred.code")

===============================================================================
