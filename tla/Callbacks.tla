------------------------------- MODULE Callbacks -------------------------------
(***************************************************************************)
(* The requests that complete a sign-in: POST /cb with a passkey assertion *)
(* or a password (internal/srv/auth/cb.go), and the redirect back from     *)
(* Google (providers.go).  Each ends by spending the auth state and        *)
(* returning an auth code to the client.                                   *)
(***************************************************************************)
EXTENDS AuthData

-------------------------------------------------------------------------------
\* POST /cb when the provider of the state is a passkey provider.

\* An authenticator has signed a challenge with credential k; n is its signature
\* counter.  cbHandler takes the provider from the state; cbPasskey compares the
\* challenge with that of the same copy, and looks k up by provider alone.  That
\* k is one of the credentials the page was given for the login is left to the
\* browser.
PasskeyBegin(r, s, k, n) ==
  /\ At(r, "idle")
  /\ Live("state", states, s)
  /\ states[s].provider \in Provider
  /\ AppOf[states[s].provider] = states[s].app
  /\ Slug[states[s].provider] = "passkey"
  /\ states[s].challenge \in Signable
  /\ Begin(r, "passkey.src", [Fresh EXCEPT !.tok = s, !.copy = states[s], !.sub = k,
                                           !.provider = states[s].provider, !.count = n])
  /\ UNCHANGED <<tables, lapsed, browser>>

\* Step 22: both counters zero (the authenticator keeps none), or an advance.
CountOk(have, got) == (got = 0 /\ have = 0) \/ got > have

\* RetrieveIdnSrc by provider and credential id, then the tests on its record.
PasskeySrc(r) ==
  LET found == SourceOf(req[r].provider, req[r].sub) IN
  /\ At(r, "passkey.src")
  /\ \/ \E src \in found :
          /\ CountOk(src.count, req[r].count)
          /\ req' = [req EXCEPT ![r].pc = "passkey.count", ![r].src = src, ![r].idn = src.idn]
     \/ /\ \A src \in found : ~CountOk(src.count, req[r].count)
        /\ Return(r)
  /\ UNCHANGED <<tables, lapsed, browser>>

\* Mutated form of PasskeyCount: the row is found by its key alone.
PasskeyCountBlind(r) ==
  LET old == req[r].src
      row == CHOOSE src \in srcs : src.idn = old.idn /\ src.provider = old.provider
  IN
  /\ At(r, "passkey.count")
  /\ srcs' = (srcs \ {row}) \cup {[old EXCEPT !.count = req[r].count, !.rev = @ + 1]}
  /\ GoTo(r, "passkey.expire")
  /\ UNCHANGED <<states, otps, codes, atoks, idns, lapsed, browser>>

\* SetAttrsCr: a compare-and-set on the revision of the source, so of several
\* assertions that read the same counter one is accepted.  Comes before the
\* state is spent, and stays if that fails.
PasskeyCount(r) ==
  LET old == req[r].src IN
  /\ At(r, "passkey.count")
  /\ \/ \E row \in srcs :
          /\ row.idn = old.idn /\ row.provider = old.provider /\ row.rev = old.rev
          /\ srcs' = (srcs \ {row}) \cup {[old EXCEPT !.count = req[r].count, !.rev = @ + 1]}
          /\ GoTo(r, "passkey.expire")
     \/ /\ \A row \in srcs :
             ~(row.idn = old.idn /\ row.provider = old.provider /\ row.rev = old.rev)
        /\ Return(r)
        /\ UNCHANGED srcs
  /\ UNCHANGED <<states, otps, codes, atoks, idns, lapsed, browser>>

PasskeyExpire(r) == ExpireState(r, "passkey.expire", "passkey.code")

-------------------------------------------------------------------------------
\* POST /cb when the provider of the state is a password provider.

\* The password page posts the login it shows, whatever login the state names.
PasswordBegin(r, s, l) ==
  /\ At(r, "idle")
  /\ Live("state", states, s)
  /\ states[s].provider \in Provider
  /\ AppOf[states[s].provider] = states[s].app
  /\ Slug[states[s].provider] = "password"
  /\ Begin(r, "password.src", [Fresh EXCEPT !.tok = s, !.copy = states[s], !.sub = l,
                                            !.provider = states[s].provider])
  /\ UNCHANGED <<tables, lapsed, browser>>

\* RetrieveIdnSrc and verifyCredentials: either the password is right for the
\* source that was found, or the request ends at the password page.
PasswordSrc(r) ==
  LET found == SourceOf(req[r].provider, req[r].sub) IN
  /\ At(r, "password.src")
  /\ \/ \E src \in found :
          req' = [req EXCEPT ![r].pc = "password.expire", ![r].idn = src.idn]
     \/ Return(r)
  /\ UNCHANGED <<tables, lapsed, browser>>

PasswordExpire(r) == ExpireState(r, "password.expire", "password.code")

-------------------------------------------------------------------------------
\* GET /providers/{id}/cb: the browser comes back from Google.

\* Mutated form of GoogleBegin: the app of the provider is not compared.
GoogleBeginAnyApp(r, s, p, g, l) ==
  /\ At(r, "idle")
  /\ Live("state", states, s)
  /\ Slug[p] = "google"
  /\ Begin(r, "google.expire", [Fresh EXCEPT !.tok = s, !.copy = states[s],
                                             !.provider = p, !.sub = g, !.login = l])
  /\ UNCHANGED <<tables, lapsed, browser>>

\* g is the Google account, named by the address it was opened with; l is its
\* present address, which becomes the login of a new identity.
\* No test asks for the slug: only a Google provider has a client secret that
\* the KMS can decrypt, so for any other the request ends before it changes anything.
GoogleBegin(r, s, p, g, l) ==
  /\ At(r, "idle")
  /\ Live("state", states, s)
  /\ Slug[p] = "google"
  /\ AppOf[p] = states[s].app
  /\ Begin(r, "google.expire", [Fresh EXCEPT !.tok = s, !.copy = states[s],
                                             !.provider = p, !.sub = g, !.login = l])
  /\ UNCHANGED <<tables, lapsed, browser>>

\* The state is spent first: the exchange with Google that follows may fail,
\* and the sign-in then starts over at the client.
GoogleExpire(r) == ExpireState(r, "google.expire", "google.find")

\* The id token is fetched, then RetrieveIdnBySrc looks the subject up.
GoogleFind(r) ==
  LET found == SourceOf(req[r].provider, req[r].sub) IN
  /\ At(r, "google.find")
  /\ \/ \E src \in found : req' = [req EXCEPT ![r].pc = "google.code", ![r].idn = src.idn]
     \/ found = {} /\ GoTo(r, "google.idn")
  /\ UNCHANGED <<tables, lapsed, browser>>

GoogleIdn(r) ==
  LET a == AppOf[req[r].provider] IN
  /\ At(r, "google.idn")
  /\ \/ /\ NewIdn(r, a, req[r].login, "google", None)
        /\ req' = [req EXCEPT ![r].pc = "google.src", ![r].idn = r]
     \/ /\ LoginTaken(a, req[r].login)
        /\ Return(r)
        /\ UNCHANGED idns
  /\ UNCHANGED <<states, otps, codes, atoks, srcs, lapsed, browser>>

GoogleSrc(r) ==
  LET q == req[r] IN
  /\ At(r, "google.src")
  /\ \/ /\ NewIdnSrc(q, 0)
        /\ GoTo(r, "google.code")
     \/ /\ SrcRefused(q.idn, q.provider, q.sub)
        /\ Return(r)
        /\ UNCHANGED srcs
  /\ UNCHANGED <<states, otps, codes, atoks, idns, lapsed, browser>>

PasskeyNext(r) ==
  \/ \E s \in StateId, k \in Cred, n \in Count : PasskeyBegin(r, s, k, n)
  \/ PasskeySrc(r)
  \/ PasskeyCount(r)
  \/ PasskeyExpire(r)
  \/ NewCode(r, "passkey.code")

PasswordNext(r) ==
  \/ \E s \in StateId, l \in Login : PasswordBegin(r, s, l)
  \/ PasswordSrc(r)
  \/ PasswordExpire(r)
  \/ NewCode(r, "password.code")

GoogleNext(r) ==
  \/ \E s \in StateId, p \in Provider, g, l \in Login : GoogleBegin(r, s, p, g, l)
  \/ GoogleExpire(r)
  \/ GoogleFind(r)
  \/ GoogleIdn(r)
  \/ GoogleSrc(r)
  \/ NewCode(r, "google.code")

===============================================================================
