-------------------------------- MODULE SignIn --------------------------------
(***************************************************************************)
(* POST /sign-in (internal/srv/auth/sign-in.go): the browser submits the   *)
(* login; the server decides how that login signs in, notes it in the auth *)
(* state, and redirects to the password or the passkey page.               *)
(*                                                                         *)
(* A test that fails before the request has changed anything just ends it; *)
(* such an early return leaves every variable as it is, so it appears as a *)
(* guard here, in SignUp, Callbacks and Exchange alike.                    *)
(***************************************************************************)
EXTENDS AuthData

\* State and login are read from the form; the state must not have expired.
SignInBegin(r, s, l) ==
  /\ At(r, "idle")
  /\ Live("state", states, s)
  /\ Begin(r, "signin.list", [Fresh EXCEPT !.tok = s, !.copy = states[s], !.login = l])
  /\ UNCHANGED <<tables, lapsed, browser>>

\* ListProvidersByLogin.
LinkedProviders(a, l) ==
  {src.provider : src \in
    {x \in srcs : idns[x.idn].app = a /\ idns[x.idn].login = l}}

\* RetrieveProviderBySlub: at most one provider.
ProviderBySlug(a, slug) == {p \in Provider : AppOf[p] = a /\ Slug[p] = slug}

\* The provider the login will be asked to use: one of its password and passkey
\* providers (whichever the query returns first; it states no order), the
\* app's password provider when the login has none at all, so that an unknown
\* login looks like a known one, and the canary when it has only others.  An
\* app without a password provider refuses an unknown login: no choice at all.
Choices(a, l) ==
  LET linked == LinkedProviders(a, l)
      usable == {p \in linked : Slug[p] \in {"password", "passkey"}}
  IN  CASE linked = {} -> ProviderBySlug(a, "password")
        [] usable # {} -> usable
        [] OTHER -> {Canary}

SignInList(r) ==
  /\ At(r, "signin.list")
  /\ LET choices == Choices(req[r].copy.app, req[r].login) IN
     \/ /\ choices = {}
        /\ Return(r)
     \/ \E p \in choices :
          req' = [req EXCEPT ![r].provider = p, ![r].pc =
                    IF p # Canary /\ Slug[p] = "passkey" THEN "signin.passkey"
                                                         ELSE "signin.password"]
  /\ UNCHANGED <<tables, lapsed, browser>>

\* Mutated form of SignInPassword: the login goes into the state with the provider.
SignInPasswordSetsLogin(r) ==
  /\ At(r, "signin.password")
  /\ \/ SetAttrs(r, [req[r].copy EXCEPT !.login = req[r].login, !.provider = req[r].provider])
     \/ Conflict(r) /\ UNCHANGED states
  /\ Return(r)
  /\ UNCHANGED <<otps, codes, atoks, idns, srcs, lapsed, browser>>

\* writePasswordSignInRedirect changes the provider alone: login and challenge
\* stay as an earlier page of the same state left them.
SignInPassword(r) ==
  /\ At(r, "signin.password")
  /\ \/ SetAttrs(r, [req[r].copy EXCEPT !.provider = req[r].provider])
     \/ Conflict(r) /\ UNCHANGED states
  /\ Return(r)
  /\ UNCHANGED <<otps, codes, atoks, idns, srcs, lapsed, browser>>

\* Mutated form of SignInPasskey: a challenge that the state has is left in it.
SignInPasskeySameChallenge(r) ==
  /\ At(r, "signin.passkey")
  /\ \/ /\ SetAttrs(r, [req[r].copy EXCEPT !.login = req[r].login,
                                           !.provider = req[r].provider,
                                           !.challenge = IF @ = None THEN r ELSE @])
        /\ GoTo(r, "signin.page")
     \/ /\ Conflict(r)
        /\ Return(r)
        /\ UNCHANGED states
  /\ UNCHANGED <<otps, codes, atoks, idns, srcs, lapsed, browser>>

\* writePasskeySignInRedirect: login, provider and a new challenge together.
SignInPasskey(r) ==
  /\ At(r, "signin.passkey")
  /\ \/ /\ SetAttrs(r, [req[r].copy EXCEPT !.login = req[r].login,
                                           !.provider = req[r].provider,
                                           !.challenge = r])
        /\ GoTo(r, "signin.page")
     \/ /\ Conflict(r)
        /\ Return(r)
        /\ UNCHANGED states
  /\ UNCHANGED <<otps, codes, atoks, idns, srcs, lapsed, browser>>

\* ListIdnSrcByProviderIdAndLogin.  The query does not ask for the app: the
\* provider belongs to one.
KnownSources(p, l) == {src \in srcs : src.provider = p /\ idns[src.idn].login = l}

\* The credentials of the login are listed only now, by a statement of its own,
\* and the redirect carries them and the challenge to the passkey page.
SignInPage(r) ==
  /\ At(r, "signin.page")
  /\ pages' = pages \cup
       {[type |-> "get", state |-> req[r].tok, challenge |-> r, login |-> req[r].login,
         allow |-> {src.sub : src \in KnownSources(req[r].provider, req[r].login)}]}
  /\ Return(r)
  /\ UNCHANGED <<tables, lapsed, mailed, nonce>>

SignInNext(r) ==
  \/ \E s \in StateId, l \in Login : SignInBegin(r, s, l)
  \/ SignInList(r)
  \/ SignInPassword(r)
  \/ SignInPasskey(r)
  \/ SignInPage(r)

===============================================================================
