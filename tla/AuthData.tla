------------------------------- MODULE AuthData -------------------------------
(***************************************************************************)
(* What the requests of the auth server share: the rows of the database,   *)
(* what the browser has been given, and what each request being served     *)
(* holds in its local variables.                                           *)
(*                                                                         *)
(* A request is served by a goroutine of its own.  Between two requests    *)
(* there is nothing but the database: every SQL statement commits by       *)
(* itself, no handler opens a transaction, and each handler works on the   *)
(* objects it read at its start.  So a step of the model is one statement  *)
(* together with the local tests that follow it, and the steps of          *)
(* different requests interleave freely.                                   *)
(*                                                                         *)
(* Identifiers and challenges are random in the code and never repeat.  A  *)
(* request draws at most one of each kind, so here each is named by the    *)
(* request that drew it.  Redirect URIs, relying-party names and client    *)
(* state are copied along with the app and client they belong to and are   *)
(* left out; an app and its OAuth client id are one to one.                *)
(***************************************************************************)
EXTENDS Naturals

CONSTANTS
  App,        \* apps, each with its OAuth client id
  Provider,   \* rows of the providers table; no code changes them
  AppOf,      \* the app of a provider
  Slug,       \* the kind of a provider
  Login,      \* email addresses
  Cred,       \* credential ids the user's authenticators make
  Count,      \* values of an authenticator's signature counter
  Seeded,     \* identities made beforehand, as <<provider, login, sub>>
  StateId,    \* identifiers of auth states
  Request,    \* requests to serve; each slot serves one request
  Served,     \* the endpoints a run calls, and "fail" if requests may fail
  Lapsing,    \* the kinds of token a run lets expire
  Canary,     \* canaryProviderId: stands for a provider, has no row
  None        \* an empty string, an absent row, an unset local variable

Slugs == {"passkey", "password", "google"}

ASSUME ProviderAssumption ==
  /\ AppOf \in [Provider -> App]
  /\ Slug \in [Provider -> Slugs]
  \* "providers.unique"
  /\ \A p, q \in Provider : AppOf[p] = AppOf[q] /\ Slug[p] = Slug[q] => p = q

ASSUME NoneAssumption ==
  /\ None \notin App \cup Provider \cup Login \cup Cred \cup StateId \cup Request
  /\ Canary \notin Provider \cup {None}

\* Identifiers of different kinds differ.
ASSUME NameAssumption == Request \cap (Provider \X Login) = {} /\ Login \cap Cred = {}

\* Zero is the counter of sources that have none.
ASSUME CountAssumption == Count \subseteq Nat /\ 0 \in Count

\* One identity for a login of an app, one source for a subject of a provider.
ASSUME SeededAssumption ==
  /\ Seeded \subseteq Provider \X Login \X (Cred \cup Login)
  /\ \A x \in Seeded : x[3] \in Cred <=> Slug[x[1]] = "passkey"
  /\ \A x \in Seeded : Slug[x[1]] = "password" => x[3] = x[2]
  /\ \A x, y \in Seeded :
       \/ AppOf[x[1]] = AppOf[y[1]] /\ x[2] = y[2]
       \/ x[1] = y[1] /\ x[3] = y[3]
       => x = y

VARIABLES
  states,   \* auth.state| rows of the tokens table, by id
  otps,     \* auth.otp| rows, by the request that created them
  codes,    \* auth.code| rows, by the request that created them
  atoks,    \* auth.token| rows, by the request that created them
  idns,     \* the idns table
  srcs,     \* the idn_srcs table
  lapsed,   \* tokens whose expiry instant the clock has passed
  req,      \* the local state of each request
  pages,    \* passkey pages the browser has been redirected to
  mailed,   \* one-time codes the user finds in the inbox
  nonce     \* the nonce cookie: the one-time code it is the hash of, or None

tables == <<states, otps, codes, atoks, idns, srcs>>

browser == <<pages, mailed, nonce>>

vars == <<tables, lapsed, req, browser>>

-------------------------------------------------------------------------------
\* Rows.  spentBy is the exp column as Expire sees it: None while the column
\* holds the instant given at creation; once it holds the zero time, the
\* request that put it there (the column tells only that some request did).
\* state and code are history: where a code and an access token come from.

Maybe(S) == S \cup {None}

StateRow == [app : App, login : Maybe(Login), provider : Maybe(Provider \cup {Canary}),
             challenge : Maybe(Request), rev : Nat, spentBy : Maybe(Request)]

OtpRow == [login : Login, provider : Provider, state : StateId, spentBy : Maybe(Request)]

IdnId == Request \cup (Provider \X Login)

CodeRow == [client : App, provider : Provider \cup {Canary}, sub : IdnId,
            state : StateId, spentBy : Maybe(Request)]

TokenRow == [app : App, provider : Provider \cup {Canary}, sub : IdnId, code : Request]

\* The login is whatever the state held, so it may be empty.  via and challenge
\* are history: a seeded identity, a passkey sign-up or a Google sign-in, and the
\* challenge that the passkey was made for.
IdnRow == [app : App, login : Maybe(Login), via : {"seed", "passkey", "google"},
           challenge : Maybe(Request)]

SrcRow == [idn : IdnId, provider : Provider, sub : Cred \cup Login, count : Count, rev : Nat]

\* A page the browser shows: navigator.credentials.create() for a sign-up,
\* navigator.credentials.get() for a sign-in, with the challenge it signs, the
\* login it was opened for and the credential ids the server allows.
Page == [type : {"create", "get"}, state : StateId, challenge : Request,
         login : Login, allow : SUBSET (Cred \cup Login)]

ASSUME RowAssumption ==
  /\ None \notin StateRow /\ None \notin OtpRow /\ None \notin CodeRow
  /\ None \notin TokenRow /\ None \notin IdnRow

\* How far a request has come: what it does next, by endpoint, or how it ended.
Stage ==
  {"idle", "done", "failed"}
    \cup {"signin.list", "signin.password", "signin.passkey", "signin.page"}
    \cup {"signup.otp", "signup.mail", "verify.expire", "verify.state", "verify.set"}
    \cup {"cred.find", "cred.idn", "cred.src", "cred.expire", "cred.code"}
    \cup {"passkey.src", "passkey.count", "passkey.expire", "passkey.code"}
    \cup {"password.src", "password.expire", "password.code"}
    \cup {"google.expire", "google.find", "google.idn", "google.src", "google.code"}
    \cup {"token.expire", "token.insert", "token.sign"}

\* The local variables of a handler, by the names of the code: the token it
\* works on and its copy of that row, the client that asks for an access token,
\* the login it signs in or up, the provider and the subject it looks up, the
\* counter of the assertion, the identity it found or made, and its copy of the
\* identity source.
Local == [pc : Stage, tok : Maybe(StateId \cup Request),
          copy : Maybe(StateRow \cup CodeRow), client : Maybe(App),
          login : Maybe(Login), provider : Maybe(Provider \cup {Canary}),
          sub : Maybe(Cred \cup Login), count : Maybe(Count),
          idn : Maybe(IdnId), src : Maybe(SrcRow)]

Fresh == [pc |-> "idle", tok |-> None, copy |-> None, client |-> None, login |-> None,
          provider |-> None, sub |-> None, count |-> None, idn |-> None, src |-> None]

Done == [Fresh EXCEPT !.pc = "done"]

Failed == [Fresh EXCEPT !.pc = "failed"]

\* A token can be used: its row has not been spent and has not run out.
Live(kind, table, id) ==
  /\ table[id] # None
  /\ table[id].spentBy = None
  /\ <<kind, id>> \notin lapsed

\* The challenges that a client can put into the data of a credential: those of
\* the pages the browser has been sent to, and the empty one, which is also that
\* of a state in which no page has been opened yet.  (The handlers compare the
\* challenge as a string, and the credential ids of a page are for its script
\* alone: no handler compares them.)
Signable == {None} \cup {pg.challenge : pg \in pages}

-------------------------------------------------------------------------------
\* What a step does to the request: go on at pc with the locals given by
\* rec, or return.

At(r, pc) == req[r].pc = pc

Begin(r, pc, rec) == req' = [req EXCEPT ![r] = [rec EXCEPT !.pc = pc]]

GoTo(r, pc) == req' = [req EXCEPT ![r].pc = pc]

Return(r) == req' = [req EXCEPT ![r] = Done]

-------------------------------------------------------------------------------
\* Statements that several handlers run.

\* AuthState.SetAttrs: all attributes are replaced, the revision goes up, and
\* the update finds a row only if the row still has the copy's revision.  It
\* neither reads nor writes exp.
SetAttrs(r, attrs) ==
  LET s == req[r].tok IN
  /\ states[s].rev = req[r].copy.rev
  /\ states' = [states EXCEPT ![s] = [attrs EXCEPT !.rev = @ + 1, !.spentBy = states[s].spentBy]]

Conflict(r) == states[req[r].tok].rev # req[r].copy.rev

\* Mutated form of ExpireState: the zero time is stored whatever the row holds.
ExpireStateBlind(r, from, to) ==
  /\ At(r, from)
  /\ states' = [states EXCEPT ![req[r].tok].spentBy = r]
  /\ GoTo(r, to)
  /\ UNCHANGED <<otps, codes, atoks, idns, srcs, lapsed, browser>>

\* Mutated form of ExpireState: the state is compared by revision, as SetAttrs
\* compares it, so any change of its attributes since the read is a conflict.
ExpireStateByRevision(r, from, to) ==
  /\ At(r, from)
  /\ \/ /\ states[req[r].tok].spentBy = None
        /\ ~Conflict(r)
        /\ states' = [states EXCEPT ![req[r].tok].spentBy = r]
        /\ GoTo(r, to)
     \/ /\ states[req[r].tok].spentBy # None \/ Conflict(r)
        /\ Return(r)
        /\ UNCHANGED states
  /\ UNCHANGED <<otps, codes, atoks, idns, srcs, lapsed, browser>>

\* state.Expire: the copy passed the expiry test, so its exp is not zero, and
\* the update finds the row unless another request has spent it since.  The
\* attributes may have changed meanwhile: exp alone is compared.
ExpireState(r, from, to) ==
  /\ At(r, from)
  /\ \/ /\ states[req[r].tok].spentBy = None
        /\ states' = [states EXCEPT ![req[r].tok].spentBy = r]
        /\ GoTo(r, to)
     \/ /\ states[req[r].tok].spentBy # None
        /\ Return(r)
        /\ UNCHANGED states
  /\ UNCHANGED <<otps, codes, atoks, idns, srcs, lapsed, browser>>

\* Mutated form of NewCode: the provider is the one in the state.
NewCodeStateProvider(r, from) ==
  /\ At(r, from)
  /\ codes' = [codes EXCEPT ![r] =
       [client |-> req[r].copy.app, provider |-> req[r].copy.provider, sub |-> req[r].idn,
        state |-> req[r].tok, spentBy |-> None]]
  /\ Return(r)
  /\ UNCHANGED <<states, otps, atoks, idns, srcs, lapsed, browser>>

\* NewAuthCode and the redirect to the client, at the end of every successful
\* sign-in and sign-up: the attributes come from the request's own copies.
NewCode(r, from) ==
  /\ At(r, from)
  /\ codes' = [codes EXCEPT ![r] =
       [client |-> req[r].copy.app, provider |-> req[r].provider, sub |-> req[r].idn,
        state |-> req[r].tok, spentBy |-> None]]
  /\ Return(r)
  /\ UNCHANGED <<states, otps, atoks, idns, srcs, lapsed, browser>>

\* "idns.unique": no two identities of an app share a login.
LoginTaken(a, l) == \E i \in IdnId : idns[i] # None /\ idns[i].app = a /\ idns[i].login = l

\* Mutated form of SrcRefused: no foreign key to providers.
SrcRefusedWithoutKey(i, p, k) == \E src \in srcs : src.provider = p /\ (src.idn = i \/ src.sub = k)

\* "idn_srcs.pkey", "idn_srcs.unique" and the foreign key to providers.
SrcRefused(i, p, k) ==
  \/ p \notin Provider
  \/ \E src \in srcs : src.provider = p /\ (src.idn = i \/ src.sub = k)

\* NewIdn: an insert of its own; refused when the login is taken.
NewIdn(r, a, l, via, c) ==
  /\ ~LoginTaken(a, l)
  /\ idns' = [idns EXCEPT ![r] = [app |-> a, login |-> l, via |-> via, challenge |-> c]]

\* NewIdnSrc and NewIdnSrcWithCr, for the identity, provider and subject that q
\* holds, with the first value n of the counter (zero where there is none).
NewIdnSrc(q, n) ==
  /\ ~SrcRefused(q.idn, q.provider, q.sub)
  /\ srcs' = srcs \cup {[idn |-> q.idn, provider |-> q.provider, sub |-> q.sub,
                         count |-> n, rev |-> 1]}

\* RetrieveIdnSrc and RetrieveIdnBySrc: the source of a subject, if it has one.
SourceOf(p, k) == {src \in srcs : src.provider = p /\ src.sub = k}

\* The client goes away, a statement or the KMS fails, the process is killed:
\* the request stops between two of its steps, and what it wrote stays.
Fail(r) ==
  /\ req[r].pc \notin {"idle", "done", "failed"}
  /\ req' = [req EXCEPT ![r] = Failed]
  /\ UNCHANGED <<tables, lapsed, browser>>

===============================================================================
