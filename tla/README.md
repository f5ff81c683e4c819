# Verification of tknz

tknz is an authentication server in Go: it signs users in for client
applications (OpenID Connect), with a password, a passkey or Google, signs users
up with a passkey and a mailed one-time code, and gives the client an access
token, which its gRPC services then accept. This directory holds TLA+ models of
the server, the TLC configurations that check them on small instances, and TLAPS
proofs.

The server keeps nothing in memory between two requests except caches. All
shared state is in PostgreSQL, every SQL statement commits by itself, and **no
handler opens a transaction**. What keeps concurrent requests apart is two
compare-and-set updates, on a token's expiry instant (`token.Expire`) and on a
row's revision (`SetAttrs`), and one mutex, that of the key cache. Most of what
is stated here is about whether those three are enough.

## 1. Inventory

| Component | State | Operations | What makes it correct |
|---|---|---|---|
| Tokens table (`internal/db/tokens.go`) | rows id, exp, attrs; the clock; each caller's object | insert, retrieve, Expired, Expire | a token is spent once, by one who found it live; a refusal has a winner |
| Kinds of token (`db/auth-*.go`) | attributes of those rows, revision of a state | New…, Retrieve…, SetAttrs | no update is lost; a state describes one page at a time |
| Identities and sources (`db/idns.go`, `db/providers.go`) | login of an app; subject of a provider; credential record | insert, lookups, SetAttrs, SetAttrsCr, SetAttrsPwd | unique login per app; every subject of a code has a source |
| Sign-in form (`srv/auth/sign-in.go`) | – | choose provider, update state, redirect | challenge and login of a state stay together |
| Sign-up (`srv/auth/sign-up.go`, `credentials.go`, `cookies.go`) | nonce cookie, mail | mail a code, spend it, store a credential | the login of a new identity, if it has one, has been verified |
| Callbacks (`srv/auth/cb.go`, `providers.go`) | – | passkey, password, Google | one code per sign-in, for the right identity of the right app; the signature counter advances |
| OIDC (`srv/oidc`, `srv/auth/tokens.go`) | – | authorize, token, keys | one access token per code, to the code's own client |
| Access tokens and system keys (`srv/auth/tokens.go`, `db/jwks.go`, `srv/authn.go`) | token rows; keys and their operations | issue, sign, publish keys, check | refused for a cause only, though keys rotate; the identity claimed is the one found |
| Spaces (`srv/spaces.go`) | identity's space id; spaces | Create | one space per identity, never replaced |
| Authn, federated tokens (`srv/authn.go`, `jose/jwt`, `jose/jws`) | – | Check | genuine at the moment of acceptance; refused for a cause only |
| JWKS cache (`jose/jwk/cache.go`) | keys per issuer, one mutex | Fetch | serves what the issuer published, for no longer than the lifetime; everybody gets an answer, unless an issuer keeps a fetch for ever |
| Client assertions (`oidc/token.go`, `cmd/mkjwks`, `cmd/mkjwt`, `kms/ec.go`) | keys of an app | make keys, make and judge an assertion | nothing but what is good is accepted; what is good is refused for a cause only |
| Passkey bytes (`auth/credentials.go`, `cb.go`) | stored public key | decode, store, decode again | no slice out of range, no byte unaccounted for; what was registered signs in |
| KMS, mail, files, templates, web application | – | – | see section 8 |

How they interact: the browser is redirected to `/authorize`, which inserts an
auth state. Its id travels through all pages and forms. `POST /sign-in` looks
the login up and writes provider (and, for a passkey, login and challenge) into
the state. `POST /cb` or Google's redirect proves who the user is, spends the
state and inserts an auth code, which the client, after a good assertion,
exchanges at `POST /token` for an access token and an ID token. Sign-up hangs a
one-time code on the state: `GET /sign-up` spends it and writes the verified
login into the state, `POST /credentials` makes an identity out of whatever the
state then says, and spends it. The gRPC services take the access token (checked
with the key that signed it, and its row) or a token of an issuer the app trusts
(checked with that issuer's keys, which the cache fetches).

What is hard: the state is a shared mutable record that several tabs rewrite;
each handler decides on a copy it read at its start; every multi-statement
handler may stop half way; tokens lapse between the look and the spending; a
form may be posted twice; keys rotate between a signature and its check; one
mutex is held while a stranger's server is asked; lengths are declared by whoever
sends the bytes. All hazards, with the line where each bites and the properties
that watch it, are in `PROJECT.json`.

## 2. Modules

    SingleUse            what a single-use token promises
      ^    ^
      |    +-- Tokens ---- MCTokens, TokensProofs
      |
    AuthServer ---- MCAuthServer, AuthServerProofs <- ChallengeProofs <- SourceProofs
      = SignIn + SignUp + Callbacks + Exchange   (all on AuthData)

    Revisions ---- MCRevisions, RevisionsProofs

    AccessTokens <-- Spaces ---- MCSpaces, SpacesProofs       Spaces implements AccessTokens
    JwksCache <-- Federation ---- MCFederation, FederationProofs   Federation implements JwksCache

    WebAuthn, ClientAssertion ---- MCFormats, FormatsProofs

* **SingleUse** is the abstract specification: issue, lapse, see, forget, spend.
* **Tokens** is the table with its clock. One action is one statement with the
  tests on the caller's object that follow it. `exp` is the column (`Zero` is Go's
  zero time, which `Expire` stores), `copy` the object, `spentBy` a history
  variable. Refused and successful callers may call `Expire` again, which the
  `IsZero` test in the code is about. Time is counted in microseconds, to which
  `insert` cuts the instant.
* **AuthData** holds the shared variables of the server: the token rows by kind,
  identities, sources, the browser (pages, mail, nonce cookie),
  and the local variables of each request (`req[r]`, with the program counter
  `pc`, its token `tok`, and the copy of the row it read, `copy`), and the
  statements that several handlers run (`SetAttrs`, `ExpireState`, `NewCode`).
* **SignIn**, **SignUp**, **Callbacks**, **Exchange** have the handlers, one action
  per SQL statement with the local tests after it. A test that fails before the
  request has changed anything is a guard: such a request leaves no trace. Random
  values never repeat, so a challenge or id is named by the request that drew it. A
  form may be posted to any live state at any time: what the code compares is a guard,
  and what only the pages of the server arrange is none. `POST /credentials` and `POST
  /cb` compare challenges, which the client puts into the data it posts, so it can be
  that of any page, or the empty one of a state without a page (`Signable`); the
  credential need not be one the page offered. Redirect URIs, relying-party names and
  client state are copied along with the app and left out.
* **AuthServer** composes the handlers: requests interleave freely at every
  statement, tokens lapse (`Lapse`), and any request may stop anywhere (`Fail`:
  a closed connection, a failed statement, a killed process; what it wrote stays).
* **Revisions** is optimistic locking with the integer as it is: an int32 that
  starts anywhere, wraps, is not stored when it is zero, and then equals
  nothing. AuthData counts revisions in `Nat`.
* **AccessTokens** is the life of an access token after its code is spent: the row is
  inserted, a key is looked up for the access token and once more for the ID token
  (`FindKey`, `FindIdKey`), clients verify with what `GET /jwks.json` lists (`Jwks`),
  the services check (`VerifyToken`, by the kid in the token, then `Identify`, one
  query that compares `exp > now`). A statement of the check that fails is answered
  like a bad token (`RefusedByError`), and `err`, a history variable, remembers it.
  `ListJwks` returns all rows, or as many as its limit (`MaxJwks`) allows, in any
  choice, or fewer when the rows end early, which the code does not ask about. `jwks`
  says how far the operator has moved each key: absent, signing, retired (no "sign"
  operation), gone.
* **Spaces** is `Spaces.Create` on top of it, three statements without a transaction.
  Identities have a status and a revision that starts in `FirstRev`; the update finds no row
  whose revision is zero, as in Revisions. `idns` is shared by racing calls.
* **JwksCache** is `jwk.Fetch`. `mutex` is the mutex, taken by `Miss` and kept until the
  answer is stored (`Fill`) or the fetch fails; `Hit` takes and releases it in one
  step. Issuers change their sets at any time (`Turn`; `changed` is a history
  variable), answer with the set of that moment (`Respond`), with an error body that
  the code takes for an empty set (`RespondError`), or not at all (`FetchFails`).
* **Federation** is `Check` of a federated token on top of it: the federation row
  by issuer (`CheckJwt`), the key by kid, signature and claims with the clock read after
  the fetch (`Verify`), the identity by login, issuer and audience (`Lookup`). A failing
  statement of the two lookups ends the check with a refusal or an error.
* **WebAuthn** follows `decodeAuthenticatorData` step by step. A byte string is the
  record of what it declares (flags, lengths, key type) and of how many bytes it has;
  `offset` is `l` in the code and `read` the end of the furthest slice taken.
  `Register` and `SignIn` are the two handlers: what is stored is decoded again. The
  CBOR decoder reads blocks, so what it leaves unread is any number of bytes up to the
  rest.
* **ClientAssertion** is the path of an assertion: the keys that `mkjwks` prints and
  the operator stores, naming none, some or several alike; an assertion by a library,
  with or without `typ`, or by `mkjwt`; the keys the request reads (`RetrieveApp`,
  `held`), with which `jwtValidate` judges it later. Of a signature the widths of its
  two coordinates are kept.

Definitions commented as a *mutated form* are wrong versions of the next
definition. The `mutants` in `PROJECT.json` put each in its place and show that
the property named there then fails.

Abstractions worth knowing: the clock of AuthServer is "an issued token that is
not spent may lapse at any moment", justified by Tokens, where the comparison is
real and both implement SingleUse; wrong passwords and bad signatures are free
choices that end the request; the authenticator's counter in an assertion is
any value of `Count`; a signature verifies exactly with the key it was made with.

## 3. Runs

| Run | Module | What it asks | States |
|---|---|---|---|
| `tokens` | MCTokens | one winner per token, no spurious refusal, SingleUse implemented | 36,203 |
| `signup` | MCAuthServer | a passkey identity has a verified login or none, in every interleaving with sign-in forms in other tabs, with states and codes running out | 381,983 |
| `completes` | MCAuthServer | at most one code per state and, under fairness, at least one; assertions with a credential of the page are for its login; counters advance | 213,093 |
| `exchange` | MCAuthServer | one access token per code; apps are kept apart; subjects have sources; requests stop anywhere | 584,149 |
| `revisions` | MCRevisions | no lost update, though the integer wraps and zero is not stored | 1,013 |
| `spaces` | MCSpaces | tokens are refused for a cause though keys rotate; published keys suffice; an identity keeps its space though calls race and stop | 797,938 |
| `authn` | MCFederation | what the cache serves was published; a token is accepted only if genuine; every check is answered unless a fetch never ends | 130,138 |
| `formats` | MCFormats | authenticator data of every shape; assertions of two signers | 259,808 |
| `stranded`, `identified`, `extensions`, `assertion` | | violations, see section 5 | |

The properties, by the question they answer:

* *Who wins a race for a token?* `AtMostOneWinner`, `ConflictHasWinner`, `Custody`
  in Tokens, and the refinement `ImplementsSingleUse`; `TokensSingleUse` is the same
  promise for auth states, one-time codes and auth codes of the whole server,
  with a refinement mapping for each; `OneCodePerState`, `OneTokenPerCode`.
* *Does the state mean what its readers think?* `ChallengeOwnsLogin`: as long as a
  page's challenge is the one in the state, so is its login. `PasskeyMatchesLogin`
  and `CredentialMatchesPage` are what that is for, in handlers that never compare
  logins themselves. The first one is about credentials that the page offered, since
  no handler asks whether it did (see `identified` in section 5), the second one
  about credentials made for the challenge of a page. `VerifiedLogin`: a login that became
  an identity was proved; an identity without a login is possible.
* *Are results about the right identity?* `SubjectIdentified`, `SubjectOfApp`,
  `KnownAsClaimed`. `SubjectOfApp` excepts the providers that a verified sign-up form
  named in a state of another app (`ForeignForm`), which `POST /sign-up` does not
  compare. The run asks it of Google's endpoint and the token exchange, where no form
  is foreign; the theorem of all endpoints.
* *Does the counter of an authenticator only advance?* `CounterAdvances`, an
  action property.
* *Does anybody get through?* `SomeoneCompletes` and `ChecksReturn`, both leads-to.
* *Are updates and quotas safe?* `NoLostUpdate`, `ConflictMeansChangeOrZero`,
  `SpaceKept`, `SpaceOwned`, `OwnedUnlessRacedOrZero`.
* *Do keys that rotate refuse or admit the wrong token?* `RefusedForCause` in
  AccessTokens and again in Federation, `IdTokensVerifiable`, `AsPublished`, `ServedInTime`,
  `FetchOnlyWhenStale`, `GenuineAtAcceptance`, `AcceptedIsGood`,
  `AssertionRefusedForCause`.
* *Are lengths safe and bytes kept?* `WithinData`, `EveryByteCounts`,
  `DecodedUnlessExtensions`, `RegisteredSignsIn`.

### Bounds, and why they are enough

Each request slot of AuthServer and Spaces serves one request, so a run's `Request`
set bounds the work, and `Served` names the endpoints of the run. Deadlock
checking is off because these models really stop when all slots are used.

* A race needs two requests at the racing statement and a third to disturb them.
  `tokens` has three requests on two rows, a lifetime of 2 and a clock up to 6,
  so a row can be inserted late, lapse, and be spent after it lapsed.
* `signup` has five slots: a complete sign-up takes three (form, link,
  credential) and two are left for a second sign-up's form, or for sign-in forms in
  between. `Login` has two values, so a state can change hands; states and
  one-time codes lapse.
* `completes` has one state: that its requests compete is the point. Four requests are
  two forms and two completions, or one form and three. There are two apps, with
  passkey providers of their own; at the first one a login has a passkey and the other
  one a password, at the second one both have passkeys, so that an assertion may come
  with a credential of either login; there at most three requests begin
  (`ThreeAtSecondApp`), which is two forms and an assertion, or a form and two
  assertions. The bound cuts off no step that fairness speaks of. Counters are 0 and
  1: equal, ahead and none are all there.
* `exchange` has two apps, each with a Google provider: two callbacks and two
  token requests, in any mix of apps and clients; codes lapse, and every request may fail
  between any two of its statements.
* `identified` has one app, two logins with a passkey each, and three requests; two
  are enough.
* `revisions` uses a 3-bit integer (`Half` is 4). It starts at zero or above and a
  row at zero is frozen, so no row takes more than the seven updates allowed by
  `MaxWrites`. That is also why `NoLostUpdate` needs no condition: the integer
  wraps, but it passes zero before it can come round to a stale copy.
* `spaces` has two identities, two EC keys, two names and three requests: one that
  issues a token and two that call with it, or two that issue and one that calls. A
  lifetime of 1 and a clock up to 1 reach the expiry instant itself. Keys move through
  all four stages, statements fail anywhere. Revisions start at zero or one
  (`FirstRev`), one identity at most being suspended or at zero (`OneOutOfOrder`), and
  one row of keys is listed at most (`MaxJwks`), so that two do not fit.
* `authn` has two issuers with a key each, two callers and two apps, of which the
  second trusts nobody. A cache entry lives 0, so it serves at the very instant it is
  filled at and is stale at the next; the clock goes up to 2, one key is withdrawn or
  published anew (`MaxTurns` is 1). One token runs out after the first instant, so
  a fetch may outlast it; the other one is signed with the other issuer's key.
* `formats` takes ids of 16, 1023 (the limit) and 1024 bytes, keys of 77, extensions
  of 1, every flag and every combination of key type and algorithm, data cut in each
  part of it, exact, and too long. Three key files, one not of P-256, in lists of one
  and two (`FileList`), each key with the one name there is (`Kid`) or with none, so
  that names are unique, repeated, absent and mixed; coordinates of 31 and 32 bytes
  (`Width`: padding is needed, or not); a client's clock up to one ahead. The proofs
  take any lists and widths.
* `Request`, `Proc` and the other interchangeable names are symmetry sets in the
  safety runs. `tokens`, `authn` and `completes` use none: a step property with history,
  and liveness.

### Fairness

`FairSpec` assumes weak fairness of each request that has been accepted: it runs in
a goroutine of its own, all statements return, and it waits for no lock and no other
request. Nothing is assumed about the arrival of requests or about the clock,
and `completes` does not serve `fail`. Under it `SomeoneCompletes` says: once a
request has proved who the user is, the client gets a code, whatever sign-in forms
other tabs post. That is so because `Expire` compares the expiry instant only; a
version that compared the revision would let a form refuse everybody (the mutant
`ExpireStateByRevision`). Google's callback spends the state before it knows the
user, so it is not part of the promise.

`FairFederation` assumes that a goroutine that runs goes on (weak fairness of `Fill`,
`Verify`, `Lookup`), and that a mutex which is free again and again is handed to
everyone who waits (strong fairness of `Acquire`; `sync.Mutex` switches to its
starvation mode after a millisecond). Nothing is assumed of `Arrive`: that a fetch
ends is not the server's doing, for `http.DefaultClient` has no timeout
(`cache.go:65`). `ChecksReturn` says what is left: a check is answered, or some
caller's fetch goes on for ever, its own or that of another one, maybe of another
issuer; and that is all that can stop it.

## 4. Proofs

The proofs hold for any values of the constants that satisfy the named assumptions
of the modules, which TLC evaluates in the runs.

**TokensProofs.** `AtMostOneWinner` is not inductive: from a state in which two
requests hold `live` and the column already changed back, both could win. The
inductive invariant is `IInv == TypeOK /\ Custody`. `Custody` says of each request
what its own copy is worth: while it holds a live token the row is as it read it or
zero, and not spent by itself; once refused, the row is zero; once successful,
`spentBy` is this request; and a row is zero exactly when somebody spent it. Two
requests that are both `spent` on one row are then both its `spentBy`, hence
equal. The refinement `TableIsSingleUse` maps `Insert` to Issue, `Tick` to Lapse of all
rows whose instant it passes, `Retrieve` to See (or a stutter when the row is
expired), a successful `Expire` to Spend, a refused one and `End` to Forget.

**AuthServerProofs.** `ServerInv` is types, for each state that it has a login when it has
a challenge (`Challenged`), and for each request r a statement `Mine(r)`: what its
local variables are at each stage (`Locals`), and who has spent what (`Custody`): r has
spent the state it holds after its own Expire, and a code's state was spent by the
request that made the code. `OneCodePerState` follows: two codes of one state have
one spender, who made both. `Leaves(r)` says what a step of r leaves to others: it moves
no other request, no row goes away, nobody's `spentBy` is replaced. So each of the
thirty-odd actions has to show `Mine` of its own request only. For `ServerTokensSingleUse`
a step is one of five things for each kind of token (`Uses`): the request goes on with
its token, gives it up, finds one live, spends its own, or adds one; each is a step
of SingleUse or a stutter. The clock is `Lapse`, and as only tokens that are there lapse
(`LapsedIssued`), a new one is never born expired.

**ChallengeProofs.** `ChallengeOwnsLogin` is about a page and a row, but an old copy can
put an old challenge back into the row. The invariant is thus about every state and
every copy that says something (`Says(c, l)`): each request draws one challenge and
says it of one login, and nobody says a challenge before it is drawn (`ChallengeInv`).
`ProofInv` says that a state keeps its app and that a request which has spent a mailed code
holds the login it was mailed to (`Proven`).

**SourceProofs.** A source only advances (`Advances`): its key stays, and a higher
revision comes with a higher counter, or zero on both sides. A row that has the
revision of a copy is the copy (`UpTo`), hence `CounterAdvances` for any number of
assertions that read the same counter, and `SubjectIdentified`, as links stay. The
passkey part (`PasskeyInv`) shows what handlers that never compare logins may rely on:
a page offers only credentials of its login, with the provider its challenge was drawn
with, and only a password form replaces the provider of a challenge, by one that is no
passkey provider and whose pages are therefore refused. So an assertion with a
credential that its page offered is for the page's login (`PasskeyIsOfLogin`); nothing
follows for other credentials. An identity remembers the challenge its passkey was
made for (a history field): it is empty, or there is a page with it and with the login
of the identity, hence `CredentialIsOfPage`.

`LoginIsProven` must not rest on what is posted, as `POST /credentials` takes the
login from the state whatever page was opened. `LoginInv` says of the login of every
state and of every copy that it is empty, or some identity of the app has it, or its
mailed code was spent (`Backed`): a passkey form writes only logins that have a
source, a sign-up only what it has proved. The insert of a new identity excludes the
second case by the unique constraint, which leaves the third, or no login.

That no identity crosses apps (`SubjectOfApp`) is a matter of all endpoints together.
The callbacks compare the app of the provider with the state's, the token endpoint
that of the client with the code's, and the sign-in form looks providers up by the
state's app. `POST /sign-up` compares the slug of the provider that its form names and
nothing else. `AppInv` therefore says: every source links an identity to a provider of
its own app, every request works on a provider of its state's app (or on none, the
canary), codes and access tokens keep the app they come from, and each of these may be
otherwise only for a provider that a verified sign-up form named in a state of another
app (`Foreign`). So `SubjectIsOfApp`, with nothing assumed of any form. The page of
the server offers the providers that `GET /providers` gives for the state, and while
forms come from it no provider is foreign.

**RevisionsProofs.** `Int32` is put on a line by `Pos`: the positive numbers first, then
the negative ones up to the end, zero behind them all. Every update moves one
step along it (`WrapMoves`), and there is no way round because a row at zero is frozen.
`InStep(p)` says that a request's object is behind the row in position exactly as far
as it is in writes; equal revisions then mean equal positions (`PosInjective`) and so
no write in between: `RevisionsNoLostUpdate`, for any width and any number of writes.

**SpacesProofs.** About AccessTokens: `TokenInv == TokenTypeOK /\ TokenCustody`.
Custody ties a request's key and token to the rows: a key found has been signing, a
token presented was given, and its row is there with the subject the answer claims.
About Spaces: `SpaceInv` adds, for each call, what its copy is worth (`Calling`: the
copy's revision is never ahead of the row's, and if they are equal the row still has
no space), and for each identity who made its space (`Owning`). `SpaceKept` needs
exactly the former: an assignment that finds its revision finds the row the test was
made on. `SpacesImplementTokens` shows that Create adds nothing to the life of tokens,
so the theorems of AccessTokens hold of Spaces. What they except is in their
statements: a refusal may come of a statement that failed, a list of keys may be cut
short, and a call that is finished may leave its space ownerless when another call was
first, or when the revision is zero.

**FederationProofs.** `CacheInv` is types with the mutex's owner, `Dated` (no answer is
from the future), `AsPublished` and `FetchOnlyWhenStale`. The latter is inductive only with
the mutex: the caller that fetches is its owner, so nobody else can fill the entry.
`FederationImplementsCache` carries this and `ServedInTime` over to Federation, whose own
invariant adds the types of the checks, `Asking` (the caller of a check asks for the URI
of the federation it found) and `IdentityOfFederation`. `FederationGenuine` combines them.

`FederationRefusedForCause` is the converse, once the federation is found: when
`Verify` refuses a token that is good and whose key is published, the answer it looked
at came (`AsPublished`) from the one issuer the token names. Either it was an error,
or the key is not in it and has changed since it was asked for; if the key is in it,
it is the only one with that kid, so that the code, which takes the first that fits,
takes this one, and does not refuse.

**FormatsProofs.** `DecodeInv` says where the offset is at each stage (`Placed`), what
the stored key is worth (`Kept`), and that nothing was read past the end. From it, for
all lengths: `NeverPastTheEnd`, `DecodedExactly`, `ByTheBookIsDecoded`,
`RegisteredPasskeySignsIn`. The last one excepts what the decoder cannot take at the
sign-in, data that is not by the book or has extensions. About client assertions,
`AssertionInv` says that the keys of an app, and those a request has read, are keys of
curve P-256, by whatever names. The validator takes the *first* key that the name
allows; that there is a first one is the well-foundedness of the numbers (`Least`). So
`AcceptedAssertionIsGood`, for any key lists, names and widths. Its converse,
`GoodAssertionIsAccepted`, lists all that a good assertion is refused for: a header
without `typ`, an earlier key that goes by the same name (for an assertion without a
name: any earlier key, `Hidden`), and short coordinates, which is the finding
`assertion` from its other side.

Proof and run complement each other: the mutants show on the small instances that
dropping a comparison, a reset or a test breaks these properties. `Tokens!TypeOK`,
`IdentityOfFederation` and `WebAuthnTypeOK` are proved and listed in no run.

The theorems of AuthServer assume, beside what identifies apps and providers: None and
the canary are no names and no rows (`NoneAssumption`, `RowAssumption`), the
identifiers of seeded identities are not those of new ones, and logins are no
credentials (`NameAssumption`), counters are natural numbers with zero among them
(`CountAssumption`), and the identities of the start obey the unique constraints and
have passkeys with passkey providers only (`SeededAssumption`). Nothing is assumed
about which endpoints are served, how many requests there are, or what lapses.

Only model-checked: the two liveness properties, `SomeoneCompletes` and
`ChecksReturn`, as the proof system used has no means for fairness. Every other
property of a passing run is a theorem.

## 5. Where text and code disagree

Four runs end in a violation.

* **`stranded`** – identity and source are inserted by two statements, and no
  transaction undoes the first. A sign-in form of another tab can put the canary
  provider, which has no row, into the state: the source is then refused.
  "Service temporarily unavailable." (`errors.go:83`), but the login is taken for good.
* **`identified`** – `cb.go:125` says "Step 6: user was identified before the
  authentication ceremony", for which WebAuthn asks that the credential is one of the
  identified user's. The code looks it up by provider and id, and compares its
  identity neither with the login in the state nor with what the page offered. The
  owner of the credential is signed in, whatever login was typed.
* **`extensions`** – the decoder keeps extension data and leaves its offset before it,
  so that the last test (`len(data) != l`, `credentials.go:561`) refuses all data that
  has any.
* **`assertion`** – `cmd/mkjwt` does not pad the coordinates of a signature; the
  validator wants them in full width. One assertion in 128 is refused, and the test
  that makes its token in the same way and requires success (`token_test.go:78`) fails
  as often.

Seen on the way, and not given a run of their own:

* A password form in another tab replaces the provider alone (`sign-in.go:170`), so that a
  passkey can be stored under the password provider, although `credentials.go:289` says
  that only passkey credentials are supported.
* `POST /credentials` compares the challenge as a string and asks for no login: to a
  state without a page, whose challenge is empty, a credential with an empty challenge
  can be posted. The identity made then has no login. Its source is refused while the
  state has no provider (the foreign key), and stored once a password form has named
  one, and a code follows.
* A failed statement of the check of an access token is answered as an invalid token
  (`authn.go:111`, `authn.go:136`), and so is one of the lookup of a federation
  (`authn.go:150`); only the log tells.
* The keys are listed with a limit of 100 in no order, and `rows.Err` is not asked
  (`jwks.go:139`, `148`): the set published, with status 200, may lack a key.
* An identity whose revision is zero can never be assigned a space (`idns.go:178`):
  the space that `Create` has inserted stays without an owner, though nobody raced.
* The fetch of an issuer's keys has no timeout (`cache.go:65`) and holds the one mutex;
  who waits for it does not look at its own context.
* Sign-up compares the slug of the provider with "passkey" (`sign-up.go:174`) and not its
  app with the state's, and the passkey page lists credentials by provider and login
  without asking for the app of the identity (`idns.go:352`). Apps are kept apart at
  these endpoints as far as the page of an app offers its own providers.
* A revision of zero is not stored (`auth-states.go:116`), and the first update of such a
  state is refused; `auth-states_test.go:22` requires revisions greater than zero.
* Two `Create` calls that pass the quota test together leave the loser's space without
  an owner and its name taken (`spaces.go:67`).
* `mkjwks` says "ignoring key" of an unsupported curve and drops all keys after it too.
* An assertion without a kid is tried with the first key only, one with a kid that two
  keys share with the first of them, and one without the optional `typ` is refused;
  one with alg "none" makes the handler panic, which ends that request.
* The sign-in page does not ask for user verification, which the server requires.
* When the CBOR decoder has read ahead, bytes after the key are stored with it, and every
  sign-in with that passkey then fails. RSA keys without modulus or exponent register.
* An access token is refused at its expiry instant, the other tokens are good at theirs.

## 6. What holds although nothing in one handler says so

* A code is never issued twice for a state, although the state is read, changed
  and spent by different statements of different requests.
* No identity gets a login that was not verified, although `POST /credentials` takes
  the login from a record that any sign-in form rewrites: the password form does not
  touch the login, and the passkey form writes only logins that have an identity
  already, which the unique constraint refuses. (An identity without any login is possible,
  once for each app, for the unique constraint counts the empty login too.)
* A code presented by another app's client is spent, but nothing is issued.
* Access token and ID token of one answer may be signed by two keys, and clients can
  verify both: a retired key stays published, as long as the list holds all keys.
* Callers that miss the cache together do not fetch over each other, because the mutex is
  held across the fetch, for all issuers.

## 7. Plan

Left to do: a larger instance of `authn`, with an issuer that has two keys, for the liveness
property, which only runs can show.

## 8. Not modelled, and why

* KMS: calls that succeed, or fail (`Fail`, `FailJob`); of EC signatures the widths
  are modelled. Cryptography, base64, JSON and the cutting of tokens at their dots are
  functions of one input.
* Apps: inserting them, their redirect URIs and their validation are operators' work
  and tests'; apps and providers are constants. Deleting rows is code no handler calls.
* Mail: sending is the set `mailed`; the composition of the message is formatting.
* Errors, logging, static files, templates, the layout of the web application: pure
  I/O. The pages appear as what they make the browser remember and post.
* Random identifiers are taken as never repeating; validation of an email address is a
  filter on one string.
* `examples/` is a client; the protobuf code is generated.
