----------------------------- MODULE AccessTokens -----------------------------
(***************************************************************************)
(* Access tokens and the keys they are signed with: NewAccessToken and     *)
(* NewIdToken, the last part of POST /token (auth/tokens.go); the keys     *)
(* GET /jwks.json publishes (oidc/jwks.go); and checkAccessToken, with     *)
(* which the gRPC services find out who calls (srv/authn.go).              *)
(*                                                                         *)
(* The rows of table jwks are the operator's: no code changes them, and    *)
(* they may change between any two statements of a request.                *)
(***************************************************************************)
EXTENDS Naturals, FiniteSets

CONSTANTS
  Idn,      \* identities
  Kid,      \* rows of table jwks of the system space, by kid
  Ec,       \* those with kty EC; the others are RSA
  Request,  \* requests to serve; a token is named by the request that made it
  Ttl,      \* accessTokenTtl
  MaxJwks,  \* "limit" of the statement that lists the keys (100)
  MaxTime,  \* bound on the clock
  Failing,  \* TRUE when requests may stop between two statements
  None      \* no row, no token, no local value

ASSUME KeyAssumption == Ec \subseteq Kid
ASSUME ClockAssumption == Ttl \in Nat \ {0} /\ MaxTime \in Nat
ASSUME LimitAssumption == MaxJwks \in Nat
ASSUME FailingAssumption == Failing \in BOOLEAN
ASSUME NobodyAssumption == None \notin Idn \cup Kid \cup Request

\* auth.token| rows, and the answers of POST /token: the keys that signed the
\* access token and the ID token, and the subject the ID token claims.
TokenRow == [sub : Idn, exp : Nat]

Answer == [key : Kid, idKey : Kid, sub : Idn]

ASSUME RowAssumption == None \notin TokenRow /\ None \notin Answer

VARIABLES
  now,    \* the clock
  jwks,   \* how far the row of each key has come
  atoks,  \* auth.token| rows of table tokens
  given,  \* what each client of POST /token was given
  job     \* the local state of each request

tokenVars == <<now, jwks, atoks, given, job>>

\* Not made yet; in use; in the table without the key operation "sign"; deleted.
KeyStage == {"absent", "signing", "retired", "gone"}

\* key: the key found for the access token.  tok: the token presented.  err
\* (history): a statement of the check failed, which the answer does not tell.
Jobs == [pc : {"idle", "find", "find id", "key", "idn", "known", "refused", "stopped"},
         sub : Idn \cup {None}, key : Kid \cup {None}, tok : Request \cup {None},
         err : BOOLEAN]

NoJob == [pc |-> "idle", sub |-> None, key |-> None, tok |-> None, err |-> FALSE]

Stopped == [NoJob EXCEPT !.pc = "stopped"]

\* POST /token on its way, for the subject i, with the key k it has found.
Issuing(pc, i, k) == [NoJob EXCEPT !.pc = pc, !.sub = i, !.key = k]

\* A check of token t on its way.
Checking(pc, t) == [NoJob EXCEPT !.pc = pc, !.tok = t]

\* The caller is the subject i of token t, or is turned away.
Known(t, i) == [Checking("known", t) EXCEPT !.sub = i]

Refused(t) == Checking("refused", t)

\* errInvalidAccessToken once more: the answer of a statement that failed.
RefusedByError(t) == [Refused(t) EXCEPT !.err = TRUE]

TokenInit ==
  /\ now = 0
  /\ jwks \in [Kid -> {"absent", "signing"}]
  /\ atoks = [r \in Request |-> None]
  /\ given = [r \in Request |-> None]
  /\ job = [r \in Request |-> NoJob]

At(r, pc) == job[r].pc = pc

Become(r, rec) == job' = [job EXCEPT ![r] = rec]

-------------------------------------------------------------------------------
\* The environment: time passes; the operator adds a key, takes its "sign"
\* operation away, deletes it.

Tick ==
  /\ now < MaxTime
  /\ now' = now + 1
  /\ UNCHANGED <<jwks, atoks, given, job>>

MoveKey(k, from, to) ==
  /\ jwks[k] = from
  /\ jwks' = [jwks EXCEPT ![k] = to]
  /\ UNCHANGED <<now, atoks, given, job>>

Rotate(k) ==
  MoveKey(k, "absent", "signing") \/ MoveKey(k, "signing", "retired") \/ MoveKey(k, "retired", "gone")

-------------------------------------------------------------------------------
\* POST /token, once the code is spent: i is the subject of the code.

\* NewAuthToken.
Insert(r, i) ==
  /\ At(r, "idle")
  /\ atoks' = [atoks EXCEPT ![r] = [sub |-> i, exp |-> now + Ttl]]
  /\ Become(r, Issuing("find", i, None))
  /\ UNCHANGED <<now, jwks, given>>

\* findEcKey: the rows it may take, in an order the query does not fix.
SigningKeys == {k \in Ec : jwks[k] = "signing"}

\* "not found": there is no such row, or the list that ListJwks returns ends
\* before it (it does not ask rows.Err).  The token inserted stays in the table.
NoKey(r) ==
  /\ At(r, "find") \/ At(r, "find id")
  /\ Become(r, Stopped)
  /\ UNCHANGED <<now, jwks, atoks, given>>

\* The KMS then signs the token's bytes, which reads nothing here.
FindKey(r) ==
  /\ At(r, "find")
  /\ \E k \in SigningKeys :
       Become(r, Issuing("find id", job[r].sub, k))
  /\ UNCHANGED <<now, jwks, atoks, given>>

\* jwsSign looks for a key once more, and it may be another one; when the KMS
\* has signed the ID token, both tokens are returned to the client.
FindIdKey(r) ==
  /\ At(r, "find id")
  /\ \E k \in SigningKeys :
       given' = [given EXCEPT ![r] = [key |-> job[r].key, idKey |-> k, sub |-> job[r].sub]]
  /\ Become(r, Stopped)
  /\ UNCHANGED <<now, jwks, atoks>>

\* The rows of table jwks.
Rows == {k \in Kid : jwks[k] \in {"signing", "retired"}}

RowsFit == Cardinality(Rows) <= MaxJwks

\* ListJwks: all rows, or as many as the limit allows, in no order.  It does not
\* ask rows.Err, so that it may also end early when its connection breaks.
ListJwks(broken) ==
  IF broken THEN {L \in SUBSET Rows : Cardinality(L) <= MaxJwks}
  ELSE IF RowsFit THEN {Rows}
  ELSE {L \in SUBSET Rows : Cardinality(L) = MaxJwks}

\* Mutated form of Jwks: only the keys that sign now.
JwksSigning(list) == list \cap SigningKeys

\* JwksHandler: what the clients check ID tokens with, of the rows listed.
Jwks(list) == list \cap Ec

-------------------------------------------------------------------------------
\* checkAccessToken, of a token some client was given.

\* Mutated form of RowOfKid: the key in use is taken for the one that signed.
RowOfCurrent(kid) == SigningKeys

\* RetrieveJwk: the row of the kid in the token, whatever its operations.
RowOfKid(kid) == {k \in Rows : k = kid}

\* accessTokenFromCtx and the decoding of the token.
Present(r, t) ==
  /\ At(r, "idle")
  /\ given[t] # None
  /\ Become(r, Checking("key", t))
  /\ UNCHANGED <<now, jwks, atoks, given>>

\* RetrieveJwk, EcPublicKey and ecdsa.Verify.
VerifyToken(r) ==
  LET t == job[r].tok
      good == \E k \in RowOfKid(given[t].key) : k \in Ec /\ k = given[t].key
  IN
  /\ At(r, "key")
  /\ \/ good /\ Become(r, Checking("idn", t))
     \/ ~good /\ Become(r, Refused(t))
     \/ Failing /\ Become(r, RefusedByError(t))
  /\ UNCHANGED <<now, jwks, atoks, given>>

\* Mutated form of InLife: access tokens run out as the other tokens do.
InLifeInclusive(t) == ~(now > atoks[t].exp)

\* "o.exp > now": refused at the very expiry instant.
InLife(t) == atoks[t].exp > now

\* The identity that the row of a token names.
SubjectOf(t) == atoks[t].sub

\* RetrieveIdnByAuthToken: the answer of Check, and the caller of the others.  Its
\* caller logs an error that is not ErrNotFound, and answers as for a bad token.
Identify(r) ==
  LET t == job[r].tok IN
  /\ At(r, "idn")
  /\ \/ InLife(t) /\ Become(r, Known(t, SubjectOf(t)))
     \/ ~InLife(t) /\ Become(r, Refused(t))
     \/ Failing /\ Become(r, RefusedByError(t))
  /\ UNCHANGED <<now, jwks, atoks, given>>

\* POST /token ends early: the client goes away, a statement or the KMS fails.
FailJob(r) ==
  /\ Failing
  /\ At(r, "find") \/ At(r, "find id")
  /\ Become(r, Stopped)
  /\ UNCHANGED <<now, jwks, atoks, given>>

TokenNext ==
  \/ Tick
  \/ \E k \in Kid : Rotate(k)
  \/ \E r \in Request :
       \/ \E i \in Idn : Insert(r, i)
       \/ NoKey(r) \/ FindKey(r) \/ FindIdKey(r)
       \/ \E t \in Request : Present(r, t)
       \/ VerifyToken(r) \/ Identify(r) \/ FailJob(r)

TokenSpec == TokenInit /\ [][TokenNext]_tokenVars

-------------------------------------------------------------------------------
TokenTypeOK ==
  /\ now \in Nat
  /\ jwks \in [Kid -> KeyStage]
  /\ atoks \in [Request -> TokenRow \cup {None}]
  /\ given \in [Request -> Answer \cup {None}]
  /\ job \in [Request -> Jobs]

\* A token a client was given is refused only because it has run out, because its
\* own key has been deleted, or because a statement of the check failed: keys can
\* be added, and retired, while tokens they signed are about (RetrieveJwk asks for
\* the kid, and for nothing else).
RefusedForCause ==
  \A r \in Request :
    job[r].pc = "refused" =>
      LET t == job[r].tok IN
      job[r].err \/ jwks[given[t].key] = "gone" \/ atoks[t].exp <= now

\* The identity a check finds for an access token is the one the ID token of the
\* same answer claims, and it is found within the life of the token only.
KnownAsClaimed ==
  [][\A r \in Request :
       At(r, "idn") /\ job'[r].pc = "known" =>
         LET t == job[r].tok IN job'[r].sub = given[t].sub /\ now < atoks[t].exp]_tokenVars

\* Whatever list is published, it suffices for every ID token whose key has not
\* been deleted, though keys are retired between its signature and the client's look
\* at them: unless there are more rows than the limit, or the list was cut short.
IdTokensVerifiable ==
  \A r \in Request : \A broken \in BOOLEAN : \A list \in ListJwks(broken) :
    given[r] # None =>
      \/ given[r].idKey \in Jwks(list)
      \/ jwks[given[r].idKey] = "gone"
      \/ broken \/ ~RowsFit

===============================================================================
