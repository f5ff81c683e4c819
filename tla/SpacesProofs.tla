----------------------------- MODULE SpacesProofs -----------------------------
(***************************************************************************)
(* Proofs about access tokens and the calls of Create made with them, for  *)
(* any identities, keys and calls, however the operator rotates the keys.  *)
(***************************************************************************)
EXTENDS Spaces, TLAPS

\* What a request has found, given out or been shown: a token in the making has
\* its row, one that was given out was signed with keys that were in the table,
\* and one that is presented was given out.
Backed(r, rec) ==
  /\ rec.pc # "stopped" => given[r] = None
  /\ rec.pc \in {"find", "find id"} =>
       rec.sub \in Idn /\ atoks[r] # None /\ atoks[r].sub = rec.sub
  /\ rec.pc = "find id" => rec.key \in Ec /\ jwks[rec.key] # "absent"
  /\ rec.pc \in {"key", "idn", "known", "refused"} =>
       rec.tok \in Request /\ given[rec.tok] # None
  /\ rec.pc = "known" => rec.sub = given[rec.tok].sub
  /\ rec.pc = "refused" =>
       rec.err \/ jwks[given[rec.tok].key] = "gone" \/ atoks[rec.tok].exp <= now

TokenCustody ==
  \A r \in Request :
    /\ given[r] # None => /\ atoks[r] # None /\ atoks[r].sub = given[r].sub
                          /\ given[r].key \in Ec /\ jwks[given[r].key] # "absent"
                          /\ given[r].idKey \in Ec /\ jwks[given[r].idKey] # "absent"
    /\ Backed(r, job[r])

TokenInv == TokenTypeOK /\ TokenCustody

\* It holds before a token is issued.
LEMMA TokenInitInv == TokenInit => TokenInv
<1> SUFFICES ASSUME TokenInit PROVE TokenInv
  OBVIOUS
<1>1. TokenTypeOK
  BY DEF TokenInit, NoJob, Jobs, KeyStage, TokenTypeOK
<1>2. \A r \in Request : job[r].pc = "idle" /\ given[r] = None
  BY DEF TokenInit, NoJob
<1> QED
  BY <1>1, <1>2 DEF TokenInv, TokenCustody, Backed

\* A step that moves one request, to a record that is backed, keeps custody.
LEMMA JobMoves ==
  ASSUME TokenInv, NEW r \in Request, NEW rec \in Jobs, Backed(r, rec),
         job' = [job EXCEPT ![r] = rec], UNCHANGED <<now, jwks, atoks, given>>
  PROVE  TokenInv'
<1>1. job'[r] = rec /\ \A q \in Request : q # r => job'[q] = job[q]
  BY DEF TokenInv, TokenTypeOK
<1>2. ASSUME NEW q \in Request, q # r PROVE Backed(q, job[q])'
  <2>1. Backed(q, job[q]) /\ job'[q] = job[q]
    BY <1>1, <1>2 DEF TokenInv, TokenCustody
  <2> QED
    BY <2>1 DEF Backed
<1>3. Backed(r, job[r])'
  BY <1>1 DEF Backed
<1>4. TokenTypeOK'
  BY DEF TokenInv, TokenTypeOK
<1>5. \A q \in Request : Backed(q, job[q])'
  BY <1>2, <1>3
<1> QED
  BY <1>4, <1>5 DEF TokenInv, TokenCustody

\* Nothing that has been given out is taken back, and no key comes back.
LEMMA TickAndRotateStep ==
  ASSUME TokenInv, Tick \/ (\E k \in Kid : Rotate(k))
  PROVE  TokenInv'
<1> USE KeyAssumption
<1>1. CASE Tick
  <2>1. ASSUME NEW r \in Request PROVE Backed(r, job[r])'
    <3>1. Backed(r, job[r]) /\ now \in Nat /\ now' = now + 1 /\ UNCHANGED <<jwks, atoks, given, job>>
      BY <1>1 DEF Tick, TokenInv, TokenTypeOK, TokenCustody
    <3>2. ASSUME job[r].pc = "refused"
          PROVE  job[r].tok \in Request /\ given[job[r].tok] # None
      BY <3>1, <3>2 DEF Backed
    <3>3. ASSUME job[r].pc = "refused" PROVE atoks[job[r].tok] \in TokenRow
      BY <3>2, <3>3 DEF TokenInv, TokenTypeOK, TokenCustody
    <3>4. ASSUME job[r].pc = "refused", atoks[job[r].tok].exp <= now
          PROVE  atoks[job[r].tok].exp <= now + 1
      BY <3>1, <3>3, <3>4 DEF TokenRow
    <3> QED
      BY <3>1, <3>4 DEF Backed
  <2> QED
    BY <1>1, <2>1 DEF Tick, TokenInv, TokenTypeOK, TokenCustody
<1>2. ASSUME NEW k \in Kid, Rotate(k) PROVE TokenInv'
  <2>1. /\ jwks' \in [Kid -> KeyStage]
        /\ \A j \in Kid : jwks[j] # "absent" => jwks'[j] # "absent"
        /\ \A j \in Kid : jwks[j] = "gone" => jwks'[j] = "gone"
        /\ UNCHANGED <<now, atoks, given, job>>
    BY <1>2 DEF Rotate, MoveKey, KeyStage, TokenInv, TokenTypeOK
  <2>2. \A r \in Request : given[r] # None => given[r].key \in Kid /\ given[r].idKey \in Kid
    BY DEF TokenInv, TokenTypeOK, Answer
  <2>3. ASSUME NEW r \in Request PROVE Backed(r, job[r])'
    <3>1. Backed(r, job[r])
      BY DEF TokenInv, TokenCustody
    <3> QED
      BY <2>1, <2>2, <3>1 DEF Backed
  <2> QED
    BY <2>1, <2>2, <2>3 DEF TokenInv, TokenTypeOK, TokenCustody
<1> QED
  BY <1>1, <1>2

\* The steps of POST /token.
LEMMA IssueStep ==
  ASSUME TokenInv, NEW r \in Request,
         (\E i \in Idn : Insert(r, i)) \/ NoKey(r) \/ FindKey(r) \/ FindIdKey(r) \/ FailJob(r)
  PROVE  TokenInv'
<1> USE KeyAssumption, ClockAssumption, NobodyAssumption, RowAssumption DEF At, Become, NoJob, Issuing, Stopped
<1>1. ASSUME NEW i \in Idn, Insert(r, i) PROVE TokenInv'
  <2>1. [sub |-> i, exp |-> now + Ttl] \in TokenRow
    BY DEF TokenRow, TokenInv, TokenTypeOK
  <2>2. /\ atoks'[r] = [sub |-> i, exp |-> now + Ttl]
        /\ \A t \in Request : t # r => atoks'[t] = atoks[t]
        /\ job'[r] = Issuing("find", i, None)
        /\ \A t \in Request : t # r => job'[t] = job[t]
        /\ UNCHANGED <<now, jwks, given>>
    BY <1>1 DEF Insert, TokenInv, TokenTypeOK
  <2>3. TokenTypeOK'
    BY <1>1, <2>1 DEF Insert, Jobs, TokenInv, TokenTypeOK
  <2>4. given[r] = None
    BY <1>1 DEF Insert, TokenInv, TokenCustody, Backed
  <2>5. Backed(r, job[r])'
    BY <2>1, <2>2, <2>4 DEF Backed
  <2>6. ASSUME NEW q \in Request, q # r PROVE Backed(q, job[q])'
    <3>1. Backed(q, job[q]) /\ job'[q] = job[q]
      BY <2>2, <2>6 DEF TokenInv, TokenCustody
    <3>2. job[q].pc = "refused" => atoks'[job[q].tok] = atoks[job[q].tok]
      BY <2>2, <2>4, <3>1 DEF Backed
    <3> QED
      BY <2>2, <2>4, <2>6, <3>1, <3>2 DEF Backed
  <2>7. ASSUME NEW q \in Request, given'[q] # None
        PROVE  /\ atoks'[q] # None /\ atoks'[q].sub = given'[q].sub
               /\ given'[q].key \in Ec /\ jwks'[given'[q].key] # "absent"
               /\ given'[q].idKey \in Ec /\ jwks'[given'[q].idKey] # "absent"
    <3>1. q # r
      BY <2>2, <2>4, <2>7
    <3> QED
      BY <2>2, <2>7, <3>1 DEF TokenInv, TokenCustody
  <2> QED
    BY <2>3, <2>5, <2>6, <2>7 DEF TokenInv, TokenCustody
<1>2. CASE NoKey(r) \/ FailJob(r)
  <2>1. Stopped \in Jobs /\ Backed(r, Stopped)
    BY DEF Stopped, Jobs, Backed
  <2> QED
    BY <1>2, <2>1, JobMoves DEF NoKey, FailJob
<1>3. CASE FindKey(r)
  <2>1. PICK k \in SigningKeys :
          job' = [job EXCEPT ![r] = Issuing("find id", job[r].sub, k)]
    BY <1>3 DEF FindKey
  <2>2. k \in Ec /\ k \in Kid /\ jwks[k] = "signing"
    BY <2>1 DEF SigningKeys
  <2> DEFINE rec == Issuing("find id", job[r].sub, k)
  <2>3. Backed(r, job[r]) /\ job[r].pc = "find"
    BY <1>3 DEF FindKey, TokenInv, TokenCustody
  <2>4. rec \in Jobs /\ Backed(r, rec)
    BY <2>2, <2>3 DEF Jobs, Backed
  <2> QED
    BY <1>3, <2>1, <2>4, JobMoves DEF FindKey
<1>4. CASE FindIdKey(r)
  <2>1. PICK k \in SigningKeys :
          given' = [given EXCEPT ![r] = [key |-> job[r].key, idKey |-> k, sub |-> job[r].sub]]
    BY <1>4 DEF FindIdKey
  <2>2. k \in Ec /\ k \in Kid /\ jwks[k] = "signing"
    BY <2>1 DEF SigningKeys
  <2>3. /\ job[r].sub \in Idn /\ job[r].key \in Ec /\ jwks[job[r].key] # "absent"
        /\ atoks[r] # None /\ atoks[r].sub = job[r].sub /\ given[r] = None
    BY <1>4 DEF FindIdKey, TokenInv, TokenCustody, Backed
  <2> DEFINE a == [key |-> job[r].key, idKey |-> k, sub |-> job[r].sub]
  <2>4. a \in Answer /\ a.key = job[r].key /\ a.idKey = k /\ a.sub = job[r].sub
    BY <2>2, <2>3 DEF Answer
  <2> HIDE DEF a
  <2>5. /\ given'[r] = a
        /\ \A t \in Request : t # r => given'[t] = given[t]
        /\ job'[r].pc = "stopped"
        /\ \A t \in Request : t # r => job'[t] = job[t]
        /\ UNCHANGED <<now, jwks, atoks>>
    BY <1>4, <2>1 DEF a, FindIdKey, Stopped, TokenInv, TokenTypeOK
  <2>6. TokenTypeOK'
    BY <1>4, <2>1, <2>4 DEF a, FindIdKey, Stopped, Jobs, TokenInv, TokenTypeOK
  <2>7. Backed(r, job[r])'
    BY <2>5 DEF Backed
  <2>8. ASSUME NEW q \in Request, q # r PROVE Backed(q, job[q])'
    <3>1. Backed(q, job[q])
      BY DEF TokenInv, TokenCustody
    <3> QED
      BY <2>3, <2>5, <2>8, <3>1 DEF Backed
  <2>9. TokenCustody'
    BY <2>2, <2>3, <2>4, <2>5, <2>7, <2>8 DEF TokenInv, TokenCustody
  <2> QED
    BY <2>6, <2>9 DEF TokenInv
<1> QED
  BY <1>1, <1>2, <1>3, <1>4

\* The steps of checkAccessToken.
LEMMA CheckStep ==
  ASSUME TokenInv, NEW r \in Request,
         (\E t \in Request : Present(r, t)) \/ VerifyToken(r) \/ Identify(r)
  PROVE  TokenInv'
<1> USE KeyAssumption, NobodyAssumption, RowAssumption DEF At, Become, NoJob, Checking, Refused
<1>1. ASSUME NEW t \in Request, Present(r, t) PROVE TokenInv'
  <2> DEFINE rec == Checking("key", t)
  <2>1. rec \in Jobs /\ Backed(r, rec)
    BY <1>1 DEF Present, Jobs, TokenInv, TokenCustody, Backed
  <2> QED
    BY <1>1, <2>1, JobMoves DEF Present
<1>2. ASSUME NEW t \in Request, given[t] # None, given[r] = None
      PROVE  /\ RefusedByError(t) \in Jobs /\ Backed(r, RefusedByError(t))
             /\ jwks[given[t].key] = "gone" \/ atoks[t].exp <= now =>
                  Refused(t) \in Jobs /\ Backed(r, Refused(t))
  BY <1>2 DEF RefusedByError, Jobs, Backed
<1>3. CASE VerifyToken(r)
  <2> DEFINE t == job[r].tok
  <2>1. /\ t \in Request /\ given[t] # None /\ given[r] = None
        /\ given[t].key \in Ec /\ jwks[given[t].key] # "absent"
    BY <1>3 DEF VerifyToken, TokenInv, TokenCustody, Backed
  <2>2. CASE Become(r, Checking("idn", t))
    <3>1. Checking("idn", t) \in Jobs /\ Backed(r, Checking("idn", t))
      BY <2>1 DEF Jobs, Backed
    <3> QED
      BY <1>3, <2>2, <3>1, JobMoves DEF VerifyToken
  <2>3. CASE /\ Become(r, Refused(t))
             /\ ~\E k \in RowOfKid(given[t].key) : k \in Ec /\ k = given[t].key
    <3>1. jwks[given[t].key] = "gone"
      BY <2>1, <2>3 DEF RowOfKid, Rows, KeyStage, TokenInv, TokenTypeOK
    <3> QED
      BY <1>2, <1>3, <2>1, <2>3, <3>1, JobMoves DEF VerifyToken
  <2>4. CASE Become(r, RefusedByError(t))
    BY <1>2, <1>3, <2>1, <2>4, JobMoves DEF VerifyToken
  <2> QED
    BY <1>3, <2>2, <2>3, <2>4 DEF VerifyToken
<1>4. CASE Identify(r)
  <2> DEFINE t == job[r].tok
  <2>1. t \in Request /\ given[t] # None /\ given[r] = None /\ atoks[t] # None
        /\ atoks[t].sub = given[t].sub
    BY <1>4 DEF Identify, TokenInv, TokenCustody, Backed
  <2>2. atoks[t] \in TokenRow /\ now \in Nat
    BY <2>1 DEF TokenInv, TokenTypeOK
  <2>3. CASE InLife(t) /\ Become(r, Known(t, SubjectOf(t)))
    <3>1. Known(t, SubjectOf(t)) \in Jobs /\ Backed(r, Known(t, SubjectOf(t)))
      BY <2>1, <2>2 DEF Known, SubjectOf, TokenRow, Jobs, Backed
    <3> QED
      BY <1>4, <2>3, <3>1, JobMoves DEF Identify
  <2>4. CASE ~InLife(t) /\ Become(r, Refused(t))
    <3>1. atoks[t].exp <= now
      BY <2>2, <2>4 DEF InLife, TokenRow
    <3> QED
      BY <1>2, <1>4, <2>1, <2>4, <3>1, JobMoves DEF Identify
  <2>5. CASE Become(r, RefusedByError(t))
    BY <1>2, <1>4, <2>1, <2>5, JobMoves DEF Identify
  <2> QED
    BY <1>4, <2>3, <2>4, <2>5 DEF Identify
<1> QED
  BY <1>1, <1>3, <1>4

\* Rotation, issue, fetches and checks keep it.
LEMMA TokenStepInv == TokenInv /\ [TokenNext]_tokenVars => TokenInv'
<1>1. ASSUME TokenInv, UNCHANGED tokenVars PROVE TokenInv'
  <2>1. UNCHANGED <<now, jwks, atoks, given, job>>
    BY <1>1 DEF tokenVars
  <2>2. ASSUME NEW r \in Request PROVE Backed(r, job[r])'
    <3>1. Backed(r, job[r])
      BY <1>1 DEF TokenInv, TokenCustody
    <3> QED
      BY <2>1, <3>1 DEF Backed
  <2> QED
    BY <1>1, <2>1, <2>2 DEF TokenInv, TokenTypeOK, TokenCustody
<1>2. ASSUME TokenInv, Tick \/ (\E k \in Kid : Rotate(k)) PROVE TokenInv'
  BY <1>2, TickAndRotateStep
<1>3. ASSUME TokenInv, NEW r \in Request,
             (\E i \in Idn : Insert(r, i)) \/ NoKey(r) \/ FindKey(r) \/ FindIdKey(r) \/ FailJob(r)
      PROVE  TokenInv'
  BY <1>3, IssueStep
<1>4. ASSUME TokenInv, NEW r \in Request,
             (\E t \in Request : Present(r, t)) \/ VerifyToken(r) \/ Identify(r)
      PROVE  TokenInv'
  BY <1>4, CheckStep
<1>5. ASSUME TokenInv, TokenNext PROVE TokenInv'
  <2>1. CASE Tick \/ \E k \in Kid : Rotate(k)
    BY <1>2, <1>5, <2>1
  <2>2. CASE \E r \in Request :
               \/ \E i \in Idn : Insert(r, i)
               \/ NoKey(r) \/ FindKey(r) \/ FindIdKey(r)
               \/ \E t \in Request : Present(r, t)
               \/ VerifyToken(r) \/ Identify(r) \/ FailJob(r)
    <3>1. PICK r \in Request :
               \/ \E i \in Idn : Insert(r, i)
               \/ NoKey(r) \/ FindKey(r) \/ FindIdKey(r)
               \/ \E t \in Request : Present(r, t)
               \/ VerifyToken(r) \/ Identify(r) \/ FailJob(r)
      BY <2>2
    <3> QED
      BY <1>3, <1>4, <1>5, <3>1
  <2> QED
    BY <1>5, <2>1, <2>2 DEF TokenNext
<1> QED
  BY <1>1, <1>5

-------------------------------------------------------------------------------
\* The tokens' properties, however they are issued, checked and run out.

\* It says what a refused token may be.
LEMMA RefusedLemma == TokenInv => RefusedForCause
BY DEF TokenInv, TokenCustody, Backed, RefusedForCause

\* It says that every key that signed is a row while it is not deleted.
LEMMA VerifiableLemma == TokenInv => IdTokensVerifiable
<1> SUFFICES ASSUME TokenInv, NEW r \in Request, given[r] # None,
                    NEW list \in ListJwks(FALSE), RowsFit, jwks[given[r].idKey] # "gone"
             PROVE  given[r].idKey \in Jwks(list)
  BY DEF IdTokensVerifiable
<1>1. given[r].idKey \in Ec /\ jwks[given[r].idKey] # "absent"
  BY DEF TokenInv, TokenCustody
<1>2. jwks[given[r].idKey] \in KeyStage
  BY <1>1, KeyAssumption DEF TokenInv, TokenTypeOK
<1>3. list = Rows
  BY DEF ListJwks
<1> QED
  BY <1>1, <1>2, <1>3, KeyAssumption DEF Jwks, Rows, KeyStage

\* Only Identify makes a caller known, with the subject of the token's row.
LEMMA KnownLemma ==
  ASSUME TokenInv, [TokenNext]_tokenVars, NEW r \in Request,
         At(r, "idn"), job'[r].pc = "known"
  PROVE  job'[r].sub = given[job[r].tok].sub /\ now < atoks[job[r].tok].exp
<1> DEFINE t == job[r].tok
<1>1. /\ t \in Request /\ given[t] # None /\ atoks[t] # None /\ atoks[t].sub = given[t].sub
      /\ job \in [Request -> Jobs]
  BY DEF At, TokenInv, TokenTypeOK, TokenCustody, Backed
<1>2. atoks[t] \in TokenRow /\ now \in Nat
  BY <1>1 DEF TokenInv, TokenTypeOK
<1>3. Identify(r)
  <2>1. CASE UNCHANGED tokenVars \/ Tick \/ \E k \in Kid : Rotate(k)
    BY <2>1 DEF tokenVars, Tick, Rotate, MoveKey, At
  <2>2. ASSUME NEW q \in Request,
               \/ \E i \in Idn : Insert(q, i)
               \/ NoKey(q) \/ FindKey(q) \/ FindIdKey(q)
               \/ \E u \in Request : Present(q, u)
               \/ VerifyToken(q) \/ Identify(q) \/ FailJob(q)
        PROVE  Identify(r)
    <3>1. \E rec : job' = [job EXCEPT ![q] = rec]
      BY <2>2 DEF Insert, NoKey, FindKey, FindIdKey, Present, VerifyToken, Identify, FailJob, Become
    <3>2. q = r
      BY <1>1, <3>1 DEF At
    <3>3. CASE FailJob(q)
      BY <1>1, <3>2, <3>3 DEF FailJob, Become, Stopped, NoJob
    <3> QED
      BY <2>2, <3>2, <3>3 DEF Insert, NoKey, FindKey, FindIdKey, Present, VerifyToken, At
  <2> QED
    BY <2>1, <2>2 DEF TokenNext
<1>4. \/ InLife(t) /\ job'[r] = Known(t, SubjectOf(t))
      \/ job'[r] = Refused(t)
      \/ job'[r] = RefusedByError(t)
  BY <1>1, <1>3 DEF Identify, Become
<1>5. InLife(t) /\ job'[r].sub = SubjectOf(t)
  BY <1>4 DEF Known, Refused, RefusedByError, Checking, NoJob
<1> QED
  BY <1>1, <1>2, <1>5 DEF InLife, SubjectOf, TokenRow

\* What the token machine keeps, for the tokens alone.
THEOREM TokenInvariance == TokenSpec => []TokenInv
<1>1. TokenInit => TokenInv
  BY TokenInitInv
<1>2. TokenInv /\ [TokenNext]_tokenVars => TokenInv'
  BY TokenStepInv
<1> QED
  BY <1>1, <1>2, PTL DEF TokenSpec

\* A token is refused only once it has run out, its own key is deleted or a statement
\* of checkAccessToken failed, whichever keys were added or retired in between.
THEOREM TokensRefusedForCause == TokenSpec => []RefusedForCause
BY TokenInvariance, RefusedLemma, PTL

\* The ID tokens given out can be verified with any list JwksHandler publishes, until
\* their key is deleted: if the rows are within the limit and were read to the end.
THEOREM TokensVerifiable == TokenSpec => []IdTokensVerifiable
BY TokenInvariance, VerifiableLemma, PTL

\* A caller is known as the subject its ID token claims, within the token's life.
THEOREM TokensKnownAsClaimed == TokenSpec => KnownAsClaimed
<1>1. TokenInv /\ [TokenNext]_tokenVars =>
        [\A r \in Request :
           At(r, "idn") /\ job'[r].pc = "known" =>
             LET t == job[r].tok IN job'[r].sub = given[t].sub /\ now < atoks[t].exp]_tokenVars
  BY KnownLemma
<1> QED
  BY <1>1, TokenInvariance, PTL DEF TokenSpec, KnownAsClaimed

\* Create and Check use the tokens only as the token machine allows.
THEOREM SpacesImplementTokens == Spec => TokenSpec
<1>1. Init => TokenInit
  BY DEF Init
<1>2. [Next]_vars => [TokenNext]_tokenVars
  <2>1. CASE UNCHANGED vars
    BY <2>1 DEF vars
  <2>2. ASSUME NEW r \in Request, Create(r) \/ Fail(r) PROVE [TokenNext]_tokenVars
    BY <2>2 DEF Create, Fail, Authenticate, Check, InsertSpace, Assign, TokenNext
  <2> QED
    BY <2>1, <2>2 DEF Next
<1> QED
  BY <1>1, <1>2, PTL DEF Spec, TokenSpec

-------------------------------------------------------------------------------
\* Create.  A call goes on with the identity its token was given out for; its
\* copy is a past row of that identity, the row itself while the revisions agree,
\* and only an assignment moves the revision on.
Calling(r) ==
  LET c == call[r]
      i == job[r].sub
  IN
  /\ c.pc = "idle" => spaces[r] = None
  /\ c.pc # "idle" =>
       /\ job[r].pc = "known" /\ i \in Idn
       /\ c.copy \in IdnRow /\ c.slug \in Slug
       /\ c.copy.rev <= idns[i].rev
       /\ c.copy.rev = idns[i].rev => c.copy = idns[i]
       /\ c.copy.rev < idns[i].rev => idns[i].space # None
  /\ c.pc \in {"insert", "assign"} => c.copy.space = None /\ c.copy.status # "suspended"
  /\ c.pc \in {"check", "insert"} => spaces[r] = None
  /\ c.pc = "assign" => spaces[r] # None
  /\ c.pc = "done" /\ spaces[r] # None => idns[i].space # None \/ idns[i].rev = 0

\* The owner of a space is the caller of the call that made it, and that call is over.
Owning(i) ==
  LET s == idns[i].space IN
  s # None => /\ spaces[s] # None /\ call[s].pc = "done"
              /\ job[s].pc = "known" /\ job[s].sub = i
              /\ idns[i].status = "active"

SpaceTypeOK ==
  /\ idns \in [Idn -> IdnRow]
  /\ spaces \in [Request -> Slug \cup {None}]
  /\ call \in [Request -> Calls]

SpaceInv ==
  /\ TokenInv
  /\ SpaceTypeOK
  /\ \A r \in Request : Calling(r)
  /\ \A i \in Idn : Owning(i)

\* It holds before a space is created.
LEMMA SpaceInitInv == Init => SpaceInv
<1> SUFFICES ASSUME Init PROVE SpaceInv
  OBVIOUS
<1>1. TokenInv
  BY TokenInitInv DEF Init
<1>2. \A i \in Idn : idns[i] \in IdnRow /\ idns[i].space = None
  BY RevAssumption DEF Init, IdnRow
<1>3. SpaceTypeOK
  BY <1>2 DEF Init, SpaceTypeOK, IdnRow, Calls
<1>4. \A r \in Request : call[r].pc = "idle" /\ spaces[r] = None
  BY DEF Init
<1> QED
  BY <1>1, <1>2, <1>3, <1>4 DEF SpaceInv, Calling, Owning

\* A caller that is known is not looked up again.
LEMMA KnownStays ==
  ASSUME TokenInv, [TokenNext]_tokenVars, NEW r \in Request, job[r].pc = "known"
  PROVE  job'[r] = job[r]
<1>1. CASE UNCHANGED tokenVars \/ Tick \/ \E k \in Kid : Rotate(k)
  BY <1>1 DEF tokenVars, Tick, Rotate, MoveKey
<1>2. ASSUME NEW q \in Request,
             \/ \E i \in Idn : Insert(q, i)
             \/ NoKey(q) \/ FindKey(q) \/ FindIdKey(q)
             \/ \E u \in Request : Present(q, u)
             \/ VerifyToken(q) \/ Identify(q) \/ FailJob(q)
      PROVE  job'[r] = job[r]
  <2>1. \E rec : job' = [job EXCEPT ![q] = rec]
    BY <1>2 DEF Insert, NoKey, FindKey, FindIdKey, Present, VerifyToken, Identify, FailJob, Become
  <2>2. job[q].pc # "known"
    BY <1>2 DEF Insert, NoKey, FindKey, FindIdKey, Present, VerifyToken, Identify, FailJob, At
  <2> QED
    BY <2>1, <2>2 DEF TokenInv, TokenTypeOK
<1> QED
  BY <1>1, <1>2 DEF TokenNext

\* A step that changes one call, and the space that is its own, keeps the rest.
LEMMA CallMoves ==
  ASSUME SpaceInv, NEW r \in Request, NEW c \in Calls, NEW s \in Slug \cup {None},
         call[r].pc # "done", call' = [call EXCEPT ![r] = c],
         spaces' = [spaces EXCEPT ![r] = s],
         UNCHANGED <<tokenVars, idns>>, Calling(r)'
  PROVE  SpaceInv'
<1>1. /\ call'[r] = c /\ spaces'[r] = s
      /\ \A q \in Request : q # r => call'[q] = call[q] /\ spaces'[q] = spaces[q]
      /\ UNCHANGED <<now, jwks, atoks, given, job, idns>>
  BY DEF tokenVars, SpaceInv, SpaceTypeOK
<1>2. TokenInv'
  BY TokenStepInv DEF SpaceInv
<1>3. SpaceTypeOK'
  BY <1>1 DEF SpaceInv, SpaceTypeOK
<1>4. ASSUME NEW q \in Request, q # r PROVE Calling(q)'
  <2>1. Calling(q)
    BY DEF SpaceInv
  <2> QED
    BY <1>1, <1>4, <2>1 DEF Calling
<1>5. ASSUME NEW i \in Idn PROVE Owning(i)'
  <2>1. Owning(i) /\ idns[i].space \in Request \cup {None}
    BY DEF SpaceInv, SpaceTypeOK, IdnRow
  <2> QED
    BY <1>1, <2>1 DEF Owning
<1> QED
  BY <1>2, <1>3, <1>4, <1>5 DEF SpaceInv

\* A request that starts, or is refused, writes nothing.
LEMMA AuthenticateStep ==
  ASSUME SpaceInv, NEW r \in Request, NEW slug \in Slug, Authenticate(r, slug)
  PROVE  SpaceInv'
<1> DEFINE i == SubjectOf(job[r].tok)
           c == [pc |-> "check", copy |-> idns[i], slug |-> slug]
<1>1. /\ job[r].pc = "idn" /\ Calling(r)
      /\ \A q \in Request : q # r => job'[q] = job[q]
      /\ job'[r] = Known(job[r].tok, i)
      /\ call' = [call EXCEPT ![r] = c]
      /\ UNCHANGED <<idns, spaces>>
  BY DEF Authenticate, Identify, At, Become, Refused, RefusedByError, Checking, NoJob, SpaceInv, TokenInv, TokenTypeOK
<1>2. job'[r].pc = "known" /\ job'[r].sub = i
  BY <1>1 DEF Known, Checking, NoJob
<1>3. i \in Idn
  <2>1. TokenInv /\ Backed(r, job[r])
    BY DEF SpaceInv, TokenInv, TokenCustody
  <2>2. job[r].tok \in Request /\ atoks[job[r].tok] # None
    BY <1>1, <2>1 DEF Backed, TokenInv, TokenCustody
  <2>3. atoks[job[r].tok] \in TokenRow
    BY <2>1, <2>2 DEF TokenInv, TokenTypeOK
  <2> QED
    BY <2>3 DEF SubjectOf, TokenRow
<1>4. TokenInv'
  BY TokenStepInv DEF SpaceInv, Authenticate, TokenNext
<1>5. c \in Calls /\ idns[i] \in IdnRow /\ idns[i].rev \in Nat
  BY <1>3 DEF Calls, SpaceInv, SpaceTypeOK, IdnRow
<1> HIDE DEF i
<1>6. SpaceTypeOK'
  BY <1>1, <1>5 DEF SpaceInv, SpaceTypeOK
<1>7. /\ call'[r].pc = "check" /\ call'[r].copy = idns[i] /\ call'[r].slug = slug
      /\ \A q \in Request : q # r => call'[q] = call[q]
  BY <1>1 DEF SpaceInv, SpaceTypeOK
<1>8. call[r].pc = "idle" /\ spaces[r] = None
  BY <1>1 DEF Calling
<1>9. Calling(r)'
  BY <1>1, <1>2, <1>3, <1>5, <1>7, <1>8 DEF Calling
<1>10. ASSUME NEW q \in Request, q # r PROVE Calling(q)'
  <2>1. Calling(q)
    BY DEF SpaceInv
  <2> QED
    BY <1>1, <1>7, <1>10, <2>1 DEF Calling
<1>11. ASSUME NEW j \in Idn PROVE Owning(j)'
  <2>1. Owning(j) /\ idns[j].space \in Request \cup {None}
    BY DEF SpaceInv, SpaceTypeOK, IdnRow
  <2> QED
    BY <1>1, <1>7, <2>1 DEF Owning
<1> QED
  BY <1>4, <1>6, <1>9, <1>10, <1>11 DEF SpaceInv

\* The test of the slug, the first insert and a failure keep it.
LEMMA CheckInsertFailStep ==
  ASSUME SpaceInv, NEW r \in Request, Check(r) \/ InsertSpace(r) \/ Fail(r)
  PROVE  SpaceInv'
<1>1. /\ call[r] \in Calls /\ Calling(r) /\ UNCHANGED <<tokenVars, idns>> /\ UNCHANGED job
      /\ spaces \in [Request -> Slug \cup {None}] /\ call \in [Request -> Calls]
      /\ call[r].pc \in {"check", "insert", "assign"}
  BY DEF SpaceInv, SpaceTypeOK, Check, InsertSpace, Fail, tokenVars
<1>2. ASSUME NEW pc \in {"insert", "done", "failed"}, GoTo(r, pc), UNCHANGED spaces,
             pc = "insert" => call[r].copy.space = None /\ call[r].copy.status # "suspended",
             pc = "done" => spaces[r] = None, pc = "insert" => spaces[r] = None
      PROVE  SpaceInv'
  <2> DEFINE c == [pc |-> pc, copy |-> call[r].copy, slug |-> call[r].slug]
  <2>1. c \in Calls /\ c = [call[r] EXCEPT !.pc = pc]
    BY <1>1 DEF Calls
  <2>2. call' = [call EXCEPT ![r] = c] /\ spaces' = [spaces EXCEPT ![r] = spaces[r]]
    BY <1>1, <1>2, <2>1 DEF GoTo
  <2>3. call'[r] = c /\ spaces'[r] = spaces[r] /\ c.pc = pc /\ c.copy = call[r].copy /\ c.slug = call[r].slug
    BY <1>1, <2>2
  <2> HIDE DEF c
  <2>4. Calling(r)'
    BY <1>1, <1>2, <2>3 DEF Calling
  <2> QED
    BY <1>1, <2>1, <2>2, <2>4, CallMoves DEF SpaceInv, SpaceTypeOK
<1>3. CASE Check(r)
  <2>1. UNCHANGED spaces /\ spaces[r] = None
    BY <1>1, <1>3 DEF Check, Calling
  <2>2. CASE call[r].copy.status = "suspended" \/ call[r].copy.space # None
    <3>1. GoTo(r, "done")
      BY <1>3, <2>2 DEF Check
    <3> QED
      BY <1>2, <2>1, <3>1
  <2>3. CASE ~(call[r].copy.status = "suspended" \/ call[r].copy.space # None)
    <3>1. GoTo(r, "insert")
      BY <1>3, <2>3 DEF Check
    <3> QED
      BY <1>2, <2>1, <2>3, <3>1
  <2> QED
    BY <2>2, <2>3
<1>4. CASE Fail(r)
  BY <1>1, <1>2, <1>4 DEF Fail
<1>5. CASE InsertSpace(r)
  <2>1. CASE GoTo(r, "done") /\ UNCHANGED spaces
    BY <1>1, <1>2, <1>5, <2>1 DEF InsertSpace, Calling
  <2>2. CASE GoTo(r, "assign") /\ spaces' = [spaces EXCEPT ![r] = call[r].slug]
    <3> DEFINE c == [pc |-> "assign", copy |-> call[r].copy, slug |-> call[r].slug]
    <3>1. c \in Calls /\ c = [call[r] EXCEPT !.pc = "assign"]
      BY <1>1 DEF Calls
    <3>2. call' = [call EXCEPT ![r] = c]
      BY <2>2, <3>1 DEF GoTo
    <3>3. call[r].pc = "insert" /\ call[r].slug \in Slug
      BY <1>1, <1>5 DEF InsertSpace, Calling
    <3>4. call'[r] = c /\ spaces'[r] = call[r].slug /\ c.pc = "assign"
          /\ c.copy = call[r].copy /\ c.slug = call[r].slug
      BY <1>1, <2>2, <3>2
    <3> HIDE DEF c
    <3>5. Calling(r)'
      BY <1>1, <3>3, <3>4, SlugAssumption DEF Calling
    <3> QED
      BY <1>1, <2>2, <3>1, <3>2, <3>3, <3>5, CallMoves
  <2> QED
    BY <1>5, <2>1, <2>2 DEF InsertSpace
<1> QED
  BY <1>3, <1>4, <1>5

\* The update writes only where the row is still the copy, which has no space.
LEMMA AssignStep ==
  ASSUME SpaceInv, NEW r \in Request, Assign(r)
  PROVE  SpaceInv' /\ \A i \in Idn : idns[i].space # None => idns'[i].space = idns[i].space
<1> DEFINE i == job[r].sub
           c == [pc |-> "done", copy |-> call[r].copy, slug |-> call[r].slug]
<1>1. /\ call[r] \in Calls /\ Calling(r) /\ call[r].pc = "assign"
      /\ UNCHANGED <<now, jwks, atoks, given, job, spaces>> /\ UNCHANGED tokenVars
      /\ call \in [Request -> Calls] /\ idns \in [Idn -> IdnRow]
  BY DEF SpaceInv, SpaceTypeOK, Assign, tokenVars
<1>2. c \in Calls /\ c = [call[r] EXCEPT !.pc = "done"]
  BY <1>1 DEF Calls
<1>3. /\ call'[r] = c /\ c.pc = "done" /\ c.copy = call[r].copy /\ c.slug = call[r].slug
      /\ \A q \in Request : q # r => call'[q] = call[q]
      /\ call' \in [Request -> Calls]
  BY <1>1, <1>2 DEF Assign, GoTo
<1>4. /\ i \in Idn /\ call[r].copy \in IdnRow /\ call[r].copy.space = None
      /\ call[r].copy.status \in {"pending", "active"} /\ spaces[r] # None
      /\ job[r].pc = "known"
  BY <1>1 DEF Calling, IdnRow, Status
<1>5. TokenInv'
  BY <1>1, TokenStepInv DEF SpaceInv
<1> HIDE DEF c
<1>6. CASE (idns[i].rev # call[r].copy.rev \/ idns[i].rev = 0) /\ UNCHANGED idns
  <2>1. Calling(r)'
    BY <1>1, <1>3, <1>4, <1>6 DEF Calling, IdnRow
  <2>2. ASSUME NEW q \in Request, q # r PROVE Calling(q)'
    <3>1. Calling(q)
      BY DEF SpaceInv
    <3> QED
      BY <1>1, <1>3, <1>6, <2>2, <3>1 DEF Calling
  <2>3. ASSUME NEW j \in Idn PROVE Owning(j)'
    <3>1. Owning(j) /\ idns[j].space \in Request \cup {None}
      BY DEF SpaceInv, SpaceTypeOK, IdnRow
    <3> QED
      BY <1>1, <1>3, <1>6, <3>1 DEF Owning
  <2> QED
    BY <1>1, <1>3, <1>5, <1>6, <2>1, <2>2, <2>3 DEF SpaceInv, SpaceTypeOK
<1>7. CASE idns[i].rev = call[r].copy.rev /\ idns' = [idns EXCEPT ![i] = Assigned(r)]
  <2>1. idns[i] = call[r].copy /\ idns[i].space = None /\ idns[i].rev \in Nat
    BY <1>1, <1>4, <1>7 DEF Calling, IdnRow
  <2>2. /\ Assigned(r).space = r /\ Assigned(r).status = "active"
        /\ Assigned(r).rev = idns[i].rev + 1
        /\ Assigned(r) \in IdnRow
    BY <1>4, <2>1 DEF Assigned, IdnRow, Status
  <2>3. /\ idns'[i].space = r /\ idns'[i].status = "active" /\ idns'[i].rev = idns[i].rev + 1
        /\ \A j \in Idn : j # i => idns'[j] = idns[j]
        /\ idns' \in [Idn -> IdnRow]
    BY <1>1, <1>4, <1>7, <2>2
  <2>4. r # None
    BY NobodyAssumption
  <2>5. Calling(r)'
    BY <1>1, <1>3, <1>4, <2>1, <2>3, <2>4 DEF Calling
  <2>6. ASSUME NEW q \in Request, q # r PROVE Calling(q)'
    <3>1. Calling(q) /\ call'[q] = call[q]
      BY <1>3, <2>6 DEF SpaceInv
    <3>2. CASE job[q].sub # i \/ call[q].pc = "idle"
      BY <1>1, <2>3, <3>1, <3>2 DEF Calling
    <3>3. CASE job[q].sub = i /\ call[q].pc # "idle"
      <4>1. call[q].copy.rev \in Nat /\ call[q].copy.rev <= idns[i].rev
        BY <3>1, <3>3 DEF Calling, IdnRow
      <4> QED
        BY <1>1, <2>1, <2>3, <2>4, <3>1, <3>3, <4>1 DEF Calling
    <3> QED
      BY <3>2, <3>3
  <2>7. ASSUME NEW j \in Idn PROVE Owning(j)'
    <3>1. Owning(j) /\ idns[j].space \in Request \cup {None}
      BY DEF SpaceInv, SpaceTypeOK, IdnRow
    <3>2. CASE j = i
      BY <1>1, <1>3, <1>4, <2>3, <3>2 DEF Owning
    <3>3. CASE j # i
      BY <1>1, <1>3, <2>3, <3>1, <3>3 DEF Owning
    <3> QED
      BY <3>2, <3>3
  <2>8. \A j \in Idn : idns[j].space # None => idns'[j].space = idns[j].space
    BY <2>1, <2>3
  <2> QED
    BY <1>1, <1>3, <1>5, <2>3, <2>5, <2>6, <2>7, <2>8 DEF SpaceInv, SpaceTypeOK
<1> QED
  BY <1>6, <1>7 DEF Assign

\* A step of the tokens alone.
LEMMA TokenOnlyStep ==
  ASSUME SpaceInv, [TokenNext]_tokenVars, UNCHANGED spaceVars
  PROVE  SpaceInv'
<1>1. TokenInv'
  BY TokenStepInv DEF SpaceInv
<1>2. UNCHANGED <<idns, spaces, call>>
  BY DEF spaceVars
<1>3. ASSUME NEW r \in Request PROVE Calling(r)'
  <2>1. Calling(r)
    BY DEF SpaceInv
  <2>2. job[r].pc = "known" => job'[r] = job[r]
    BY KnownStays DEF SpaceInv
  <2> QED
    BY <1>2, <2>1, <2>2 DEF Calling
<1>4. ASSUME NEW i \in Idn PROVE Owning(i)'
  <2> DEFINE s == idns[i].space
  <2>1. Owning(i) /\ s \in Request \cup {None}
    BY DEF SpaceInv, SpaceTypeOK, IdnRow
  <2>2. CASE s = None
    BY <1>2, <2>2 DEF Owning
  <2>3. CASE s # None
    <3>1. job'[s] = job[s]
      BY <2>1, <2>3, KnownStays DEF Owning, SpaceInv
    <3> QED
      BY <1>2, <2>1, <3>1 DEF Owning
  <2> QED
    BY <2>2, <2>3
<1> QED
  BY <1>1, <1>2, <1>3, <1>4 DEF SpaceInv, SpaceTypeOK

\* Every step of the service keeps it.
LEMMA SpaceStepInv ==
  ASSUME SpaceInv, [Next]_vars
  PROVE  SpaceInv' /\ \A i \in Idn : idns[i].space # None => idns'[i].space = idns[i].space
<1>1. CASE UNCHANGED vars \/ (TokenNext /\ UNCHANGED spaceVars)
  <2>1. [TokenNext]_tokenVars /\ UNCHANGED spaceVars /\ UNCHANGED idns
    BY <1>1 DEF vars, spaceVars
  <2> QED
    BY <2>1, TokenOnlyStep
<1>2. ASSUME NEW r \in Request, NEW slug \in Slug, Authenticate(r, slug)
      PROVE  SpaceInv' /\ UNCHANGED idns
  BY <1>2, AuthenticateStep DEF Authenticate
<1>3. ASSUME NEW r \in Request, Check(r) \/ InsertSpace(r) \/ Fail(r)
      PROVE  SpaceInv' /\ UNCHANGED idns
  BY <1>3, CheckInsertFailStep DEF Check, InsertSpace, Fail
<1>4. ASSUME NEW r \in Request, Assign(r)
      PROVE  SpaceInv' /\ \A i \in Idn : idns[i].space # None => idns'[i].space = idns[i].space
  BY <1>4, AssignStep
<1> QED
  BY <1>1, <1>2, <1>3, <1>4 DEF Next, Create

-------------------------------------------------------------------------------
\* Create, with any number of identities, calls, names and keys.

\* What the calls keep, from which the rest follows.
THEOREM SpacesInvariance == Spec => []SpaceInv
<1>1. SpaceInv /\ [Next]_vars => SpaceInv'
  BY SpaceStepInv
<1> QED
  BY <1>1, SpaceInitInv, PTL DEF Spec

\* The state of the gRPC services keeps its type.
THEOREM SpacesTypeCorrect == Spec => []TypeOK
<1>1. SpaceInv => TypeOK
  BY DEF SpaceInv, SpaceTypeOK, TokenInv, TypeOK
<1> QED
  BY <1>1, SpacesInvariance, PTL

\* A space belongs to the identity whose token made it, and its owner is active
\* (CreateSpace in srv/spaces.go).
THEOREM SpacesOwned == Spec => []SpaceOwned
<1>1. SpaceInv => SpaceOwned
  <2> SUFFICES ASSUME SpaceInv, NEW i \in Idn, idns[i].space # None
               PROVE  /\ spaces[idns[i].space] # None
                      /\ given[job[idns[i].space].tok].sub = i
                      /\ idns[i].status = "active"
    BY DEF SpaceOwned
  <2> DEFINE s == idns[i].space
  <2>1. s \in Request /\ Owning(i) /\ Backed(s, job[s])
    BY DEF SpaceInv, SpaceTypeOK, IdnRow, TokenInv, TokenCustody
  <2> QED
    BY <2>1 DEF Owning, Backed
<1> QED
  BY <1>1, SpacesInvariance, PTL

\* No call replaces a space its identity has: the quota of one holds under any
\* interleaving of calls, by the revision in the update (idns.go, SetAttrs).
THEOREM SpacesKept == Spec => SpaceKept
<1>1. SpaceInv /\ [Next]_vars =>
        [\A i \in Idn : idns[i].space # None => idns'[i].space = idns[i].space]_vars
  BY SpaceStepInv
<1> QED
  BY <1>1, SpacesInvariance, PTL DEF Spec, SpaceKept

\* A finished call leaves its space without an owner only when another call with
\* tokens of the same identity gave it one, or when the first revision of the
\* identity was zero, so that no update of it ever matches.
THEOREM SpacesOwnedUnlessRacedOrZero == Spec => []OwnedUnlessRacedOrZero
<1>1. SpaceInv => OwnedUnlessRacedOrZero
  BY DEF SpaceInv, SpaceTypeOK, Calling, IdnRow, OwnedUnlessRacedOrZero
<1> QED
  BY <1>1, SpacesInvariance, PTL

================================================================================
