--------------------------- MODULE AuthServerProofs ----------------------------
(***************************************************************************)
(* Theorems about AuthServer, for any apps, providers, logins, credentials *)
(* and requests, whatever endpoints are served and whatever tokens lapse.  *)
(*                                                                         *)
(* A step of request r changes the local variables of r alone, adds rows   *)
(* named r, and changes other rows only in ways that keep what other       *)
(* requests have concluded from them (Leaves).  So the invariant is a      *)
(* statement Mine(r) for each request, and each action has to show Mine of *)
(* its own request only.  The last part shows that the server keeps the    *)
(* promise of SingleUse for auth states, one-time codes and auth codes.    *)
(***************************************************************************)
EXTENDS AuthServer, TLAPS

\* Stages of a request, by what it works on.
SignInStages == {"signin.list", "signin.password", "signin.passkey", "signin.page"}

CredStages == {"cred.find", "cred.idn", "cred.src", "cred.expire", "cred.code"}

PasskeyStages == {"passkey.src", "passkey.count", "passkey.expire", "passkey.code"}

PasswordStages == {"password.src", "password.expire", "password.code"}

GoogleStages == {"google.expire", "google.find", "google.idn", "google.src", "google.code"}

CompleteStages == CredStages \cup PasskeyStages \cup PasswordStages \cup GoogleStages

\* It holds a copy of the auth state, and may write or spend the row.
CopyStages == SignInStages \cup {"verify.set"} \cup CompleteStages

\* It has spent the auth state.
SpentStages == {"cred.code", "passkey.code", "password.code",
                "google.find", "google.idn", "google.src", "google.code"}

\* It has found or made the identity.
IdnStages == {"cred.src", "cred.expire", "cred.code", "passkey.count", "passkey.expire",
              "passkey.code", "password.expire", "password.code", "google.src", "google.code"}

Ended == {"done", "failed"}

\* What the local variables of a request are at each of its stages.
Locals(r) ==
  LET q == req[r] IN
  /\ q.pc \in CopyStages => q.tok \in StateId /\ states[q.tok] # None /\ q.copy \in StateRow
  /\ q.pc \in {"signup.otp", "signup.mail", "verify.state"} => q.tok \in StateId
  /\ q.pc = "verify.expire" => q.tok \in Request /\ otps[q.tok] # None
  /\ q.pc \in {"token.expire", "token.insert"} =>
       q.tok \in Request /\ codes[q.tok] # None /\ q.copy \in CodeRow /\ q.client \in App
  /\ q.pc \in SignInStages \cup GoogleStages
       \cup {"signup.otp", "signup.mail", "verify.expire", "verify.state", "verify.set"} =>
       q.login \in Login
  /\ q.pc \in {"signin.password", "signin.passkey", "signin.page"} =>
       q.provider \in Provider \cup {Canary}
  /\ q.pc \in PasskeyStages \cup PasswordStages \cup GoogleStages
       \cup {"signup.otp", "signup.mail", "verify.expire", "verify.state", "verify.set",
             "cred.expire", "cred.code"} =>
       q.provider \in Provider
  /\ q.pc \in CompleteStages => q.sub \in Cred \cup Login
  /\ q.pc \in CopyStages /\ q.copy.challenge # None => q.copy.login \in Login
  /\ q.pc \in PasskeyStages => q.count \in Count
  /\ q.pc = "passkey.count" => q.src \in SrcRow
  /\ q.pc \in IdnStages => q.idn \in IdnId

\* Who has spent an auth state or a code, and what became of it.
Custody(r) ==
  /\ req[r].pc \in SpentStages => states[req[r].tok].spentBy = r
  /\ req[r].pc = "token.insert" => codes[req[r].tok].spentBy = r
  /\ otps[r] # None => req[r].pc \in {"signup.mail"} \cup Ended
  /\ codes[r] # None => /\ req[r].pc = "done"
                        /\ states[codes[r].state] # None
                        /\ states[codes[r].state].spentBy = r
  /\ atoks[r] # None => /\ req[r].pc \in {"token.sign"} \cup Ended
                        /\ codes[atoks[r].code] # None
                        /\ codes[atoks[r].code].spentBy = r

Mine(r) == Locals(r) /\ Custody(r)

\* A state with a challenge has a login, the one the challenge was drawn for.
Challenged(s) == states[s] # None /\ states[s].challenge # None => states[s].login \in Login

ServerInv ==
  /\ TypeOK
  /\ \A s \in StateId : Challenged(s)
  /\ \A r \in Request : Mine(r)

\* What a step of r leaves of the other requests and of the rows they rely on.
Leaves(r) ==
  /\ req[r].pc \notin Ended
  /\ \A q \in Request : q # r => /\ req'[q] = req[q]
                                 /\ otps[q] = None => otps'[q] = None
                                 /\ codes[q] = None => codes'[q] = None
                                 /\ atoks'[q] = atoks[q]
  /\ \A s \in StateId :
       states[s] # None => /\ states'[s] # None
                           /\ states[s].spentBy # None => states'[s].spentBy = states[s].spentBy
  /\ \A o \in Request : otps[o] # None => otps'[o] # None
  /\ \A c \in Request :
       codes[c] # None => /\ codes'[c] # None /\ codes'[c].state = codes[c].state
                          /\ codes[c].spentBy # None => codes'[c].spentBy = codes[c].spentBy

-------------------------------------------------------------------------------
\* What is left of the local variables when a request returns or fails.
LEMMA Constants ==
  /\ Fresh \in Local /\ Done \in Local /\ Failed \in Local
  /\ Done.pc = "done" /\ Failed.pc = "failed"
  /\ None \notin StateId /\ None \notin Request /\ None \notin Login
<1>1. None \notin StateId /\ None \notin Request /\ None \notin Login
  BY NoneAssumption
<1>2. Fresh \in Local
  BY DEF Fresh, Local, Maybe, Stage
<1>3. ASSUME NEW pc \in Stage
      PROVE  [Fresh EXCEPT !.pc = pc] \in Local /\ [Fresh EXCEPT !.pc = pc].pc = pc
  BY DEF Fresh, Local, Maybe
<1> QED
  BY <1>1, <1>2, <1>3 DEF Done, Failed, Stage

\* It is enough to look at the request that takes the step.
LEMMA OthersKeep ==
  ASSUME ServerInv, NEW r \in Request, Leaves(r), TypeOK', Mine(r)',
         \A s \in StateId : Challenged(s)'
  PROVE  ServerInv'
<1>1. ASSUME NEW q \in Request, q # r PROVE Mine(q)'
  <2>1. /\ Mine(q) /\ req'[q] = req[q] /\ atoks'[q] = atoks[q]
        /\ (otps[q] = None => otps'[q] = None) /\ (codes[q] = None => codes'[q] = None)
    BY <1>1 DEF ServerInv, Leaves
  <2>2. Locals(q)'
    BY <1>1, <2>1 DEF Leaves, Mine, Locals
  <2>3. req[q].pc \in SpentStages => req[q].tok \in StateId /\ states[req[q].tok] # None
    BY <2>1 DEF Mine, Locals, SpentStages, CopyStages, CompleteStages, CredStages, PasskeyStages,
       PasswordStages, GoogleStages
  <2>4. codes[q] # None => codes[q].state \in StateId
    BY DEF ServerInv, TypeOK, Maybe, CodeRow
  <2>5. atoks[q] # None => atoks[q].code \in Request
    BY DEF ServerInv, TypeOK, Maybe, TokenRow
  <2>6. Custody(q)'
    <3>1. /\ req[q].pc \in SpentStages => states'[req[q].tok].spentBy = q
          /\ otps'[q] # None => req[q].pc \in {"signup.mail"} \cup Ended
      BY <1>1, <2>1, <2>3, Constants DEF Leaves, Mine, Custody
    <3>2. req[q].pc = "token.insert" => codes'[req[q].tok].spentBy = q
      BY <1>1, <2>1, Constants DEF Leaves, Mine, Locals, Custody
    <3>3. codes'[q] # None => /\ req[q].pc = "done"
                              /\ states'[codes'[q].state] # None
                              /\ states'[codes'[q].state].spentBy = q
      BY <1>1, <2>1, <2>4, Constants DEF Leaves, Mine, Custody
    <3>4. atoks'[q] # None => /\ req[q].pc \in {"token.sign"} \cup Ended
                              /\ codes'[atoks[q].code] # None
                              /\ codes'[atoks[q].code].spentBy = q
      BY <1>1, <2>1, <2>5, Constants DEF Leaves, Mine, Custody
    <3> QED
      BY <2>1, <3>1, <3>2, <3>3, <3>4 DEF Custody
  <2> QED
    BY <2>2, <2>6 DEF Mine
<1> QED
  BY <1>1 DEF ServerInv

\* What an action of request r has to show.
Kept(r) ==
  /\ TypeOK'
  /\ Leaves(r)
  /\ Mine(r)'
  /\ \A s \in StateId : Challenged(s)'

\* The local variables are those of rec, and only those of r have changed.
Becomes(r, rec) ==
  /\ req' \in [Request -> Local]
  /\ req'[r] = rec
  /\ \A q \in Request : q # r => req'[q] = req[q]

LEMMA Assigns ==
  ASSUME TypeOK, NEW r \in Request, NEW rec \in Local, req' = [req EXCEPT ![r] = rec]
  PROVE  Becomes(r, rec)
BY DEF TypeOK, Becomes

LEMMA Goes ==
  ASSUME TypeOK, NEW r \in Request, NEW pc \in Stage, GoTo(r, pc)
  PROVE  Becomes(r, [req[r] EXCEPT !.pc = pc])
<1>1. [req[r] EXCEPT !.pc = pc] \in Local
  BY DEF TypeOK, Local
<1>2. req' = [req EXCEPT ![r] = [req[r] EXCEPT !.pc = pc]]
  BY DEF GoTo
<1> QED
  BY <1>1, <1>2, Assigns

LEMMA Returns ==
  ASSUME TypeOK, NEW r \in Request, Return(r)
  PROVE  Becomes(r, Done)
BY Constants, Assigns DEF Return

\* Between the requests' beginning and the rows they add, they have none.
LEMMA NoRows ==
  ASSUME ServerInv, NEW r \in Request,
         req[r].pc \notin {"signup.mail", "token.sign"} \cup Ended
  PROVE  otps[r] = None /\ codes[r] = None /\ atoks[r] = None
BY DEF ServerInv, Mine, Custody, Ended

\* Steps that look, and decide: no row changes.
LEMMA Looks ==
  ASSUME ServerInv, NEW r \in Request, NEW rec, Becomes(r, rec), req[r].pc \notin Ended,
         UNCHANGED <<tables, lapsed>>,
         pages' \subseteq Page, mailed' \subseteq Request, nonce' \in Maybe(Request)
  PROVE  TypeOK' /\ Leaves(r) /\ \A s \in StateId : Challenged(s)'
<1>1. TypeOK'
  BY DEF ServerInv, TypeOK, Becomes, tables
<1>2. Leaves(r)
  BY DEF Becomes, Leaves, tables
<1> QED
  BY <1>1, <1>2 DEF ServerInv, Challenged, tables

\* A request that has ended has nothing left to show but its rows.
LEMMA EndedIsMine ==
  ASSUME NEW r \in Request, req'[r] = Done \/ req'[r] = Failed,
         otps'[r] = None /\ codes'[r] = None /\ atoks'[r] = None
  PROVE  Mine(r)'
<1>1. req'[r].pc \in Ended
  BY Constants DEF Ended
<1> QED
  BY <1>1 DEF Mine, Locals, Custody, Ended, SpentStages, CopyStages, CompleteStages, CredStages,
     PasskeyStages, PasswordStages, GoogleStages, SignInStages, IdnStages

\* A request that returns without having changed a row.
LEMMA ReturnsAreKept ==
  ASSUME ServerInv, NEW r \in Request, Return(r), UNCHANGED <<tables, lapsed>>,
         req[r].pc \notin {"signup.mail", "token.sign"} \cup Ended,
         \/ UNCHANGED browser
         \/ /\ pages' \subseteq Page /\ mailed' \subseteq Request /\ nonce' \in Maybe(Request)
  PROVE  Kept(r)
<1>1. Becomes(r, Done) /\ req[r].pc \notin Ended
  BY Returns DEF ServerInv
<1>2. TypeOK' /\ Leaves(r) /\ \A s \in StateId : Challenged(s)'
  BY <1>1, Looks DEF ServerInv, TypeOK, browser
<1>3. Mine(r)'
  BY <1>1, NoRows, EndedIsMine DEF Becomes, tables
<1> QED
  BY <1>2, <1>3 DEF Kept

\* A request goes on without having changed a token: it is enough that its local
\* variables are right for the next stage.
LEMMA Moves ==
  ASSUME ServerInv, NEW r \in Request, NEW rec, Becomes(r, rec),
         req[r].pc \notin {"signup.mail", "token.sign"} \cup Ended,
         UNCHANGED <<states, otps, codes, atoks, lapsed, pages, mailed, nonce>>,
         idns' \in [IdnId -> Maybe(IdnRow)], srcs' \subseteq SrcRow,
         \/ rec.pc \notin SpentStages \cup {"token.insert"}
         \/ req[r].pc \in SpentStages /\ rec.pc \in SpentStages /\ rec.tok = req[r].tok,
         Locals(r)'
  PROVE  Kept(r)
<1>1. TypeOK'
  BY DEF ServerInv, TypeOK, Becomes
<1>2. Leaves(r)
  BY DEF Leaves, Becomes
<1>3. Custody(r)'
  BY NoRows DEF ServerInv, Mine, Custody, Becomes, SpentStages
<1>4. \A s \in StateId : Challenged(s)'
  BY DEF ServerInv, Challenged
<1> QED
  BY <1>1, <1>2, <1>3, <1>4 DEF Kept, Mine

\* SetAttrs keeps who has spent the state, and what other requests know of it.
LEMMA Writes ==
  ASSUME ServerInv, NEW r \in Request, NEW rec, Becomes(r, rec), req[r].pc \notin Ended,
         req[r].tok \in StateId, states[req[r].tok] # None,
         NEW attrs \in StateRow, attrs.challenge # None => attrs.login \in Login,
         SetAttrs(r, attrs),
         UNCHANGED <<otps, codes, atoks, idns, srcs, lapsed>>,
         pages' \subseteq Page, mailed' \subseteq Request, nonce' \in Maybe(Request)
  PROVE  TypeOK' /\ Leaves(r) /\ \A s \in StateId : Challenged(s)'
<1> DEFINE s == req[r].tok
           row == [attrs EXCEPT !.rev = @ + 1, !.spentBy = states[s].spentBy]
<1>1. states[s] \in StateRow
  BY DEF ServerInv, TypeOK, Maybe
<1>2. /\ row \in StateRow /\ row.spentBy = states[s].spentBy
      /\ row.login = attrs.login /\ row.challenge = attrs.challenge
  <2>1. attrs.rev + 1 \in Nat /\ states[s].spentBy \in Maybe(Request)
    BY <1>1 DEF StateRow
  <2> HIDE DEF s
  <2> QED
    BY <2>1 DEF StateRow
<1>3. row # None
  BY <1>2, RowAssumption
<1>4. states' \in [StateId -> Maybe(StateRow)] /\ states'[s] = row
      /\ \A x \in StateId : x # s => states'[x] = states[x]
  <2> HIDE DEF row
  <2> QED
    BY <1>2 DEF SetAttrs, ServerInv, TypeOK, Maybe, row
<1> HIDE DEF row, s
<1>5. TypeOK'
  BY <1>4 DEF ServerInv, TypeOK, Becomes
<1>6. Leaves(r)
  BY <1>2, <1>3, <1>4 DEF Becomes, Leaves, s
<1>7. ASSUME NEW x \in StateId PROVE Challenged(x)'
  BY <1>2, <1>4 DEF ServerInv, Challenged, s
<1> QED
  BY <1>5, <1>6, <1>7

\* Expire spends the state for this request, or returns.
LEMMA Expires ==
  ASSUME ServerInv, NEW r \in Request, NEW from, NEW to, ExpireState(r, from, to),
         \/ from = "cred.expire" /\ to = "cred.code"
         \/ from = "passkey.expire" /\ to = "passkey.code"
         \/ from = "password.expire" /\ to = "password.code"
         \/ from = "google.expire" /\ to = "google.find"
  PROVE  Kept(r)
<1> USE DEF SignInStages, CredStages, PasskeyStages, PasswordStages, GoogleStages, CompleteStages,
            CopyStages, SpentStages, IdnStages
<1> DEFINE s == req[r].tok
           rec == [req[r] EXCEPT !.pc = to]
           row == [states[s] EXCEPT !.spentBy = r]
<1>1. /\ req[r].pc = from /\ req[r] \in Local /\ Locals(r) /\ TypeOK
      /\ from \notin {"signup.mail", "token.sign"} \cup Ended
      /\ s \in StateId /\ states[s] # None /\ states[s] \in StateRow
  BY DEF ExpireState, At, ServerInv, Mine, Locals, TypeOK, Ended, Maybe
<1>2. CASE Return(r) /\ UNCHANGED states
  BY <1>1, <1>2, ReturnsAreKept DEF ExpireState, tables
<1>3. CASE states[s].spentBy = None /\ states' = [states EXCEPT ![s].spentBy = r] /\ GoTo(r, to)
  <2>1. /\ row \in StateRow /\ row.spentBy = r
        /\ row.login = states[s].login /\ row.challenge = states[s].challenge
    BY <1>1 DEF StateRow, Maybe
  <2>2. /\ states' \in [StateId -> Maybe(StateRow)] /\ states'[s] = row /\ row # None
        /\ \A x \in StateId : x # s => states'[x] = states[x]
    <3>1. states' = [states EXCEPT ![s] = row] /\ row # None
      BY <1>3, <2>1, RowAssumption
    <3> HIDE DEF row
    <3> QED
      BY <1>1, <2>1, <3>1 DEF TypeOK, Maybe
  <2>3. Becomes(r, rec)
    BY <1>1, <1>3, Goes DEF Stage
  <2>4. /\ rec.pc = to /\ rec.tok = s /\ rec.copy = req[r].copy /\ rec.login = req[r].login
        /\ rec.provider = req[r].provider /\ rec.sub = req[r].sub /\ rec.count = req[r].count
        /\ rec.idn = req[r].idn
    BY <1>1 DEF Local
  <2> HIDE DEF row, rec, s
  <2>5. TypeOK'
    BY <1>1, <2>2, <2>3 DEF ExpireState, TypeOK, Becomes, browser
  <2>6. Leaves(r)
    BY <1>1, <1>3, <2>2, <2>3 DEF ExpireState, Leaves, Becomes
  <2>7. \A x \in StateId : Challenged(x)'
    BY <2>1, <2>2, <1>1 DEF ServerInv, Challenged
  <2>8. Locals(r)'
    BY <1>1, <2>2, <2>3, <2>4 DEF Becomes, Locals, s
  <2>9. Custody(r)'
    BY <1>1, <2>1, <2>2, <2>3, <2>4, NoRows DEF ExpireState, Becomes, Custody
  <2> QED
    BY <2>5, <2>6, <2>7, <2>8, <2>9 DEF Kept, Mine
<1> QED
  BY <1>2, <1>3 DEF ExpireState

\* NewAuthCode adds a code for the state that this request has spent.
LEMMA CodeIssued ==
  ASSUME ServerInv, NEW r \in Request, NEW from, NewCode(r, from),
         from \in {"cred.code", "passkey.code", "password.code", "google.code"}
  PROVE  Kept(r)
<1> USE DEF SignInStages, CredStages, PasskeyStages, PasswordStages, GoogleStages, CompleteStages,
            CopyStages, SpentStages, IdnStages
<1> DEFINE row == [client |-> req[r].copy.app, provider |-> req[r].provider, sub |-> req[r].idn,
                   state |-> req[r].tok, spentBy |-> None]
<1>1. /\ req[r].pc = from /\ Locals(r) /\ Custody(r) /\ TypeOK
      /\ from \notin {"signup.mail", "token.sign"} \cup Ended
  BY DEF NewCode, At, ServerInv, Mine, Ended
<1>2. row \in CodeRow /\ row.state = req[r].tok /\ states[row.state] # None /\ states[row.state].spentBy = r
  BY <1>1 DEF Locals, Custody, CodeRow, StateRow, Maybe
<1>3. /\ codes' \in [Request -> Maybe(CodeRow)] /\ codes'[r] = row
      /\ \A c \in Request : c # r => codes'[c] = codes[c]
  <2> HIDE DEF row
  <2> QED
    BY <1>1, <1>2 DEF NewCode, TypeOK, Maybe, row
<1>4. Becomes(r, Done) /\ codes[r] = None /\ otps[r] = None /\ atoks[r] = None /\ row # None
  BY <1>1, <1>2, Returns, NoRows, RowAssumption DEF NewCode
<1> HIDE DEF row
<1>5. TypeOK'
  BY <1>1, <1>3, <1>4 DEF NewCode, TypeOK, Becomes, browser
<1>6. Leaves(r)
  BY <1>1, <1>3, <1>4 DEF NewCode, Leaves, Becomes
<1>7. \A s \in StateId : Challenged(s)'
  BY DEF NewCode, ServerInv, Challenged
<1>8. Mine(r)'
  BY <1>2, <1>3, <1>4, Constants DEF NewCode, Becomes, Mine, Locals, Custody, Ended
<1> QED
  BY <1>5, <1>6, <1>7, <1>8 DEF Kept

-------------------------------------------------------------------------------
\* POST /sign-in.

LEMMA SignInStep ==
  ASSUME ServerInv, NEW r \in Request, SignInNext(r)
  PROVE  Kept(r)
<1> USE DEF SignInStages, CredStages, PasskeyStages, PasswordStages, GoogleStages, CompleteStages,
            CopyStages, SpentStages, IdnStages
<1>1. ASSUME NEW s \in StateId, NEW l \in Login, SignInBegin(r, s, l) PROVE Kept(r)
  <2> DEFINE rec == [[Fresh EXCEPT !.tok = s, !.copy = states[s], !.login = l] EXCEPT !.pc = "signin.list"]
  <2>1. states[s] # None /\ states[s] \in StateRow /\ req[r].pc = "idle"
    BY <1>1 DEF SignInBegin, At, Live, ServerInv, TypeOK, Maybe
  <2>2. rec \in Local /\ rec.pc = "signin.list" /\ rec.tok = s /\ rec.copy = states[s] /\ rec.login = l
    BY <2>1 DEF Fresh, Local, Stage, Maybe
  <2>3. Becomes(r, rec)
    <3> HIDE DEF rec
    <3> QED
      BY <1>1, <2>2, Assigns DEF SignInBegin, Begin, ServerInv, rec
  <2> HIDE DEF rec
  <2>4. TypeOK' /\ Leaves(r) /\ \A x \in StateId : Challenged(x)'
    BY <1>1, <2>1, <2>3, Looks DEF SignInBegin, ServerInv, TypeOK, browser, Ended
  <2>5. Mine(r)'
    <3>1. Locals(r)'
      BY <1>1, <2>1, <2>2, <2>3 DEF SignInBegin, Becomes, Locals, ServerInv, Challenged, tables
    <3>2. Custody(r)'
      BY <1>1, <2>1, <2>2, <2>3, NoRows DEF SignInBegin, Becomes, Custody, tables, Ended
    <3> QED
      BY <3>1, <3>2 DEF Mine
  <2> QED
    BY <2>4, <2>5 DEF Kept
<1>2. CASE SignInList(r)
  <2>1. req[r].pc = "signin.list" /\ Locals(r) /\ TypeOK /\ req[r] \in Local
    BY <1>2 DEF SignInList, At, ServerInv, Mine, TypeOK
  <2>2. CASE Return(r)
    BY <1>2, <2>1, <2>2, ReturnsAreKept DEF SignInList, Ended
  <2>3. ASSUME NEW p \in Choices(req[r].copy.app, req[r].login),
               NEW pc \in {"signin.passkey", "signin.password"},
               req' = [req EXCEPT ![r].provider = p, ![r].pc = pc]
        PROVE  Kept(r)
    <3> DEFINE rec == [req[r] EXCEPT !.provider = p, !.pc = pc]
    <3>1. p \in Provider \cup {Canary}
      BY <2>1, <2>3 DEF Choices, LinkedProviders, ProviderBySlug, TypeOK, SrcRow
    <3>2. /\ rec \in Local /\ rec.pc = pc /\ rec.provider = p
          /\ rec.tok = req[r].tok /\ rec.copy = req[r].copy /\ rec.login = req[r].login
      <4>1. pc \in Stage /\ p \in Maybe(Provider \cup {Canary})
        BY <3>1 DEF Stage, Maybe
      <4> QED
        BY <2>1, <4>1 DEF Local
    <3>3. Becomes(r, rec)
      <4>1. req' = [req EXCEPT ![r] = rec]
        BY <2>3
      <4> QED
        BY <2>1, <3>2, <4>1, Assigns
    <3> HIDE DEF rec
    <3>4. TypeOK' /\ Leaves(r) /\ \A x \in StateId : Challenged(x)'
      BY <1>2, <2>1, <3>3, Looks DEF SignInList, TypeOK, browser, Ended
    <3>5. Locals(r)'
      BY <1>2, <2>1, <3>1, <3>2, <3>3 DEF SignInList, Becomes, Locals, tables
    <3>6. Custody(r)'
      BY <1>2, <2>1, <3>2, <3>3, NoRows DEF SignInList, Becomes, Custody, tables, Ended
    <3> QED
      BY <3>4, <3>5, <3>6 DEF Kept, Mine
  <2> QED
    BY <1>2, <2>2, <2>3 DEF SignInList
<1>3. CASE SignInPassword(r)
  <2>1. req[r].pc = "signin.password" /\ Locals(r) /\ Return(r)
    BY <1>3 DEF SignInPassword, At, ServerInv, Mine
  <2>2. CASE Conflict(r) /\ UNCHANGED states
    BY <1>3, <2>1, <2>2, ReturnsAreKept DEF SignInPassword, Ended, tables
  <2>3. CASE SetAttrs(r, [req[r].copy EXCEPT !.provider = req[r].provider])
    <3> DEFINE attrs == [req[r].copy EXCEPT !.provider = req[r].provider]
    <3>1. attrs \in StateRow /\ attrs.challenge = req[r].copy.challenge /\ attrs.login = req[r].copy.login
      BY <2>1 DEF Locals, StateRow, Maybe
    <3> HIDE DEF attrs
    <3>2. TypeOK' /\ Leaves(r) /\ \A x \in StateId : Challenged(x)'
      BY <1>3, <2>1, <2>3, <3>1, Returns, Writes
      DEF SignInPassword, Ended, Locals, attrs, browser, ServerInv, TypeOK
    <3>3. Mine(r)'
      BY <1>3, <2>1, NoRows, Returns, EndedIsMine DEF SignInPassword, Becomes, Ended, ServerInv
    <3> QED
      BY <3>2, <3>3 DEF Kept
  <2> QED
    BY <1>3, <2>2, <2>3 DEF SignInPassword
<1>4. CASE SignInPasskey(r)
  <2>1. req[r].pc = "signin.passkey" /\ Locals(r) /\ TypeOK /\ req[r] \in Local
    BY <1>4 DEF SignInPasskey, At, ServerInv, Mine, TypeOK
  <2>2. CASE Conflict(r) /\ Return(r) /\ UNCHANGED states
    BY <1>4, <2>1, <2>2, ReturnsAreKept DEF SignInPasskey, Ended, tables
  <2> DEFINE attrs == [req[r].copy EXCEPT !.login = req[r].login, !.provider = req[r].provider,
                                          !.challenge = r]
  <2>3. CASE SetAttrs(r, attrs) /\ GoTo(r, "signin.page")
    <3> DEFINE rec == [req[r] EXCEPT !.pc = "signin.page"]
    <3>1. attrs \in StateRow /\ attrs.login \in Login
      BY <2>1 DEF Locals, StateRow, Maybe
    <3>2. Becomes(r, rec)
      BY <2>1, <2>3, Goes DEF Stage
    <3>3. /\ rec.pc = "signin.page" /\ rec.tok = req[r].tok /\ rec.copy = req[r].copy
          /\ rec.login = req[r].login /\ rec.provider = req[r].provider
      BY <2>1 DEF Local
    <3> HIDE DEF attrs, rec
    <3>4. TypeOK' /\ Leaves(r) /\ \A x \in StateId : Challenged(x)'
      BY <1>4, <2>1, <2>3, <3>1, <3>2, Writes DEF SignInPasskey, Ended, Locals, browser, TypeOK
    <3>5. Locals(r)'
      BY <2>1, <3>2, <3>3, <3>4 DEF Becomes, Locals, Leaves
    <3>6. Custody(r)'
      BY <1>4, <2>1, <3>2, <3>3, NoRows DEF SignInPasskey, Becomes, Custody, Ended
    <3> QED
      BY <3>4, <3>5, <3>6 DEF Kept, Mine
  <2> QED
    BY <1>4, <2>2, <2>3 DEF SignInPasskey
<1>5. CASE SignInPage(r)
  <2>1. req[r].pc = "signin.page" /\ Locals(r) /\ Return(r) /\ TypeOK
    BY <1>5 DEF SignInPage, At, ServerInv, Mine
  <2>2. pages' \subseteq Page
    <3>1. {src.sub : src \in KnownSources(req[r].provider, req[r].login)} \in SUBSET (Cred \cup Login)
      BY <2>1 DEF KnownSources, TypeOK, SrcRow
    <3> QED
      BY <1>5, <2>1, <3>1 DEF SignInPage, Locals, TypeOK, Page
  <2> QED
    BY <1>5, <2>1, <2>2, ReturnsAreKept DEF SignInPage, Ended, TypeOK
<1> QED
  BY <1>1, <1>2, <1>3, <1>4, <1>5 DEF SignInNext

-------------------------------------------------------------------------------
\* POST /sign-up.

LEMMA SignUpStep ==
  ASSUME ServerInv, NEW r \in Request, SignUpNext(r)
  PROVE  Kept(r)
<1> USE DEF SignInStages, CredStages, PasskeyStages, PasswordStages, GoogleStages, CompleteStages,
            CopyStages, SpentStages, IdnStages
<1>1. ASSUME NEW s \in StateId, NEW l \in Login, NEW p \in Provider, SignUpBegin(r, s, l, p)
      PROVE  Kept(r)
  <2> DEFINE rec == [[Fresh EXCEPT !.tok = s, !.login = l, !.provider = p] EXCEPT !.pc = "signup.otp"]
  <2>1. req[r].pc = "idle" /\ TypeOK
    BY <1>1 DEF SignUpBegin, At, ServerInv
  <2>2. rec \in Local /\ rec.pc = "signup.otp" /\ rec.tok = s /\ rec.login = l /\ rec.provider = p
    BY DEF Fresh, Local, Stage, Maybe
  <2>3. Becomes(r, rec)
    <3> HIDE DEF rec
    <3> QED
      BY <1>1, <2>1, <2>2, Assigns DEF SignUpBegin, Begin, rec
  <2> HIDE DEF rec
  <2>4. TypeOK' /\ Leaves(r) /\ \A x \in StateId : Challenged(x)'
    BY <1>1, <2>1, <2>3, Looks DEF SignUpBegin, TypeOK, browser, Ended
  <2>5. Mine(r)'
    BY <1>1, <2>1, <2>2, <2>3, NoRows DEF SignUpBegin, Becomes, Mine, Locals, Custody, tables, Ended
  <2> QED
    BY <2>4, <2>5 DEF Kept
<1>2. CASE SignUpOtp(r)
  <2> DEFINE row == [login |-> req[r].login, provider |-> req[r].provider, state |-> req[r].tok,
                     spentBy |-> None]
             rec == [req[r] EXCEPT !.pc = "signup.mail"]
  <2>1. req[r].pc = "signup.otp" /\ Locals(r) /\ TypeOK /\ req[r] \in Local
    BY <1>2 DEF SignUpOtp, At, ServerInv, Mine, TypeOK
  <2>2. row \in OtpRow /\ row # None
    BY <2>1, RowAssumption DEF Locals, OtpRow, Maybe
  <2>3. /\ otps' \in [Request -> Maybe(OtpRow)] /\ otps'[r] = row
        /\ \A o \in Request : o # r => otps'[o] = otps[o]
    <3> HIDE DEF row
    <3> QED
      BY <1>2, <2>1, <2>2 DEF SignUpOtp, TypeOK, Maybe, row
  <2>4. Becomes(r, rec)
    BY <1>2, <2>1, Goes DEF SignUpOtp, Stage
  <2>5. rec.pc = "signup.mail" /\ rec.tok = req[r].tok /\ rec.login = req[r].login
        /\ rec.provider = req[r].provider
    BY <2>1 DEF Local
  <2> HIDE DEF row, rec
  <2>6. TypeOK'
    BY <1>2, <2>1, <2>3, <2>4 DEF SignUpOtp, TypeOK, Becomes, browser
  <2>7. Leaves(r)
    BY <1>2, <2>1, <2>2, <2>3, <2>4 DEF SignUpOtp, Leaves, Becomes, Ended
  <2>8. \A s \in StateId : Challenged(s)'
    BY <1>2 DEF SignUpOtp, ServerInv, Challenged
  <2>9. Mine(r)'
    BY <1>2, <2>1, <2>4, <2>5, NoRows DEF SignUpOtp, Becomes, Mine, Locals, Custody, Ended
  <2> QED
    BY <2>6, <2>7, <2>8, <2>9 DEF Kept
<1>3. CASE SignUpMail(r)
  <2>1. req[r].pc = "signup.mail" /\ Custody(r) /\ Becomes(r, Done) /\ TypeOK
    BY <1>3, Returns DEF SignUpMail, At, ServerInv, Mine
  <2>2. TypeOK' /\ Leaves(r) /\ \A x \in StateId : Challenged(x)'
    BY <1>3, <2>1, Looks DEF SignUpMail, TypeOK, Ended, Maybe
  <2>3. Mine(r)'
    BY <1>3, <2>1, Constants DEF SignUpMail, Becomes, Mine, Locals, Custody, tables, Ended
  <2> QED
    BY <2>2, <2>3 DEF Kept
<1> QED
  BY <1>1, <1>2, <1>3 DEF SignUpNext

-------------------------------------------------------------------------------
\* GET /sign-up.

LEMMA VerifyStep ==
  ASSUME ServerInv, NEW r \in Request, VerifyNext(r)
  PROVE  Kept(r)
<1> USE DEF SignInStages, CredStages, PasskeyStages, PasswordStages, GoogleStages, CompleteStages,
            CopyStages, SpentStages, IdnStages
<1>1. ASSUME NEW o \in Request, VerifyBegin(r, o) PROVE Kept(r)
  <2> DEFINE rec == [[Fresh EXCEPT !.tok = o, !.login = otps[o].login, !.provider = otps[o].provider]
                       EXCEPT !.pc = "verify.expire"]
  <2>1. req[r].pc = "idle" /\ TypeOK
    BY <1>1 DEF VerifyBegin, At, ServerInv
  <2>2. CASE ReturnWithoutNonce(r)
    BY <1>1, <2>1, <2>2, ReturnsAreKept DEF VerifyBegin, ReturnWithoutNonce, TypeOK, Maybe, Ended
  <2>3. CASE Live("otp", otps, o) /\ req' = [req EXCEPT ![r] = rec] /\ UNCHANGED nonce
    <3>1. otps[o] # None /\ otps[o] \in OtpRow
      BY <2>1, <2>3 DEF Live, TypeOK, Maybe
    <3>2. rec \in Local /\ rec.pc = "verify.expire" /\ rec.tok = o /\ rec.login \in Login
          /\ rec.provider \in Provider
      BY <3>1 DEF Fresh, Local, Stage, Maybe, OtpRow
    <3> HIDE DEF rec
    <3>3. Becomes(r, rec)
      BY <2>1, <2>3, <3>2, Assigns
    <3>4. TypeOK' /\ Leaves(r) /\ \A x \in StateId : Challenged(x)'
      BY <1>1, <2>1, <2>3, <3>3, Looks DEF VerifyBegin, TypeOK, Ended
    <3>5. Mine(r)'
      BY <1>1, <2>1, <3>1, <3>2, <3>3, NoRows
      DEF VerifyBegin, Becomes, Mine, Locals, Custody, tables, Ended
    <3> QED
      BY <3>4, <3>5 DEF Kept
  <2> QED
    BY <1>1, <2>2, <2>3 DEF VerifyBegin, Begin
<1>2. CASE VerifyExpire(r)
  <2> DEFINE o == req[r].tok
             row == [otps[o] EXCEPT !.spentBy = r]
             rec == [req[r] EXCEPT !.pc = "verify.state", !.tok = otps[o].state]
  <2>1. /\ req[r].pc = "verify.expire" /\ Locals(r) /\ TypeOK /\ req[r] \in Local
        /\ o \in Request /\ otps[o] # None /\ otps[o] \in OtpRow
    BY <1>2 DEF VerifyExpire, At, ServerInv, Mine, Locals, TypeOK, Maybe
  <2>2. CASE ReturnWithoutNonce(r) /\ UNCHANGED otps
    BY <1>2, <2>1, <2>2, ReturnsAreKept
    DEF VerifyExpire, ReturnWithoutNonce, TypeOK, Maybe, Ended, tables
  <2>3. CASE /\ otps' = [otps EXCEPT ![o].spentBy = r]
             /\ req' = [req EXCEPT ![r].pc = "verify.state", ![r].tok = otps[o].state]
             /\ UNCHANGED nonce
    <3>1. row \in OtpRow /\ otps' = [otps EXCEPT ![o] = row] /\ row # None
      BY <2>1, <2>3, RowAssumption DEF OtpRow, Maybe
    <3>2. /\ rec \in Local /\ rec.pc = "verify.state" /\ rec.tok \in StateId
          /\ rec.login = req[r].login /\ rec.provider = req[r].provider
      <4>1. otps[o].state \in StateId /\ otps[o].state \in Maybe(StateId \cup Request)
        BY <2>1 DEF OtpRow, Maybe
      <4>2. "verify.state" \in Stage
        BY DEF Stage
      <4> QED
        BY <2>1, <4>1, <4>2 DEF Local
    <3>3. req' = [req EXCEPT ![r] = rec]
      BY <2>3
    <3> HIDE DEF rec, row, o
    <3>4. Becomes(r, rec)
      BY <2>1, <3>2, <3>3, Assigns
    <3>5. /\ otps' \in [Request -> Maybe(OtpRow)] /\ otps'[o] # None
          /\ \A x \in Request : x # o => otps'[x] = otps[x]
      BY <2>1, <3>1 DEF TypeOK, Maybe
    <3>6. TypeOK'
      BY <1>2, <2>1, <2>3, <3>4, <3>5 DEF VerifyExpire, TypeOK, Becomes
    <3>7. Leaves(r)
      BY <1>2, <2>1, <3>4, <3>5 DEF VerifyExpire, Leaves, Becomes, Ended
    <3>8. \A s \in StateId : Challenged(s)'
      BY <1>2 DEF VerifyExpire, ServerInv, Challenged
    <3>9. Mine(r)'
      <4>1. Locals(r)'
        BY <2>1, <3>2, <3>4 DEF Becomes, Locals
      <4>2. otps'[r] = None
        BY <2>1, <3>5, NoRows DEF Ended
      <4>3. Custody(r)'
        BY <1>2, <2>1, <3>2, <3>4, <4>2, NoRows DEF VerifyExpire, Becomes, Custody, Ended
      <4> QED
        BY <4>1, <4>3 DEF Mine
    <3> QED
      BY <3>6, <3>7, <3>8, <3>9 DEF Kept
  <2> QED
    BY <1>2, <2>2, <2>3 DEF VerifyExpire
<1>3. CASE VerifyState(r)
  <2> DEFINE s == req[r].tok
             rec == [req[r] EXCEPT !.pc = "verify.set", !.copy = states[s]]
  <2>1. req[r].pc = "verify.state" /\ Locals(r) /\ TypeOK /\ req[r] \in Local /\ s \in StateId
    BY <1>3 DEF VerifyState, At, ServerInv, Mine, Locals, TypeOK
  <2>2. CASE ReturnWithoutNonce(r)
    BY <1>3, <2>1, <2>2, ReturnsAreKept DEF VerifyState, ReturnWithoutNonce, TypeOK, Maybe, Ended
  <2>3. CASE /\ Live("state", states, s)
             /\ req' = [req EXCEPT ![r].pc = "verify.set", ![r].copy = states[s]]
             /\ UNCHANGED nonce
    <3>1. states[s] # None /\ states[s] \in StateRow
      BY <2>1, <2>3 DEF Live, TypeOK, Maybe
    <3>2. /\ rec \in Local /\ rec.pc = "verify.set" /\ rec.tok = s /\ rec.copy = states[s]
          /\ rec.login = req[r].login /\ rec.provider = req[r].provider
      <4>1. states[s] \in Maybe(StateRow \cup CodeRow)
        BY <3>1 DEF Maybe
      <4>2. "verify.set" \in Stage
        BY DEF Stage
      <4> QED
        BY <2>1, <4>1, <4>2 DEF Local
    <3>3. req' = [req EXCEPT ![r] = rec]
      BY <2>3
    <3> HIDE DEF rec
    <3>4. Becomes(r, rec)
      BY <2>1, <3>2, <3>3, Assigns
    <3>5. TypeOK' /\ Leaves(r) /\ \A x \in StateId : Challenged(x)'
      BY <1>3, <2>1, <2>3, <3>4, Looks DEF VerifyState, TypeOK, Ended
    <3>6. Locals(r)'
      BY <1>3, <2>1, <3>1, <3>2, <3>4 DEF VerifyState, Becomes, Locals, tables, ServerInv, Challenged
    <3>7. Custody(r)'
      BY <1>3, <2>1, <3>2, <3>4, NoRows DEF VerifyState, Becomes, Custody, tables, Ended
    <3> QED
      BY <3>5, <3>6, <3>7 DEF Kept, Mine
  <2> QED
    BY <1>3, <2>2, <2>3 DEF VerifyState
<1>4. CASE VerifySet(r)
  <2> DEFINE attrs == [req[r].copy EXCEPT !.login = req[r].login, !.provider = req[r].provider,
                                          !.challenge = r]
             pg == [type |-> "create", state |-> req[r].tok, challenge |-> r, login |-> req[r].login,
                    allow |-> {}]
  <2>1. req[r].pc = "verify.set" /\ Locals(r) /\ TypeOK /\ Return(r) /\ nonce' = None
    BY <1>4 DEF VerifySet, At, ServerInv, Mine, ReturnWithoutNonce
  <2>2. CASE Conflict(r) /\ UNCHANGED <<states, pages>>
    BY <1>4, <2>1, <2>2, ReturnsAreKept DEF VerifySet, TypeOK, Maybe, Ended, tables
  <2>3. CASE SetAttrs(r, attrs) /\ pages' = pages \cup {pg}
    <3>1. attrs \in StateRow /\ attrs.login \in Login
      BY <2>1 DEF Locals, StateRow, Maybe
    <3>2. pg \in Page
      BY <2>1 DEF Locals, Page
    <3> HIDE DEF attrs, pg
    <3>3. TypeOK' /\ Leaves(r) /\ \A x \in StateId : Challenged(x)'
      BY <1>4, <2>1, <2>3, <3>1, <3>2, Returns, Writes DEF VerifySet, Ended, Locals, TypeOK, Maybe
    <3>4. Mine(r)'
      BY <1>4, <2>1, NoRows, Returns, EndedIsMine DEF VerifySet, Becomes, Ended
    <3> QED
      BY <3>3, <3>4 DEF Kept
  <2> QED
    BY <1>4, <2>2, <2>3 DEF VerifySet
<1> QED
  BY <1>1, <1>2, <1>3, <1>4 DEF VerifyNext

-------------------------------------------------------------------------------
\* POST /credentials.

\* NewIdn and NewIdnSrc add well-typed rows.
LEMMA NewRows ==
  ASSUME TypeOK, NEW r \in Request
  PROVE  /\ \A a \in App, l \in Maybe(Login), via \in {"passkey", "google"}, c \in Maybe(Request) :
              NewIdn(r, a, l, via, c) => idns' \in [IdnId -> Maybe(IdnRow)]
         /\ \A q \in Local, n \in Count :
              /\ NewIdnSrc(q, n) /\ q.idn \in IdnId /\ q.sub \in Cred \cup Login
              => srcs' \subseteq SrcRow /\ q.provider \in Provider
<1>1. ASSUME NEW a \in App, NEW l \in Maybe(Login), NEW via \in {"passkey", "google"},
             NEW c \in Maybe(Request), NewIdn(r, a, l, via, c)
      PROVE  idns' \in [IdnId -> Maybe(IdnRow)]
  <2>1. [app |-> a, login |-> l, via |-> via, challenge |-> c] \in IdnRow
    BY DEF IdnRow
  <2> QED
    BY <1>1, <2>1 DEF NewIdn, TypeOK, Maybe
<1>2. ASSUME NEW q \in Local, NEW n \in Count, NewIdnSrc(q, n), q.idn \in IdnId, q.sub \in Cred \cup Login
      PROVE  srcs' \subseteq SrcRow /\ q.provider \in Provider
  <2>1. q.provider \in Provider
    BY <1>2 DEF NewIdnSrc, SrcRefused
  <2>2. [idn |-> q.idn, provider |-> q.provider, sub |-> q.sub, count |-> n, rev |-> 1] \in SrcRow
    BY <1>2, <2>1 DEF SrcRow
  <2> QED
    BY <1>2, <2>1, <2>2 DEF NewIdnSrc, TypeOK
<1> QED
  BY <1>1, <1>2

LEMMA CredentialStep ==
  ASSUME ServerInv, NEW r \in Request, CredentialNext(r)
  PROVE  Kept(r)
<1> USE DEF SignInStages, CredStages, PasskeyStages, PasswordStages, GoogleStages, CompleteStages,
            CopyStages, SpentStages, IdnStages
<1>1. ASSUME NEW s \in StateId, NEW k \in Cred, CredentialBegin(r, s, k) PROVE Kept(r)
  <2> DEFINE rec == [[Fresh EXCEPT !.tok = s, !.copy = states[s], !.provider = states[s].provider,
                                   !.sub = k] EXCEPT !.pc = "cred.find"]
  <2>1. /\ req[r].pc = "idle" /\ TypeOK /\ states[s] # None /\ states[s] \in StateRow
        /\ (states[s].challenge # None => states[s].login \in Login)
    BY <1>1 DEF CredentialBegin, At, Live, ServerInv, TypeOK, Maybe, Challenged
  <2>2. /\ rec \in Local /\ rec.pc = "cred.find" /\ rec.tok = s /\ rec.copy = states[s] /\ rec.sub = k
    <3>1. "cred.find" \in Stage /\ states[s] \in Maybe(StateRow \cup CodeRow)
          /\ states[s].provider \in Maybe(Provider \cup {Canary})
      BY <2>1 DEF Stage, Maybe, StateRow
    <3> QED
      BY <2>1, <3>1 DEF Fresh, Local, Maybe
  <2>3. Becomes(r, rec)
    <3> HIDE DEF rec
    <3> QED
      BY <1>1, <2>1, <2>2, Assigns DEF CredentialBegin, Begin, rec
  <2> HIDE DEF rec
  <2>4. Locals(r)'
    BY <1>1, <2>1, <2>2, <2>3 DEF CredentialBegin, Becomes, Locals, tables
  <2> QED
    BY <1>1, <2>1, <2>2, <2>3, <2>4, Moves DEF CredentialBegin, TypeOK, tables, browser, Ended
<1>2. CASE CredentialFind(r)
  <2>1. req[r].pc = "cred.find" /\ Locals(r) /\ TypeOK /\ req[r] \in Local
    BY <1>2 DEF CredentialFind, At, ServerInv, Mine, TypeOK
  <2>2. CASE Return(r)
    BY <1>2, <2>1, <2>2, ReturnsAreKept DEF CredentialFind, Ended
  <2>3. CASE GoTo(r, "cred.idn")
    <3> DEFINE rec == [req[r] EXCEPT !.pc = "cred.idn"]
    <3>1. Becomes(r, rec)
      BY <2>1, <2>3, Goes DEF Stage
    <3>2. /\ rec.pc = "cred.idn" /\ rec.tok = req[r].tok /\ rec.copy = req[r].copy
          /\ rec.sub = req[r].sub
      BY <2>1 DEF Local
    <3> HIDE DEF rec
    <3>3. Locals(r)'
      BY <1>2, <2>1, <3>1, <3>2 DEF CredentialFind, Becomes, Locals, tables
    <3> QED
      BY <1>2, <2>1, <3>1, <3>2, <3>3, Moves DEF CredentialFind, TypeOK, tables, browser, Ended
  <2> QED
    BY <1>2, <2>2, <2>3 DEF CredentialFind
<1>3. CASE CredentialIdn(r)
  <2>1. /\ req[r].pc = "cred.idn" /\ Locals(r) /\ TypeOK /\ req[r] \in Local
        /\ req[r].copy.app \in App /\ req[r].copy.login \in Maybe(Login)
        /\ req[r].copy.challenge \in Maybe(Request)
    BY <1>3 DEF CredentialIdn, At, ServerInv, Mine, TypeOK, Locals, StateRow
  <2>2. CASE Return(r) /\ UNCHANGED idns
    BY <1>3, <2>1, <2>2, ReturnsAreKept DEF CredentialIdn, Ended, tables
  <2>3. CASE /\ NewIdn(r, req[r].copy.app, req[r].copy.login, "passkey", req[r].copy.challenge)
             /\ req' = [req EXCEPT ![r].pc = "cred.src", ![r].idn = r]
    <3> DEFINE rec == [req[r] EXCEPT !.pc = "cred.src", !.idn = r]
    <3>1. idns' \in [IdnId -> Maybe(IdnRow)]
      BY <2>1, <2>3, NewRows
    <3>2. /\ rec \in Local /\ rec.pc = "cred.src" /\ rec.tok = req[r].tok /\ rec.copy = req[r].copy
          /\ rec.sub = req[r].sub /\ rec.idn = r /\ r \in IdnId
      <4>1. r \in Maybe(IdnId) /\ r \in IdnId /\ "cred.src" \in Stage
        BY DEF IdnId, Maybe, Stage
      <4> QED
        BY <2>1, <4>1 DEF Local
    <3>3. req' = [req EXCEPT ![r] = rec]
      BY <2>3
    <3> HIDE DEF rec
    <3>4. Becomes(r, rec)
      BY <2>1, <3>2, <3>3, Assigns
    <3>5. Locals(r)'
      BY <1>3, <2>1, <3>2, <3>4 DEF CredentialIdn, Becomes, Locals
    <3> QED
      BY <1>3, <2>1, <3>1, <3>2, <3>4, <3>5, Moves DEF CredentialIdn, TypeOK, browser, Ended
  <2> QED
    BY <1>3, <2>2, <2>3 DEF CredentialIdn
<1>4. CASE CredentialSrc(r)
  <2>1. req[r].pc = "cred.src" /\ Locals(r) /\ TypeOK /\ req[r] \in Local
    BY <1>4 DEF CredentialSrc, At, ServerInv, Mine, TypeOK
  <2>2. CASE Return(r) /\ UNCHANGED srcs
    BY <1>4, <2>1, <2>2, ReturnsAreKept DEF CredentialSrc, Ended, tables
  <2>3. ASSUME NEW n \in Count, NewIdnSrc(req[r], n), GoTo(r, "cred.expire") PROVE Kept(r)
    <3> DEFINE rec == [req[r] EXCEPT !.pc = "cred.expire"]
    <3>1. srcs' \subseteq SrcRow /\ req[r].provider \in Provider
      BY <2>1, <2>3, NewRows DEF Locals
    <3>2. Becomes(r, rec)
      BY <2>1, <2>3, Goes DEF Stage
    <3>3. /\ rec.pc = "cred.expire" /\ rec.tok = req[r].tok /\ rec.copy = req[r].copy
          /\ rec.sub = req[r].sub /\ rec.idn = req[r].idn /\ rec.provider = req[r].provider
      BY <2>1 DEF Local
    <3> HIDE DEF rec
    <3>4. Locals(r)'
      BY <1>4, <2>1, <3>1, <3>2, <3>3 DEF CredentialSrc, Becomes, Locals
    <3> QED
      BY <1>4, <2>1, <3>1, <3>2, <3>3, <3>4, Moves DEF CredentialSrc, TypeOK, browser, Ended
  <2> QED
    BY <1>4, <2>2, <2>3 DEF CredentialSrc
<1>5. CASE CredentialExpire(r)
  BY <1>5, Expires DEF CredentialExpire
<1>6. CASE NewCode(r, "cred.code")
  BY <1>6, CodeIssued
<1> QED
  BY <1>1, <1>2, <1>3, <1>4, <1>5, <1>6 DEF CredentialNext

-------------------------------------------------------------------------------
\* POST /cb with a passkey.

LEMMA PasskeyStep ==
  ASSUME ServerInv, NEW r \in Request, PasskeyNext(r)
  PROVE  Kept(r)
<1> USE DEF SignInStages, CredStages, PasskeyStages, PasswordStages, GoogleStages, CompleteStages,
            CopyStages, SpentStages, IdnStages
<1>1. ASSUME NEW s \in StateId, NEW k \in Cred, NEW n \in Count, PasskeyBegin(r, s, k, n) PROVE Kept(r)
  <2> DEFINE rec == [[Fresh EXCEPT !.tok = s, !.copy = states[s], !.sub = k,
                                   !.provider = states[s].provider, !.count = n]
                       EXCEPT !.pc = "passkey.src"]
  <2>1. /\ req[r].pc = "idle" /\ TypeOK
        /\ states[s] # None /\ states[s] \in StateRow /\ states[s].provider \in Provider
    BY <1>1 DEF PasskeyBegin, At, Live, ServerInv, TypeOK, Maybe
  <2>2. /\ rec \in Local /\ rec.pc = "passkey.src" /\ rec.tok = s /\ rec.copy = states[s]
        /\ rec.sub = k /\ rec.provider = states[s].provider /\ rec.count = n
    <3>1. "passkey.src" \in Stage /\ states[s] \in Maybe(StateRow \cup CodeRow)
          /\ states[s].provider \in Maybe(Provider \cup {Canary})
      BY <2>1 DEF Stage, Maybe
    <3> QED
      BY <2>1, <3>1 DEF Fresh, Local, Maybe
  <2>3. Becomes(r, rec)
    <3> HIDE DEF rec
    <3> QED
      BY <1>1, <2>1, <2>2, Assigns DEF PasskeyBegin, Begin, rec
  <2> HIDE DEF rec
  <2>4. Locals(r)'
    BY <1>1, <2>1, <2>2, <2>3 DEF PasskeyBegin, Becomes, Locals, tables, ServerInv, Challenged
  <2> QED
    BY <1>1, <2>1, <2>2, <2>3, <2>4, Moves DEF PasskeyBegin, TypeOK, tables, browser, Ended
<1>2. CASE PasskeySrc(r)
  <2>1. req[r].pc = "passkey.src" /\ Locals(r) /\ TypeOK /\ req[r] \in Local
    BY <1>2 DEF PasskeySrc, At, ServerInv, Mine, TypeOK
  <2>2. CASE Return(r)
    BY <1>2, <2>1, <2>2, ReturnsAreKept DEF PasskeySrc, Ended
  <2>3. ASSUME NEW src \in srcs,
               req' = [req EXCEPT ![r].pc = "passkey.count", ![r].src = src, ![r].idn = src.idn]
        PROVE  Kept(r)
    <3> DEFINE rec == [req[r] EXCEPT !.pc = "passkey.count", !.src = src, !.idn = src.idn]
    <3>1. src \in SrcRow /\ src.idn \in IdnId
      BY <2>1 DEF TypeOK, SrcRow
    <3>2. /\ rec \in Local /\ rec.pc = "passkey.count" /\ rec.tok = req[r].tok
          /\ rec.copy = req[r].copy /\ rec.sub = req[r].sub /\ rec.provider = req[r].provider
          /\ rec.count = req[r].count /\ rec.src = src /\ rec.idn = src.idn
      <4>1. "passkey.count" \in Stage /\ src \in Maybe(SrcRow) /\ src.idn \in Maybe(IdnId)
        BY <3>1 DEF Stage, Maybe
      <4> QED
        BY <2>1, <4>1 DEF Local
    <3>3. req' = [req EXCEPT ![r] = rec]
      BY <2>3
    <3> HIDE DEF rec
    <3>4. Becomes(r, rec)
      BY <2>1, <3>2, <3>3, Assigns
    <3>5. Locals(r)'
      BY <1>2, <2>1, <3>1, <3>2, <3>4 DEF PasskeySrc, Becomes, Locals, tables
    <3> QED
      BY <1>2, <2>1, <3>2, <3>4, <3>5, Moves DEF PasskeySrc, TypeOK, tables, browser, Ended
  <2> QED
    BY <1>2, <2>2, <2>3 DEF PasskeySrc, SourceOf
<1>3. CASE PasskeyCount(r)
  <2>1. req[r].pc = "passkey.count" /\ Locals(r) /\ TypeOK /\ req[r] \in Local
    BY <1>3 DEF PasskeyCount, At, ServerInv, Mine, TypeOK
  <2>2. CASE Return(r) /\ UNCHANGED srcs
    BY <1>3, <2>1, <2>2, ReturnsAreKept DEF PasskeyCount, Ended, tables
  <2>3. ASSUME NEW row \in srcs, GoTo(r, "passkey.expire"),
               srcs' = (srcs \ {row}) \cup {[req[r].src EXCEPT !.count = req[r].count, !.rev = @ + 1]}
        PROVE  Kept(r)
    <3> DEFINE rec == [req[r] EXCEPT !.pc = "passkey.expire"]
    <3>1. [req[r].src EXCEPT !.count = req[r].count, !.rev = @ + 1] \in SrcRow
      <4>1. req[r].src \in SrcRow /\ req[r].count \in Count /\ req[r].src.rev + 1 \in Nat
        BY <2>1 DEF Locals, SrcRow
      <4> QED
        BY <4>1 DEF SrcRow
    <3>2. srcs' \subseteq SrcRow
      BY <2>1, <2>3, <3>1 DEF TypeOK
    <3>3. Becomes(r, rec)
      BY <2>1, <2>3, Goes DEF Stage
    <3>4. /\ rec.pc = "passkey.expire" /\ rec.tok = req[r].tok /\ rec.copy = req[r].copy
          /\ rec.sub = req[r].sub /\ rec.idn = req[r].idn /\ rec.provider = req[r].provider
          /\ rec.count = req[r].count
      BY <2>1 DEF Local
    <3> HIDE DEF rec
    <3>5. Locals(r)'
      BY <1>3, <2>1, <3>3, <3>4 DEF PasskeyCount, Becomes, Locals
    <3> QED
      BY <1>3, <2>1, <3>2, <3>3, <3>4, <3>5, Moves DEF PasskeyCount, TypeOK, browser, Ended
  <2> QED
    BY <1>3, <2>2, <2>3 DEF PasskeyCount
<1>4. CASE PasskeyExpire(r)
  BY <1>4, Expires DEF PasskeyExpire
<1>5. CASE NewCode(r, "passkey.code")
  BY <1>5, CodeIssued
<1> QED
  BY <1>1, <1>2, <1>3, <1>4, <1>5 DEF PasskeyNext

-------------------------------------------------------------------------------
\* POST /cb with a password.

LEMMA PasswordStep ==
  ASSUME ServerInv, NEW r \in Request, PasswordNext(r)
  PROVE  Kept(r)
<1> USE DEF SignInStages, CredStages, PasskeyStages, PasswordStages, GoogleStages, CompleteStages,
            CopyStages, SpentStages, IdnStages
<1>1. ASSUME NEW s \in StateId, NEW l \in Login, PasswordBegin(r, s, l) PROVE Kept(r)
  <2> DEFINE rec == [[Fresh EXCEPT !.tok = s, !.copy = states[s], !.sub = l,
                                   !.provider = states[s].provider] EXCEPT !.pc = "password.src"]
  <2>1. /\ req[r].pc = "idle" /\ TypeOK
        /\ states[s] # None /\ states[s] \in StateRow /\ states[s].provider \in Provider
    BY <1>1 DEF PasswordBegin, At, Live, ServerInv, TypeOK, Maybe
  <2>2. /\ rec \in Local /\ rec.pc = "password.src" /\ rec.tok = s /\ rec.copy = states[s]
        /\ rec.sub = l /\ rec.provider = states[s].provider
    <3>1. "password.src" \in Stage /\ states[s] \in Maybe(StateRow \cup CodeRow)
          /\ states[s].provider \in Maybe(Provider \cup {Canary})
      BY <2>1 DEF Stage, Maybe
    <3> QED
      BY <2>1, <3>1 DEF Fresh, Local, Maybe
  <2>3. Becomes(r, rec)
    <3> HIDE DEF rec
    <3> QED
      BY <1>1, <2>1, <2>2, Assigns DEF PasswordBegin, Begin, rec
  <2> HIDE DEF rec
  <2>4. Locals(r)'
    BY <1>1, <2>1, <2>2, <2>3 DEF PasswordBegin, Becomes, Locals, tables, ServerInv, Challenged
  <2> QED
    BY <1>1, <2>1, <2>2, <2>3, <2>4, Moves DEF PasswordBegin, TypeOK, tables, browser, Ended
<1>2. CASE PasswordSrc(r)
  <2>1. req[r].pc = "password.src" /\ Locals(r) /\ TypeOK /\ req[r] \in Local
    BY <1>2 DEF PasswordSrc, At, ServerInv, Mine, TypeOK
  <2>2. CASE Return(r)
    BY <1>2, <2>1, <2>2, ReturnsAreKept DEF PasswordSrc, Ended
  <2>3. ASSUME NEW src \in srcs, req' = [req EXCEPT ![r].pc = "password.expire", ![r].idn = src.idn]
        PROVE  Kept(r)
    <3> DEFINE rec == [req[r] EXCEPT !.pc = "password.expire", !.idn = src.idn]
    <3>1. src.idn \in IdnId
      BY <2>1 DEF TypeOK, SrcRow
    <3>2. /\ rec \in Local /\ rec.pc = "password.expire" /\ rec.tok = req[r].tok
          /\ rec.copy = req[r].copy /\ rec.sub = req[r].sub /\ rec.provider = req[r].provider
          /\ rec.idn = src.idn
      <4>1. "password.expire" \in Stage /\ src.idn \in Maybe(IdnId)
        BY <3>1 DEF Stage, Maybe
      <4> QED
        BY <2>1, <4>1 DEF Local
    <3>3. req' = [req EXCEPT ![r] = rec]
      BY <2>3
    <3> HIDE DEF rec
    <3>4. Becomes(r, rec)
      BY <2>1, <3>2, <3>3, Assigns
    <3>5. Locals(r)'
      BY <1>2, <2>1, <3>1, <3>2, <3>4 DEF PasswordSrc, Becomes, Locals, tables
    <3> QED
      BY <1>2, <2>1, <3>2, <3>4, <3>5, Moves DEF PasswordSrc, TypeOK, tables, browser, Ended
  <2> QED
    BY <1>2, <2>2, <2>3 DEF PasswordSrc, SourceOf
<1>3. CASE PasswordExpire(r)
  BY <1>3, Expires DEF PasswordExpire
<1>4. CASE NewCode(r, "password.code")
  BY <1>4, CodeIssued
<1> QED
  BY <1>1, <1>2, <1>3, <1>4 DEF PasswordNext

-------------------------------------------------------------------------------
\* GET /providers/{id}/cb.

LEMMA GoogleStep ==
  ASSUME ServerInv, NEW r \in Request, GoogleNext(r)
  PROVE  Kept(r)
<1> USE DEF SignInStages, CredStages, PasskeyStages, PasswordStages, GoogleStages, CompleteStages,
            CopyStages, SpentStages, IdnStages
<1>1. ASSUME NEW s \in StateId, NEW p \in Provider, NEW g \in Login, NEW l \in Login,
             GoogleBegin(r, s, p, g, l)
      PROVE  Kept(r)
  <2> DEFINE rec == [[Fresh EXCEPT !.tok = s, !.copy = states[s], !.provider = p, !.sub = g,
                                   !.login = l] EXCEPT !.pc = "google.expire"]
  <2>1. req[r].pc = "idle" /\ TypeOK /\ states[s] # None /\ states[s] \in StateRow
    BY <1>1 DEF GoogleBegin, At, Live, ServerInv, TypeOK, Maybe
  <2>2. /\ rec \in Local /\ rec.pc = "google.expire" /\ rec.tok = s /\ rec.copy = states[s]
        /\ rec.sub = g /\ rec.provider = p /\ rec.login = l
    <3>1. "google.expire" \in Stage /\ states[s] \in Maybe(StateRow \cup CodeRow)
      BY <2>1 DEF Stage, Maybe
    <3> QED
      BY <2>1, <3>1 DEF Fresh, Local, Maybe
  <2>3. Becomes(r, rec)
    <3> HIDE DEF rec
    <3> QED
      BY <1>1, <2>1, <2>2, Assigns DEF GoogleBegin, Begin, rec
  <2> HIDE DEF rec
  <2>4. Locals(r)'
    BY <1>1, <2>1, <2>2, <2>3 DEF GoogleBegin, Becomes, Locals, tables, ServerInv, Challenged
  <2> QED
    BY <1>1, <2>1, <2>2, <2>3, <2>4, Moves DEF GoogleBegin, TypeOK, tables, browser, Ended
<1>2. CASE GoogleExpire(r)
  BY <1>2, Expires DEF GoogleExpire
<1>3. CASE GoogleFind(r)
  <2>1. req[r].pc = "google.find" /\ Locals(r) /\ TypeOK /\ req[r] \in Local
    BY <1>3 DEF GoogleFind, At, ServerInv, Mine, TypeOK
  <2>2. CASE GoTo(r, "google.idn")
    <3> DEFINE rec == [req[r] EXCEPT !.pc = "google.idn"]
    <3>1. Becomes(r, rec)
      BY <2>1, <2>2, Goes DEF Stage
    <3>2. /\ rec.pc = "google.idn" /\ rec.tok = req[r].tok /\ rec.copy = req[r].copy
          /\ rec.sub = req[r].sub /\ rec.provider = req[r].provider /\ rec.login = req[r].login
      BY <2>1 DEF Local
    <3> HIDE DEF rec
    <3>3. Locals(r)'
      BY <1>3, <2>1, <3>1, <3>2 DEF GoogleFind, Becomes, Locals, tables
    <3> QED
      BY <1>3, <2>1, <3>1, <3>2, <3>3, Moves DEF GoogleFind, TypeOK, tables, browser, Ended
  <2>3. ASSUME NEW src \in srcs, req' = [req EXCEPT ![r].pc = "google.code", ![r].idn = src.idn]
        PROVE  Kept(r)
    <3> DEFINE rec == [req[r] EXCEPT !.pc = "google.code", !.idn = src.idn]
    <3>1. src.idn \in IdnId
      BY <2>1 DEF TypeOK, SrcRow
    <3>2. /\ rec \in Local /\ rec.pc = "google.code" /\ rec.tok = req[r].tok
          /\ rec.copy = req[r].copy /\ rec.sub = req[r].sub /\ rec.provider = req[r].provider
          /\ rec.login = req[r].login /\ rec.idn = src.idn
      <4>1. "google.code" \in Stage /\ src.idn \in Maybe(IdnId)
        BY <3>1 DEF Stage, Maybe
      <4> QED
        BY <2>1, <4>1 DEF Local
    <3>3. req' = [req EXCEPT ![r] = rec]
      BY <2>3
    <3> HIDE DEF rec
    <3>4. Becomes(r, rec)
      BY <2>1, <3>2, <3>3, Assigns
    <3>5. Locals(r)'
      BY <1>3, <2>1, <3>1, <3>2, <3>4 DEF GoogleFind, Becomes, Locals, tables
    <3> QED
      BY <1>3, <2>1, <3>2, <3>4, <3>5, Moves DEF GoogleFind, TypeOK, tables, browser, Ended
  <2> QED
    BY <1>3, <2>2, <2>3 DEF GoogleFind, SourceOf
<1>4. CASE GoogleIdn(r)
  <2>1. /\ req[r].pc = "google.idn" /\ Locals(r) /\ TypeOK /\ req[r] \in Local
        /\ AppOf[req[r].provider] \in App /\ req[r].login \in Maybe(Login) /\ None \in Maybe(Request)
    BY <1>4, ProviderAssumption DEF GoogleIdn, At, ServerInv, Mine, TypeOK, Locals, Maybe
  <2>2. CASE Return(r) /\ UNCHANGED idns
    BY <1>4, <2>1, <2>2, ReturnsAreKept DEF GoogleIdn, Ended, tables
  <2>3. CASE /\ NewIdn(r, AppOf[req[r].provider], req[r].login, "google", None)
             /\ req' = [req EXCEPT ![r].pc = "google.src", ![r].idn = r]
    <3> DEFINE rec == [req[r] EXCEPT !.pc = "google.src", !.idn = r]
    <3>1. idns' \in [IdnId -> Maybe(IdnRow)]
      BY <2>1, <2>3, NewRows
    <3>2. /\ rec \in Local /\ rec.pc = "google.src" /\ rec.tok = req[r].tok /\ rec.copy = req[r].copy
          /\ rec.sub = req[r].sub /\ rec.provider = req[r].provider /\ rec.login = req[r].login
          /\ rec.idn = r /\ r \in IdnId
      <4>1. r \in Maybe(IdnId) /\ r \in IdnId /\ "google.src" \in Stage
        BY DEF IdnId, Maybe, Stage
      <4> QED
        BY <2>1, <4>1 DEF Local
    <3>3. req' = [req EXCEPT ![r] = rec]
      BY <2>3
    <3> HIDE DEF rec
    <3>4. Becomes(r, rec)
      BY <2>1, <3>2, <3>3, Assigns
    <3>5. Locals(r)'
      BY <1>4, <2>1, <3>2, <3>4 DEF GoogleIdn, Becomes, Locals
    <3> QED
      BY <1>4, <2>1, <3>1, <3>2, <3>4, <3>5, Moves DEF GoogleIdn, TypeOK, browser, Ended
  <2> QED
    BY <1>4, <2>2, <2>3 DEF GoogleIdn
<1>5. CASE GoogleSrc(r)
  <2>1. req[r].pc = "google.src" /\ Locals(r) /\ TypeOK /\ req[r] \in Local
    BY <1>5 DEF GoogleSrc, At, ServerInv, Mine, TypeOK
  <2>2. CASE Return(r) /\ UNCHANGED srcs
    BY <1>5, <2>1, <2>2, ReturnsAreKept DEF GoogleSrc, Ended, tables
  <2>3. CASE NewIdnSrc(req[r], 0) /\ GoTo(r, "google.code")
    <3> DEFINE rec == [req[r] EXCEPT !.pc = "google.code"]
    <3>1. srcs' \subseteq SrcRow
      BY <2>1, <2>3, NewRows, CountAssumption DEF Locals
    <3>2. Becomes(r, rec)
      BY <2>1, <2>3, Goes DEF Stage
    <3>3. /\ rec.pc = "google.code" /\ rec.tok = req[r].tok /\ rec.copy = req[r].copy
          /\ rec.sub = req[r].sub /\ rec.idn = req[r].idn /\ rec.provider = req[r].provider
          /\ rec.login = req[r].login
      BY <2>1 DEF Local
    <3> HIDE DEF rec
    <3>4. Locals(r)'
      BY <1>5, <2>1, <3>2, <3>3 DEF GoogleSrc, Becomes, Locals
    <3> QED
      BY <1>5, <2>1, <3>1, <3>2, <3>3, <3>4, Moves DEF GoogleSrc, TypeOK, browser, Ended
  <2> QED
    BY <1>5, <2>2, <2>3 DEF GoogleSrc
<1>6. CASE NewCode(r, "google.code")
  BY <1>6, CodeIssued
<1> QED
  BY <1>1, <1>2, <1>3, <1>4, <1>5, <1>6 DEF GoogleNext

-------------------------------------------------------------------------------
\* POST /token.

LEMMA TokenStep ==
  ASSUME ServerInv, NEW r \in Request, TokenNext(r)
  PROVE  Kept(r)
<1> USE DEF SignInStages, CredStages, PasskeyStages, PasswordStages, GoogleStages, CompleteStages,
            CopyStages, SpentStages, IdnStages
<1>1. ASSUME NEW c \in Request, NEW a \in App, TokenBegin(r, c, a) PROVE Kept(r)
  <2> DEFINE rec == [[Fresh EXCEPT !.tok = c, !.copy = codes[c], !.client = a] EXCEPT !.pc = "token.expire"]
  <2>1. req[r].pc = "idle" /\ TypeOK /\ codes[c] # None /\ codes[c] \in CodeRow
    BY <1>1 DEF TokenBegin, At, Live, ServerInv, TypeOK, Maybe
  <2>2. /\ rec \in Local /\ rec.pc = "token.expire" /\ rec.tok = c /\ rec.copy = codes[c]
        /\ rec.client = a
    <3>1. "token.expire" \in Stage /\ codes[c] \in Maybe(StateRow \cup CodeRow)
      BY <2>1 DEF Stage, Maybe
    <3> QED
      BY <2>1, <3>1 DEF Fresh, Local, Maybe
  <2>3. Becomes(r, rec)
    <3> HIDE DEF rec
    <3> QED
      BY <1>1, <2>1, <2>2, Assigns DEF TokenBegin, Begin, rec
  <2> HIDE DEF rec
  <2>4. Locals(r)'
    BY <1>1, <2>1, <2>2, <2>3 DEF TokenBegin, Becomes, Locals, tables
  <2> QED
    BY <1>1, <2>1, <2>2, <2>3, <2>4, Moves DEF TokenBegin, TypeOK, tables, browser, Ended
<1>2. CASE TokenExpire(r)
  <2> DEFINE c == req[r].tok
             row == [codes[c] EXCEPT !.spentBy = r]
  <2>1. /\ req[r].pc = "token.expire" /\ Locals(r) /\ TypeOK /\ req[r] \in Local
        /\ c \in Request /\ codes[c] # None /\ codes[c] \in CodeRow
    BY <1>2 DEF TokenExpire, At, ServerInv, Mine, TypeOK, Locals, Maybe
  <2>2. CASE Return(r) /\ UNCHANGED codes
    BY <1>2, <2>1, <2>2, ReturnsAreKept DEF TokenExpire, Ended, tables
  <2>3. CASE /\ codes[c].spentBy = None /\ codes' = [codes EXCEPT ![c].spentBy = r]
             /\ GoTo(r, "token.insert") \/ Return(r)
    <3> DEFINE rec == [req[r] EXCEPT !.pc = "token.insert"]
    <3>1. row \in CodeRow /\ row.spentBy = r /\ row.state = codes[c].state /\ row # None
      <4>1. row \in CodeRow /\ row.spentBy = r /\ row.state = codes[c].state
        BY <2>1 DEF CodeRow, Maybe
      <4> QED
        BY <4>1, RowAssumption
    <3>2. codes' = [codes EXCEPT ![c] = row]
      BY <2>3
    <3> HIDE DEF row
    <3>3. /\ codes' \in [Request -> Maybe(CodeRow)] /\ codes'[c] = row
          /\ \A x \in Request : x # c => codes'[x] = codes[x]
      BY <2>1, <3>1, <3>2 DEF TypeOK, Maybe
    <3>4. Becomes(r, rec) \/ Becomes(r, Done)
      BY <2>1, <2>3, Goes, Returns DEF Stage
    <3>5. /\ rec.pc = "token.insert" /\ rec.tok = c /\ rec.copy = req[r].copy
          /\ rec.client = req[r].client
      BY <2>1 DEF Local
    <3> HIDE DEF rec, c
    <3>6. TypeOK'
      BY <1>2, <2>1, <3>3, <3>4 DEF TokenExpire, TypeOK, Becomes, browser
    <3>7. Leaves(r)
      BY <1>2, <2>1, <2>3, <3>1, <3>3, <3>4 DEF TokenExpire, Leaves, Becomes, Ended
    <3>8. \A s \in StateId : Challenged(s)'
      BY <1>2 DEF TokenExpire, ServerInv, Challenged
    <3>9. otps'[r] = None /\ codes'[r] = None /\ atoks'[r] = None
      BY <1>2, <2>1, <3>3, NoRows DEF TokenExpire, Ended
    <3>10. CASE Becomes(r, Done)
      BY <3>6, <3>7, <3>8, <3>9, <3>10, EndedIsMine DEF Becomes, Kept
    <3>11. CASE Becomes(r, rec)
      <4>1. Locals(r)'
        BY <2>1, <3>1, <3>3, <3>5, <3>11 DEF Becomes, Locals
      <4>2. Custody(r)'
        BY <2>1, <3>1, <3>3, <3>5, <3>9, <3>11 DEF Becomes, Custody
      <4> QED
        BY <3>6, <3>7, <3>8, <4>1, <4>2 DEF Kept, Mine
    <3> QED
      BY <3>4, <3>10, <3>11
  <2> QED
    BY <1>2, <2>2, <2>3 DEF TokenExpire
<1>3. CASE TokenInsert(r)
  <2> DEFINE rec == [req[r] EXCEPT !.pc = "token.sign"]
             row == NewAuthToken(r)
  <2>1. /\ req[r].pc = "token.insert" /\ Locals(r) /\ Custody(r) /\ TypeOK /\ req[r] \in Local
    BY <1>3 DEF TokenInsert, At, ServerInv, Mine, TypeOK
  <2>2. row \in TokenRow /\ row.code = req[r].tok /\ codes[row.code] # None /\ codes[row.code].spentBy = r
    BY <2>1 DEF Locals, Custody, NewAuthToken, TokenRow, CodeRow
  <2>3. Becomes(r, rec)
    BY <1>3, <2>1, Goes DEF TokenInsert, Stage
  <2>4. rec.pc = "token.sign"
    BY <2>1 DEF Local
  <2> HIDE DEF rec, row
  <2>5. /\ atoks' \in [Request -> Maybe(TokenRow)] /\ atoks'[r] = row
        /\ \A x \in Request : x # r => atoks'[x] = atoks[x]
    BY <1>3, <2>1, <2>2 DEF TokenInsert, TypeOK, Maybe, row
  <2>6. TypeOK'
    BY <1>3, <2>1, <2>3, <2>5 DEF TokenInsert, TypeOK, Becomes, browser
  <2>7. Leaves(r)
    BY <1>3, <2>1, <2>3, <2>5 DEF TokenInsert, Leaves, Becomes, Ended
  <2>8. \A s \in StateId : Challenged(s)'
    BY <1>3 DEF TokenInsert, ServerInv, Challenged
  <2>9. Mine(r)'
    BY <1>3, <2>1, <2>2, <2>3, <2>4, <2>5, NoRows DEF TokenInsert, Becomes, Mine, Locals, Custody, Ended
  <2> QED
    BY <2>6, <2>7, <2>8, <2>9 DEF Kept
<1>4. CASE TokenSign(r)
  <2>1. req[r].pc = "token.sign" /\ Custody(r) /\ Becomes(r, Done) /\ TypeOK
    BY <1>4, Returns DEF TokenSign, At, ServerInv, Mine
  <2>2. TypeOK' /\ Leaves(r) /\ \A x \in StateId : Challenged(x)'
    BY <1>4, <2>1, Looks DEF TokenSign, TypeOK, browser, Ended
  <2>3. Mine(r)'
    BY <1>4, <2>1, Constants DEF TokenSign, Becomes, Mine, Locals, Custody, tables, Ended
  <2> QED
    BY <2>2, <2>3 DEF Kept
<1> QED
  BY <1>1, <1>2, <1>3, <1>4 DEF TokenNext

-------------------------------------------------------------------------------
\* The whole server.

LEMMA ServeStep ==
  ASSUME ServerInv, NEW r \in Request, Serve(r)
  PROVE  ServerInv'
<1>1. Kept(r)
  BY SignInStep, SignUpStep, VerifyStep, CredentialStep, PasskeyStep, PasswordStep, GoogleStep, TokenStep
  DEF Serve
<1> QED
  BY <1>1, OthersKeep DEF Kept

LEMMA FailStep ==
  ASSUME ServerInv, NEW r \in Request, Fail(r)
  PROVE  ServerInv'
<1>1. Becomes(r, Failed) /\ req[r].pc \notin {"idle"} \cup Ended /\ TypeOK
  BY Constants, Assigns DEF Fail, ServerInv, Ended
<1>2. TypeOK' /\ Leaves(r) /\ \A x \in StateId : Challenged(x)'
  BY <1>1, Looks DEF Fail, TypeOK, browser
<1>3. Mine(r)'
  <2>1. Custody(r)
    BY DEF ServerInv, Mine
  <2> QED
    BY <1>1, <2>1, Constants
    DEF Fail, Becomes, Mine, Locals, Custody, tables, Ended, SpentStages, CopyStages, CompleteStages,
        CredStages, PasskeyStages, PasswordStages, GoogleStages, SignInStages, IdnStages
<1> QED
  BY <1>2, <1>3, OthersKeep

\* An authorization request adds a state; time passes.
LEMMA EnvironmentStep ==
  ASSUME ServerInv, Lapse \/ \E s \in StateId, a \in App : Authorize(s, a)
  PROVE  ServerInv'
<1>1. CASE Lapse
  <2>1. TypeOK'
    BY <1>1 DEF Lapse, LapseState, LapseOtp, LapseCode, ServerInv, TypeOK, tables, browser
  <2> QED
    BY <1>1, <2>1 DEF Lapse, ServerInv, Mine, Locals, Custody, Challenged, tables
<1>2. ASSUME NEW s \in StateId, NEW a \in App, Authorize(s, a) PROVE ServerInv'
  <2>1. NewAuthState(a) \in StateRow /\ NewAuthState(a).challenge = None
    BY DEF NewAuthState, StateRow, Maybe
  <2>2. /\ states' \in [StateId -> Maybe(StateRow)] /\ states'[s] = NewAuthState(a) /\ states[s] = None
        /\ \A x \in StateId : x # s => states'[x] = states[x]
    BY <1>2, <2>1 DEF Authorize, ServerInv, TypeOK, Maybe
  <2>3. TypeOK'
    BY <1>2, <2>2 DEF Authorize, ServerInv, TypeOK, browser
  <2>4. \A x \in StateId : Challenged(x)'
    BY <2>1, <2>2 DEF ServerInv, Challenged
  <2>5. ASSUME NEW r \in Request PROVE Mine(r)'
    <3>1. Mine(r) /\ UNCHANGED <<req, otps, codes, atoks>>
      BY <1>2 DEF ServerInv, Authorize
    <3>2. Locals(r)'
      BY <2>2, <3>1 DEF Mine, Locals
    <3>3. req[r].pc \in SpentStages => req[r].tok \in StateId /\ states[req[r].tok] # None
      BY <3>1 DEF Mine, Locals, SpentStages, CopyStages, CompleteStages, CredStages, PasskeyStages,
         PasswordStages, GoogleStages
    <3>4. codes[r] # None => codes[r].state \in StateId
      BY DEF ServerInv, TypeOK, Maybe, CodeRow
    <3>5. Custody(r)'
      BY <2>2, <3>1, <3>3, <3>4 DEF Mine, Custody
    <3> QED
      BY <3>2, <3>5 DEF Mine
  <2> QED
    BY <2>3, <2>4, <2>5 DEF ServerInv
<1> QED
  BY <1>1, <1>2

LEMMA ServerInit ==
  ASSUME Init
  PROVE  ServerInv
<1>1. TypeOK
  <2>1. /\ \A i \in IdnId : i \in {<<x[1], x[2]>> : x \in Seeded} =>
              [app |-> AppOf[i[1]], login |-> i[2], via |-> "seed", challenge |-> None] \in IdnRow
        /\ \A x \in Seeded : [idn |-> <<x[1], x[2]>>, provider |-> x[1], sub |-> x[3], count |-> 0, rev |-> 1]
              \in SrcRow
    BY SeededAssumption, ProviderAssumption, CountAssumption DEF IdnRow, SrcRow, IdnId, Maybe
  <2>2. idns \in [IdnId -> Maybe(IdnRow)]
    BY <2>1 DEF Init, Maybe
  <2>3. srcs \subseteq SrcRow
    BY <2>1 DEF Init
  <2> QED
    BY <2>2, <2>3, Constants DEF Init, TypeOK, Maybe
<1>2. \A s \in StateId : Challenged(s)
  BY DEF Init, Challenged
<1>3. ASSUME NEW r \in Request PROVE Mine(r)
  <2>1. req[r].pc = "idle" /\ otps[r] = None /\ codes[r] = None /\ atoks[r] = None
    BY DEF Init, Fresh
  <2> QED
    BY <2>1 DEF Mine, Locals, Custody, SpentStages, CopyStages, CompleteStages, CredStages, PasskeyStages,
       PasswordStages, GoogleStages, SignInStages, IdnStages
<1> QED
  BY <1>1, <1>2, <1>3 DEF ServerInv

LEMMA ServerInvIdle ==
  ASSUME ServerInv, UNCHANGED vars
  PROVE  ServerInv'
BY DEF ServerInv, vars, tables, browser, TypeOK, Mine, Locals, Custody, Challenged

\* The inductive invariant: types, what each request may rely on at each of its
\* stages, and who has spent what.
THEOREM ServerInvariance == Spec => []ServerInv
<1>1. Init => ServerInv
  BY ServerInit
<1>2. ServerInv /\ [Next]_vars => ServerInv'
  BY ServeStep, FailStep, EnvironmentStep, ServerInvIdle DEF Next
<1> QED
  BY <1>1, <1>2, PTL DEF Spec

\* Every reachable state of the server is well typed, for any apps, providers,
\* logins and requests (all handlers).
THEOREM ServerTypeCorrect == Spec => []TypeOK
<1>1. ServerInv => TypeOK
  BY DEF ServerInv
<1> QED
  BY <1>1, ServerInvariance, PTL

\* One sign-in gives one auth code: a code's state was spent by the request that
\* made the code (state.Expire before each NewAuthCode).
THEOREM ServerOneCodePerState == Spec => []OneCodePerState
<1>1. ServerInv => OneCodePerState
  BY DEF ServerInv, Mine, Custody, OneCodePerState
<1> QED
  BY <1>1, ServerInvariance, PTL

\* One auth code gives one access token: a token's code was spent by the request
\* that made the token (code.Expire before NewAccessToken).
THEOREM ServerOneTokenPerCode == Spec => []OneTokenPerCode
<1>1. ServerInv => OneTokenPerCode
  BY DEF ServerInv, Mine, Custody, OneTokenPerCode
<1> QED
  BY <1>1, ServerInvariance, PTL

-------------------------------------------------------------------------------
(***************************************************************************)
(* Single use.  For each of the three kinds of token a step of a request   *)
(* does one of five things (Uses): it goes on with its token, gives it up, *)
(* finds one live, spends its own, or adds one.  Each is a step of         *)
(* SingleUse or leaves what SingleUse sees as it is.                       *)
(***************************************************************************)

\* The same tokens are there, spent by the same requests.
SameTokens(ids, old, new) ==
  \A id \in ids :
    /\ new[id] = None <=> old[id] = None
    /\ old[id] # None => new[id].spentBy = old[id].spentBy

Uses(r, kind, ids, stages, old, new) ==
  \/ /\ SameTokens(ids, old, new)
     /\ \/ req'[r].pc \notin stages
        \/ req[r].pc \in stages /\ req'[r].tok = req[r].tok
        \/ req[r].pc \notin stages /\ req'[r].tok \in ids /\ Live(kind, old, req'[r].tok)
  \/ /\ req[r].pc \in stages /\ req'[r].pc \notin stages
     /\ req[r].tok \in ids
     /\ old[req[r].tok] # None /\ old[req[r].tok].spentBy = None
     /\ new[req[r].tok] # None /\ new[req[r].tok].spentBy = r
     /\ SameTokens(ids \ {req[r].tok}, old, new)
  \/ /\ req[r].pc \notin stages /\ req'[r].pc \notin stages
     /\ \E id \in ids :
          /\ old[id] = None /\ new[id] # None /\ new[id].spentBy = None
          /\ SameTokens(ids \ {id}, old, new)

UsesState(r) == Uses(r, "state", StateId, StateStages, states, states')

UsesOtp(r) == Uses(r, "otp", Request, OtpStages, otps, otps')

UsesCode(r) == Uses(r, "code", Request, CodeStages, codes, codes')

UsesTokens(r) == UsesState(r) /\ UsesOtp(r) /\ UsesCode(r)

\* Only a token that is there lapses.
LapsedIssued ==
  /\ \A s \in StateId : <<"state", s>> \in lapsed => states[s] # None
  /\ \A o \in Request : <<"otp", o>> \in lapsed => otps[o] # None
  /\ \A c \in Request : <<"code", c>> \in lapsed => codes[c] # None

\* Where a request is after it returns or goes on.
LEMMA Lands ==
  ASSUME ServerInv, NEW r \in Request
  PROVE  /\ Return(r) => req'[r].pc = "done"
         /\ \A pc : GoTo(r, pc) => req'[r].pc = pc /\ req'[r].tok = req[r].tok
<1>1. req \in [Request -> Local] /\ req[r] \in Local
  BY DEF ServerInv, TypeOK
<1>2. ASSUME NEW pc, GoTo(r, pc) PROVE req'[r].pc = pc /\ req'[r].tok = req[r].tok
  <2>1. req'[r] = [req[r] EXCEPT !.pc = pc]
    BY <1>1, <1>2 DEF GoTo
  <2> QED
    BY <1>1, <2>1 DEF Local
<1> QED
  BY <1>1, <1>2, Constants DEF Return

\* Steps that end, or go where there is no token of the three kinds.
LEMMA NoUse ==
  ASSUME NEW r \in Request, UNCHANGED <<states, otps, codes>>,
         req'[r].pc \notin StateStages \cup OtpStages \cup CodeStages
  PROVE  UsesTokens(r)
BY DEF UsesTokens, UsesState, UsesOtp, UsesCode, Uses, SameTokens

LEMMA ReturnUse ==
  ASSUME ServerInv, NEW r \in Request, UNCHANGED <<states, otps, codes>>, Return(r)
  PROVE  UsesTokens(r)
BY Lands, NoUse DEF StateStages, OtpStages, CodeStages

\* Steps from one stage with an auth state to another.
LEMMA OnUse ==
  ASSUME NEW r \in Request, SameTokens(StateId, states, states'), UNCHANGED <<otps, codes>>,
         (req[r].pc \in StateStages /\ req'[r].tok = req[r].tok) \/ req'[r].pc \notin StateStages,
         req'[r].pc \notin OtpStages \cup CodeStages
  PROVE  UsesTokens(r)
BY DEF UsesTokens, UsesState, UsesOtp, UsesCode, Uses, SameTokens

\* The first step of a request that finds the auth state live.
LEMMA BeginUse ==
  ASSUME NEW r \in Request, UNCHANGED <<states, otps, codes>>,
         req[r].pc \notin StateStages, req'[r].pc \in StateStages,
         req'[r].tok \in StateId, Live("state", states, req'[r].tok)
  PROVE  UsesTokens(r)
<1>1. req'[r].pc \notin OtpStages \cup CodeStages
  BY DEF StateStages, OtpStages, CodeStages
<1> QED
  BY <1>1 DEF UsesTokens, UsesState, UsesOtp, UsesCode, Uses, SameTokens

\* SetAttrs neither adds nor spends a state.
LEMMA WriteUse ==
  ASSUME ServerInv, NEW r \in Request, req[r].pc \in CopyStages, NEW attrs \in StateRow,
         SetAttrs(r, attrs)
  PROVE  SameTokens(StateId, states, states')
<1> DEFINE s == req[r].tok
           row == [attrs EXCEPT !.rev = @ + 1, !.spentBy = states[s].spentBy]
<1>1. s \in StateId /\ states[s] # None /\ states \in [StateId -> Maybe(StateRow)]
  BY DEF ServerInv, Mine, Locals, TypeOK
<1>2. row \in StateRow /\ row.spentBy = states[s].spentBy
  <2>1. attrs.rev + 1 \in Nat /\ states[s].spentBy \in Maybe(Request)
    BY <1>1 DEF StateRow, Maybe
  <2> HIDE DEF s
  <2> QED
    BY <2>1 DEF StateRow
<1>3. states'[s] = row /\ \A x \in StateId : x # s => states'[x] = states[x]
  <2> HIDE DEF row
  <2> QED
    BY <1>1 DEF SetAttrs, row
<1>4. row # None
  BY <1>2, RowAssumption
<1> HIDE DEF row, s
<1> QED
  BY <1>1, <1>2, <1>3, <1>4 DEF SameTokens

LEMMA ExpireUse ==
  ASSUME ServerInv, NEW r \in Request, NEW from, NEW to, ExpireState(r, from, to),
         \/ from = "cred.expire" /\ to = "cred.code"
         \/ from = "passkey.expire" /\ to = "passkey.code"
         \/ from = "password.expire" /\ to = "password.code"
         \/ from = "google.expire" /\ to = "google.find"
  PROVE  UsesTokens(r)
<1> DEFINE s == req[r].tok
           row == [states[s] EXCEPT !.spentBy = r]
<1>1. CASE Return(r) /\ UNCHANGED states
  BY <1>1, ReturnUse DEF ExpireState
<1>2. CASE states[s].spentBy = None /\ states' = [states EXCEPT ![s].spentBy = r] /\ GoTo(r, to)
  <2>1. /\ req[r].pc = from /\ req'[r].pc = to /\ UNCHANGED <<otps, codes>>
        /\ s \in StateId /\ states[s] # None /\ states \in [StateId -> Maybe(StateRow)]
    BY <1>2, Lands
    DEF ExpireState, At, ServerInv, TypeOK, Mine, Locals, CopyStages, CompleteStages, CredStages,
        PasskeyStages, PasswordStages, GoogleStages
  <2>2. row \in StateRow /\ row.spentBy = r /\ row # None
    BY <2>1, RowAssumption DEF StateRow, Maybe
  <2>3. states'[s] = row /\ \A x \in StateId : x # s => states'[x] = states[x]
    <3>1. states' = [states EXCEPT ![s] = row]
      BY <1>2
    <3> HIDE DEF row
    <3> QED
      BY <2>1, <3>1
  <2> HIDE DEF row, s
  <2>4. UsesState(r)
    BY <1>2, <2>1, <2>2, <2>3 DEF UsesState, Uses, SameTokens, StateStages, s
  <2>5. UsesOtp(r) /\ UsesCode(r)
    BY <2>1 DEF UsesOtp, UsesCode, Uses, SameTokens, OtpStages, CodeStages
  <2> QED
    BY <2>4, <2>5 DEF UsesTokens
<1> QED
  BY <1>1, <1>2 DEF ExpireState

LEMMA NewCodeUse ==
  ASSUME ServerInv, NEW r \in Request, NEW from, NewCode(r, from),
         from \in {"cred.code", "passkey.code", "password.code", "google.code"}
  PROVE  UsesTokens(r)
<1> DEFINE row == [client |-> req[r].copy.app, provider |-> req[r].provider, sub |-> req[r].idn,
                   state |-> req[r].tok, spentBy |-> None]
<1>1. /\ req[r].pc = from /\ req'[r].pc = "done" /\ codes[r] = None /\ UNCHANGED <<states, otps>>
      /\ codes \in [Request -> Maybe(CodeRow)] /\ codes' = [codes EXCEPT ![r] = row]
  BY Lands, NoRows DEF NewCode, At, ServerInv, TypeOK, Ended
<1>2. codes'[r] # None
  <2>1. row \in CodeRow
    BY <1>1 DEF ServerInv, Mine, Locals, CodeRow, StateRow, Maybe, CopyStages, CompleteStages,
       CredStages, PasskeyStages, PasswordStages, GoogleStages, IdnStages
  <2> QED
    BY <1>1, <2>1, RowAssumption
<1>3. row.spentBy = None
  OBVIOUS
<1> HIDE DEF row
<1>4. UsesCode(r)
  BY <1>1, <1>2, <1>3 DEF UsesCode, Uses, SameTokens, CodeStages
<1>5. UsesState(r) /\ UsesOtp(r)
  BY <1>1 DEF UsesState, UsesOtp, Uses, SameTokens, StateStages, OtpStages
<1> QED
  BY <1>4, <1>5 DEF UsesTokens

LEMMA SignInUse ==
  ASSUME ServerInv, NEW r \in Request, SignInNext(r)
  PROVE  UsesTokens(r)
<1> USE DEF StateStages, OtpStages, CodeStages
<1>1. req \in [Request -> Local] /\ req[r] \in Local /\ Locals(r)
  BY DEF ServerInv, TypeOK, Mine
<1>2. ASSUME NEW s \in StateId, NEW l \in Login, SignInBegin(r, s, l) PROVE UsesTokens(r)
  <2>1. req[r].pc = "idle" /\ req'[r].pc = "signin.list" /\ req'[r].tok = s
    BY <1>1, <1>2 DEF SignInBegin, At, Begin, Fresh
  <2> QED
    BY <1>2, <2>1, BeginUse DEF SignInBegin, tables
<1>3. CASE SignInList(r)
  <2>1. CASE Return(r)
    BY <1>3, <2>1, ReturnUse DEF SignInList, tables
  <2>2. ASSUME NEW p, NEW pc \in {"signin.passkey", "signin.password"},
               req' = [req EXCEPT ![r].provider = p, ![r].pc = pc]
        PROVE  UsesTokens(r)
    <3>1. req'[r] = [req[r] EXCEPT !.provider = p, !.pc = pc]
      BY <1>1, <2>2
    <3>2. req[r].pc = "signin.list" /\ req'[r].pc = pc /\ req'[r].tok = req[r].tok
      BY <1>1, <1>3, <3>1 DEF SignInList, At, Local
    <3> QED
      BY <1>3, <3>2, OnUse DEF SignInList, tables, SameTokens
  <2> QED
    BY <1>3, <2>1, <2>2 DEF SignInList
<1>4. CASE SignInPassword(r)
  <2>1. CASE UNCHANGED states
    BY <1>4, <2>1, ReturnUse DEF SignInPassword
  <2>2. CASE SetAttrs(r, [req[r].copy EXCEPT !.provider = req[r].provider])
    <3>1. req[r].pc = "signin.password" /\ req'[r].pc = "done"
      BY <1>4, Lands DEF SignInPassword, At
    <3>2. [req[r].copy EXCEPT !.provider = req[r].provider] \in StateRow
      BY <1>1, <3>1 DEF Locals, StateRow, Maybe, CopyStages, SignInStages
    <3>3. SameTokens(StateId, states, states')
      BY <2>2, <3>1, <3>2, WriteUse DEF CopyStages, SignInStages
    <3> QED
      BY <1>4, <3>1, <3>3, OnUse DEF SignInPassword
  <2> QED
    BY <1>4, <2>1, <2>2 DEF SignInPassword
<1>5. CASE SignInPasskey(r)
  <2>1. CASE Return(r) /\ UNCHANGED states
    BY <1>5, <2>1, ReturnUse DEF SignInPasskey
  <2> DEFINE attrs == [req[r].copy EXCEPT !.login = req[r].login, !.provider = req[r].provider,
                                          !.challenge = r]
  <2>2. CASE SetAttrs(r, attrs) /\ GoTo(r, "signin.page")
    <3>1. req[r].pc = "signin.passkey" /\ req'[r].pc = "signin.page" /\ req'[r].tok = req[r].tok
      BY <1>5, <2>2, Lands DEF SignInPasskey, At
    <3>2. attrs \in StateRow
      BY <1>1, <3>1 DEF Locals, StateRow, Maybe, CopyStages, SignInStages
    <3>3. SameTokens(StateId, states, states')
      BY <2>2, <3>1, <3>2, WriteUse DEF CopyStages, SignInStages
    <3> QED
      BY <1>5, <3>1, <3>3, OnUse DEF SignInPasskey
  <2> QED
    BY <1>5, <2>1, <2>2 DEF SignInPasskey
<1>6. CASE SignInPage(r)
  BY <1>6, ReturnUse DEF SignInPage, tables
<1> QED
  BY <1>2, <1>3, <1>4, <1>5, <1>6 DEF SignInNext

LEMMA SignUpUse ==
  ASSUME ServerInv, NEW r \in Request, SignUpNext(r)
  PROVE  UsesTokens(r)
<1> USE DEF StateStages, OtpStages, CodeStages
<1>1. req \in [Request -> Local] /\ req[r] \in Local /\ TypeOK
  BY DEF ServerInv, TypeOK
<1>2. ASSUME NEW s \in StateId, NEW l \in Login, NEW p \in Provider, SignUpBegin(r, s, l, p)
      PROVE  UsesTokens(r)
  <2>1. req[r].pc = "idle" /\ req'[r].pc = "signup.otp" /\ req'[r].tok = s
    BY <1>1, <1>2 DEF SignUpBegin, At, Begin, Fresh
  <2> QED
    BY <1>2, <2>1, BeginUse DEF SignUpBegin, tables
<1>3. CASE SignUpOtp(r)
  <2> DEFINE row == [login |-> req[r].login, provider |-> req[r].provider,
                     state |-> req[r].tok, spentBy |-> None]
  <2>1. /\ req[r].pc = "signup.otp" /\ req'[r].pc = "signup.mail" /\ req'[r].tok = req[r].tok
        /\ otps[r] = None /\ UNCHANGED <<states, codes>>
    BY <1>3, Lands, NoRows DEF SignUpOtp, At, Ended
  <2>2. row \in OtpRow /\ row.spentBy = None
    BY <2>1 DEF ServerInv, Mine, Locals, OtpRow, Maybe
  <2>3. row # None
    BY <2>2, RowAssumption
  <2>4. otps'[r] = row /\ \A o \in Request : o # r => otps'[o] = otps[o]
    <3> HIDE DEF row
    <3> QED
      BY <1>1, <1>3 DEF SignUpOtp, TypeOK, row
  <2> HIDE DEF row
  <2>5. UsesOtp(r)
    BY <2>1, <2>2, <2>3, <2>4 DEF UsesOtp, Uses, SameTokens
  <2>6. UsesState(r) /\ UsesCode(r)
    BY <2>1 DEF UsesState, UsesCode, Uses, SameTokens
  <2> QED
    BY <2>5, <2>6 DEF UsesTokens
<1>4. CASE SignUpMail(r)
  BY <1>4, ReturnUse DEF SignUpMail, tables
<1> QED
  BY <1>2, <1>3, <1>4 DEF SignUpNext

LEMMA VerifyUse ==
  ASSUME ServerInv, NEW r \in Request, VerifyNext(r)
  PROVE  UsesTokens(r)
<1> USE DEF StateStages, OtpStages, CodeStages
<1>1. req \in [Request -> Local] /\ req[r] \in Local /\ Locals(r) /\ TypeOK
  BY DEF ServerInv, TypeOK, Mine
<1>2. ASSUME NEW o \in Request, VerifyBegin(r, o) PROVE UsesTokens(r)
  <2>1. CASE Return(r)
    BY <1>2, <2>1, ReturnUse DEF VerifyBegin, tables
  <2>2. CASE /\ Live("otp", otps, o)
             /\ Begin(r, "verify.expire",
                   [Fresh EXCEPT !.tok = o, !.login = otps[o].login, !.provider = otps[o].provider])
    <3>1. /\ req[r].pc = "idle" /\ req'[r].pc = "verify.expire" /\ req'[r].tok = o
          /\ UNCHANGED <<states, otps, codes>>
      BY <1>1, <1>2, <2>2 DEF VerifyBegin, At, Begin, Fresh, tables
    <3>2. UsesOtp(r)
      BY <2>2, <3>1 DEF UsesOtp, Uses, SameTokens
    <3>3. UsesState(r) /\ UsesCode(r)
      BY <3>1 DEF UsesState, UsesCode, Uses, SameTokens
    <3> QED
      BY <3>2, <3>3 DEF UsesTokens
  <2> QED
    BY <1>2, <2>1, <2>2 DEF VerifyBegin, ReturnWithoutNonce
<1>3. CASE VerifyExpire(r)
  <2> DEFINE o == req[r].tok
             row == [otps[o] EXCEPT !.spentBy = r]
  <2>1. CASE Return(r) /\ UNCHANGED otps
    BY <1>3, <2>1, ReturnUse DEF VerifyExpire
  <2>2. CASE /\ otps[o].spentBy = None
             /\ otps' = [otps EXCEPT ![o].spentBy = r]
             /\ req' = [req EXCEPT ![r].pc = "verify.state", ![r].tok = otps[o].state]
    <3>1. /\ req[r].pc = "verify.expire" /\ req'[r].pc = "verify.state" /\ UNCHANGED <<states, codes>>
          /\ o \in Request /\ otps[o] # None /\ otps[o] \in OtpRow
      BY <1>1, <1>3, <2>2 DEF VerifyExpire, At, Local, Locals, TypeOK, Maybe
    <3>2. row \in OtpRow /\ row.spentBy = r /\ row # None
      BY <3>1, RowAssumption DEF OtpRow, Maybe
    <3>3. otps'[o] = row /\ \A x \in Request : x # o => otps'[x] = otps[x]
      <4>1. otps' = [otps EXCEPT ![o] = row]
        BY <2>2
      <4> HIDE DEF row, o
      <4> QED
        BY <1>1, <3>1, <4>1 DEF TypeOK
    <3> HIDE DEF row, o
    <3>4. UsesOtp(r)
      BY <2>2, <3>1, <3>2, <3>3 DEF UsesOtp, Uses, SameTokens, o
    <3>5. UsesState(r) /\ UsesCode(r)
      BY <3>1 DEF UsesState, UsesCode, Uses, SameTokens
    <3> QED
      BY <3>4, <3>5 DEF UsesTokens
  <2> QED
    BY <1>3, <2>1, <2>2 DEF VerifyExpire, ReturnWithoutNonce
<1>4. CASE VerifyState(r)
  <2>1. CASE Return(r)
    BY <1>4, <2>1, ReturnUse DEF VerifyState, tables
  <2>2. CASE /\ Live("state", states, req[r].tok)
             /\ req' = [req EXCEPT ![r].pc = "verify.set", ![r].copy = states[req[r].tok]]
    <3>1. req'[r] = [req[r] EXCEPT !.pc = "verify.set", !.copy = states[req[r].tok]]
      BY <1>1, <2>2
    <3>2. /\ req[r].pc = "verify.state" /\ req'[r].pc = "verify.set" /\ req'[r].tok = req[r].tok
          /\ req[r].tok \in StateId
      BY <1>1, <1>4, <3>1 DEF VerifyState, At, Local, Locals
    <3> QED
      BY <1>4, <2>2, <3>2, BeginUse DEF VerifyState, tables
  <2> QED
    BY <1>4, <2>1, <2>2 DEF VerifyState, ReturnWithoutNonce
<1>5. CASE VerifySet(r)
  <2>1. req[r].pc = "verify.set" /\ req'[r].pc = "done" /\ Return(r)
    BY <1>5, Lands DEF VerifySet, At, ReturnWithoutNonce
  <2>2. CASE UNCHANGED states
    BY <1>5, <2>1, <2>2, ReturnUse DEF VerifySet
  <2> DEFINE attrs == [req[r].copy EXCEPT !.login = req[r].login, !.provider = req[r].provider,
                                          !.challenge = r]
  <2>3. CASE SetAttrs(r, attrs)
    <3>1. attrs \in StateRow
      BY <1>1, <2>1 DEF Locals, StateRow, Maybe, CopyStages
    <3>2. SameTokens(StateId, states, states')
      BY <2>1, <2>3, <3>1, WriteUse DEF CopyStages
    <3> QED
      BY <1>5, <2>1, <3>2, OnUse DEF VerifySet
  <2> QED
    BY <1>5, <2>2, <2>3 DEF VerifySet
<1> QED
  BY <1>2, <1>3, <1>4, <1>5 DEF VerifyNext

LEMMA CredentialUse ==
  ASSUME ServerInv, NEW r \in Request, CredentialNext(r)
  PROVE  UsesTokens(r)
<1> USE DEF StateStages, OtpStages, CodeStages
<1>1. req \in [Request -> Local] /\ req[r] \in Local /\ TypeOK
  BY DEF ServerInv, TypeOK
<1>2. ASSUME NEW s \in StateId, NEW k \in Cred, CredentialBegin(r, s, k) PROVE UsesTokens(r)
  <2>1. req[r].pc = "idle" /\ req'[r].pc = "cred.find" /\ req'[r].tok = s
    BY <1>1, <1>2 DEF CredentialBegin, At, Begin, Fresh
  <2> QED
    BY <1>2, <2>1, BeginUse DEF CredentialBegin, tables
<1>3. CASE CredentialFind(r)
  <2>1. CASE Return(r)
    BY <1>3, <2>1, ReturnUse DEF CredentialFind, tables
  <2>2. CASE GoTo(r, "cred.idn")
    BY <1>3, <2>2, Lands, OnUse DEF CredentialFind, At, tables, SameTokens
  <2> QED
    BY <1>3, <2>1, <2>2 DEF CredentialFind
<1>4. CASE CredentialIdn(r)
  <2>1. CASE Return(r)
    BY <1>4, <2>1, ReturnUse DEF CredentialIdn
  <2>2. CASE req' = [req EXCEPT ![r].pc = "cred.src", ![r].idn = r]
    <3>1. req'[r] = [req[r] EXCEPT !.pc = "cred.src", !.idn = r]
      BY <1>1, <2>2
    <3>2. req[r].pc = "cred.idn" /\ req'[r].pc = "cred.src" /\ req'[r].tok = req[r].tok
      BY <1>1, <1>4, <3>1 DEF CredentialIdn, At, Local
    <3> QED
      BY <1>4, <3>2, OnUse DEF CredentialIdn, SameTokens
  <2> QED
    BY <1>4, <2>1, <2>2 DEF CredentialIdn
<1>5. CASE CredentialSrc(r)
  <2>1. CASE Return(r)
    BY <1>5, <2>1, ReturnUse DEF CredentialSrc
  <2>2. CASE GoTo(r, "cred.expire")
    BY <1>5, <2>2, Lands, OnUse DEF CredentialSrc, At, SameTokens
  <2> QED
    BY <1>5, <2>1, <2>2 DEF CredentialSrc
<1>6. CASE CredentialExpire(r)
  BY <1>6, ExpireUse DEF CredentialExpire
<1>7. CASE NewCode(r, "cred.code")
  BY <1>7, NewCodeUse
<1> QED
  BY <1>2, <1>3, <1>4, <1>5, <1>6, <1>7 DEF CredentialNext

LEMMA PasskeyUse ==
  ASSUME ServerInv, NEW r \in Request, PasskeyNext(r)
  PROVE  UsesTokens(r)
<1> USE DEF StateStages, OtpStages, CodeStages
<1>1. req \in [Request -> Local] /\ req[r] \in Local /\ TypeOK
  BY DEF ServerInv, TypeOK
<1>2. ASSUME NEW s \in StateId, NEW k \in Cred, NEW n \in Count, PasskeyBegin(r, s, k, n)
      PROVE  UsesTokens(r)
  <2>1. req[r].pc = "idle" /\ req'[r].pc = "passkey.src" /\ req'[r].tok = s
    BY <1>1, <1>2 DEF PasskeyBegin, At, Begin, Fresh
  <2> QED
    BY <1>2, <2>1, BeginUse DEF PasskeyBegin, tables
<1>3. CASE PasskeySrc(r)
  <2>1. CASE Return(r)
    BY <1>3, <2>1, ReturnUse DEF PasskeySrc, tables
  <2>2. ASSUME NEW src, req' = [req EXCEPT ![r].pc = "passkey.count", ![r].src = src, ![r].idn = src.idn]
        PROVE  UsesTokens(r)
    <3>1. req'[r] = [req[r] EXCEPT !.pc = "passkey.count", !.src = src, !.idn = src.idn]
      BY <1>1, <2>2
    <3>2. req[r].pc = "passkey.src" /\ req'[r].pc = "passkey.count" /\ req'[r].tok = req[r].tok
      BY <1>1, <1>3, <3>1 DEF PasskeySrc, At, Local
    <3> QED
      BY <1>3, <3>2, OnUse DEF PasskeySrc, tables, SameTokens
  <2> QED
    BY <1>3, <2>1, <2>2 DEF PasskeySrc
<1>4. CASE PasskeyCount(r)
  <2>1. CASE Return(r)
    BY <1>4, <2>1, ReturnUse DEF PasskeyCount
  <2>2. CASE GoTo(r, "passkey.expire")
    BY <1>4, <2>2, Lands, OnUse DEF PasskeyCount, At, SameTokens
  <2> QED
    BY <1>4, <2>1, <2>2 DEF PasskeyCount
<1>5. CASE PasskeyExpire(r)
  BY <1>5, ExpireUse DEF PasskeyExpire
<1>6. CASE NewCode(r, "passkey.code")
  BY <1>6, NewCodeUse
<1> QED
  BY <1>2, <1>3, <1>4, <1>5, <1>6 DEF PasskeyNext

LEMMA PasswordUse ==
  ASSUME ServerInv, NEW r \in Request, PasswordNext(r)
  PROVE  UsesTokens(r)
<1> USE DEF StateStages, OtpStages, CodeStages
<1>1. req \in [Request -> Local] /\ req[r] \in Local
  BY DEF ServerInv, TypeOK
<1>2. ASSUME NEW s \in StateId, NEW l \in Login, PasswordBegin(r, s, l) PROVE UsesTokens(r)
  <2>1. req[r].pc = "idle" /\ req'[r].pc = "password.src" /\ req'[r].tok = s
    BY <1>1, <1>2 DEF PasswordBegin, At, Begin, Fresh
  <2> QED
    BY <1>2, <2>1, BeginUse DEF PasswordBegin, tables
<1>3. CASE PasswordSrc(r)
  <2>1. CASE Return(r)
    BY <1>3, <2>1, ReturnUse DEF PasswordSrc, tables
  <2>2. ASSUME NEW src, req' = [req EXCEPT ![r].pc = "password.expire", ![r].idn = src.idn]
        PROVE  UsesTokens(r)
    <3>1. req'[r] = [req[r] EXCEPT !.pc = "password.expire", !.idn = src.idn]
      BY <1>1, <2>2
    <3>2. req[r].pc = "password.src" /\ req'[r].pc = "password.expire" /\ req'[r].tok = req[r].tok
      BY <1>1, <1>3, <3>1 DEF PasswordSrc, At, Local
    <3> QED
      BY <1>3, <3>2, OnUse DEF PasswordSrc, tables, SameTokens
  <2> QED
    BY <1>3, <2>1, <2>2 DEF PasswordSrc
<1>4. CASE PasswordExpire(r)
  BY <1>4, ExpireUse DEF PasswordExpire
<1>5. CASE NewCode(r, "password.code")
  BY <1>5, NewCodeUse
<1> QED
  BY <1>2, <1>3, <1>4, <1>5 DEF PasswordNext

\* Google's callback holds its state for one step; what comes after the spending
\* has to do with no token.
LEMMA GoogleUse ==
  ASSUME ServerInv, NEW r \in Request, GoogleNext(r)
  PROVE  UsesTokens(r)
<1> USE DEF StateStages, OtpStages, CodeStages
<1>1. req \in [Request -> Local] /\ req[r] \in Local
  BY DEF ServerInv, TypeOK
<1>2. ASSUME NEW s \in StateId, NEW p \in Provider, NEW g \in Login, NEW l \in Login,
             GoogleBegin(r, s, p, g, l)
      PROVE  UsesTokens(r)
  <2>1. req[r].pc = "idle" /\ req'[r].pc = "google.expire" /\ req'[r].tok = s
    BY <1>1, <1>2 DEF GoogleBegin, At, Begin, Fresh
  <2> QED
    BY <1>2, <2>1, BeginUse DEF GoogleBegin, tables
<1>3. CASE GoogleExpire(r)
  BY <1>3, ExpireUse DEF GoogleExpire
<1>4. CASE GoogleFind(r) \/ GoogleIdn(r) \/ GoogleSrc(r)
  <2>1. \A src : req' = [req EXCEPT ![r].pc = "google.code", ![r].idn = src.idn] =>
                   req'[r].pc = "google.code"
    BY <1>1 DEF Local
  <2>2. req' = [req EXCEPT ![r].pc = "google.src", ![r].idn = r] => req'[r].pc = "google.src"
    BY <1>1 DEF Local
  <2>3. req'[r].pc \in {"google.code", "google.idn", "google.src", "done"}
    BY <1>4, <2>1, <2>2, Lands DEF GoogleFind, GoogleIdn, GoogleSrc
  <2> QED
    BY <1>4, <2>3, NoUse DEF GoogleFind, GoogleIdn, GoogleSrc, tables
<1>5. CASE NewCode(r, "google.code")
  BY <1>5, NewCodeUse
<1> QED
  BY <1>2, <1>3, <1>4, <1>5 DEF GoogleNext

LEMMA TokenUse ==
  ASSUME ServerInv, NEW r \in Request, TokenNext(r)
  PROVE  UsesTokens(r)
<1> USE DEF StateStages, OtpStages, CodeStages
<1>1. req \in [Request -> Local] /\ req[r] \in Local /\ Locals(r) /\ TypeOK
  BY DEF ServerInv, TypeOK, Mine
<1>2. ASSUME NEW c \in Request, NEW a \in App, TokenBegin(r, c, a) PROVE UsesTokens(r)
  <2>1. /\ req[r].pc = "idle" /\ req'[r].pc = "token.expire" /\ req'[r].tok = c
        /\ Live("code", codes, c) /\ UNCHANGED <<states, otps, codes>>
    BY <1>1, <1>2 DEF TokenBegin, At, Begin, Fresh, tables
  <2>2. UsesCode(r)
    BY <2>1 DEF UsesCode, Uses, SameTokens
  <2>3. UsesState(r) /\ UsesOtp(r)
    BY <2>1 DEF UsesState, UsesOtp, Uses, SameTokens
  <2> QED
    BY <2>2, <2>3 DEF UsesTokens
<1>3. CASE TokenExpire(r)
  <2> DEFINE c == req[r].tok
             row == [codes[c] EXCEPT !.spentBy = r]
  <2>1. CASE Return(r) /\ UNCHANGED codes
    BY <1>3, <2>1, ReturnUse DEF TokenExpire
  <2>2. CASE /\ codes[c].spentBy = None
             /\ codes' = [codes EXCEPT ![c].spentBy = r]
             /\ GoTo(r, "token.insert") \/ Return(r)
    <3>1. /\ req[r].pc = "token.expire" /\ req'[r].pc \in {"token.insert", "done"}
          /\ UNCHANGED <<states, otps>>
          /\ c \in Request /\ codes[c] # None /\ codes[c] \in CodeRow
      BY <1>1, <1>3, <2>2, Lands DEF TokenExpire, At, Locals, TypeOK, Maybe
    <3>2. row \in CodeRow /\ row.spentBy = r /\ row # None
      BY <3>1, RowAssumption DEF CodeRow, Maybe
    <3>3. codes'[c] = row /\ \A x \in Request : x # c => codes'[x] = codes[x]
      <4>1. codes' = [codes EXCEPT ![c] = row]
        BY <2>2
      <4> HIDE DEF row, c
      <4> QED
        BY <1>1, <3>1, <4>1 DEF TypeOK
    <3> HIDE DEF row, c
    <3>4. UsesCode(r)
      BY <2>2, <3>1, <3>2, <3>3 DEF UsesCode, Uses, SameTokens, c
    <3>5. UsesState(r) /\ UsesOtp(r)
      BY <3>1 DEF UsesState, UsesOtp, Uses, SameTokens
    <3> QED
      BY <3>4, <3>5 DEF UsesTokens
  <2> QED
    BY <1>3, <2>1, <2>2 DEF TokenExpire
<1>4. CASE TokenInsert(r)
  BY <1>4, Lands, NoUse DEF TokenInsert
<1>5. CASE TokenSign(r)
  BY <1>5, ReturnUse DEF TokenSign, tables
<1> QED
  BY <1>2, <1>3, <1>4, <1>5 DEF TokenNext

LEMMA RequestUse ==
  ASSUME ServerInv, NEW r \in Request, Serve(r) \/ Fail(r)
  PROVE  Leaves(r) /\ UsesTokens(r) /\ UNCHANGED lapsed
<1>1. CASE Serve(r)
  <2>1. UsesTokens(r)
    BY <1>1, SignInUse, SignUpUse, VerifyUse, CredentialUse, PasskeyUse, PasswordUse, GoogleUse, TokenUse
    DEF Serve
  <2>2. Leaves(r)
    BY <1>1, SignInStep, SignUpStep, VerifyStep, CredentialStep, PasskeyStep, PasswordStep, GoogleStep,
       TokenStep DEF Serve, Kept
  <2>3. UNCHANGED lapsed
    BY <1>1
    DEF Serve, SignInNext, SignInBegin, SignInList, SignInPassword, SignInPasskey, SignInPage,
        SignUpNext, SignUpBegin, SignUpOtp, SignUpMail,
        VerifyNext, VerifyBegin, VerifyExpire, VerifyState, VerifySet,
        CredentialNext, CredentialBegin, CredentialFind, CredentialIdn, CredentialSrc, CredentialExpire,
        PasskeyNext, PasskeyBegin, PasskeySrc, PasskeyCount, PasskeyExpire,
        PasswordNext, PasswordBegin, PasswordSrc, PasswordExpire,
        GoogleNext, GoogleBegin, GoogleExpire, GoogleFind, GoogleIdn, GoogleSrc,
        TokenNext, TokenBegin, TokenExpire, TokenInsert, TokenSign, ExpireState, NewCode
  <2> QED
    BY <2>1, <2>2, <2>3
<1>2. CASE Fail(r)
  <2>1. Becomes(r, Failed) /\ req[r].pc \notin Ended /\ TypeOK
    BY <1>2, Constants, Assigns DEF Fail, ServerInv, Ended
  <2>2. Leaves(r)
    BY <1>2, <2>1, Looks DEF Fail, TypeOK, browser
  <2>3. UsesTokens(r)
    BY <1>2, <2>1, NoUse, Constants DEF Fail, Becomes, tables, StateStages, OtpStages, CodeStages
  <2> QED
    BY <1>2, <2>2, <2>3 DEF Fail
<1> QED
  BY <1>1, <1>2

-------------------------------------------------------------------------------
\* What SingleUse sees of a step: of the requests that hold a token, and of the
\* rows of one kind before (old) and after (new).

LEMMA HoldingMoves ==
  ASSUME NEW stages, NEW r \in Request, Leaves(r)
  PROVE  /\ \/ req[r].pc \notin stages /\ req'[r].pc \notin stages
            \/ req[r].pc \in stages /\ req'[r].pc \in stages /\ req'[r].tok = req[r].tok
            => Holding(stages)' = Holding(stages)
         /\ req[r].pc \in stages /\ req'[r].pc \notin stages =>
              Holding(stages)' = Holding(stages) \ {<<req[r].tok, r>>}
         /\ req[r].pc \notin stages /\ req'[r].pc \in stages =>
              Holding(stages)' = Holding(stages) \cup {<<req'[r].tok, r>>}
BY DEF Leaves, Holding

LEMMA SameView ==
  ASSUME NEW kind, NEW ids, NEW old, NEW new, DOMAIN old = ids, DOMAIN new = ids,
         SameTokens(ids, old, new)
  PROVE  /\ {id \in ids : new[id] # None} = {id \in ids : old[id] # None}
         /\ Gone(kind, new) = Gone(kind, old)
         /\ Spender(new) = Spender(old)
BY DEF SameTokens, Gone, Spender

LEMMA AddedView ==
  ASSUME NEW kind, NEW ids, NEW old, NEW new, DOMAIN old = ids, DOMAIN new = ids,
         NEW id \in ids, <<kind, id>> \notin lapsed, SameTokens(ids \ {id}, old, new),
         old[id] = None, new[id] # None, new[id].spentBy = None
  PROVE  /\ {x \in ids : new[x] # None} = {x \in ids : old[x] # None} \cup {id}
         /\ Gone(kind, new) = Gone(kind, old)
         /\ Spender(new) = Spender(old)
<1>1. Gone(kind, new) = Gone(kind, old)
  BY DEF SameTokens, Gone
<1>2. Spender(new) = Spender(old)
  BY DEF SameTokens, Spender
<1> QED
  BY <1>1, <1>2 DEF SameTokens

\* One of the five things is a step of SingleUse, for auth states:
LEMMA StateUsed ==
  ASSUME ServerInv, ServerInv', LapsedIssued, NEW r \in Request, Leaves(r), UsesState(r), UNCHANGED lapsed
  PROVE  StateUse!Next \/ UNCHANGED StateUse!vars
<1>1. /\ DOMAIN states = StateId /\ DOMAIN states' = StateId
      /\ Gone("state", states)' = Gone("state", states') /\ Spender(states)' = Spender(states')
  BY DEF ServerInv, TypeOK, Gone, Spender
<1>2. CASE SameTokens(StateId, states, states')
  <2>1. /\ {s \in StateId : states'[s] # None} = {s \in StateId : states[s] # None}
        /\ Gone("state", states)' = Gone("state", states) /\ Spender(states)' = Spender(states)
    BY <1>1, <1>2, SameView
  <2>2. CASE Holding(StateStages)' = Holding(StateStages)
    BY <2>1, <2>2 DEF StateUse!vars
  <2>3. CASE req[r].pc \in StateStages /\ req'[r].pc \notin StateStages
    <3>1. Holding(StateStages)' = Holding(StateStages) \ {<<req[r].tok, r>>}
      BY <2>3, HoldingMoves
    <3>2. req[r].tok \in StateId
      BY <2>3 DEF ServerInv, Mine, Locals, StateStages, CopyStages, CompleteStages, SignInStages,
         CredStages, PasskeyStages, PasswordStages, GoogleStages
    <3>3. StateUse!Forget(req[r].tok, r)
      BY <2>1, <3>1 DEF StateUse!Forget
    <3> QED
      BY <3>2, <3>3 DEF StateUse!Next
  <2>4. CASE /\ req[r].pc \notin StateStages /\ req'[r].pc \in StateStages
             /\ req'[r].tok \in StateId /\ Live("state", states, req'[r].tok)
    <3>1. Holding(StateStages)' = Holding(StateStages) \cup {<<req'[r].tok, r>>}
      BY <2>4, HoldingMoves
    <3>2. req'[r].tok \in {s \in StateId : states[s] # None} \ Gone("state", states)
      BY <2>4 DEF Live, Gone
    <3>3. StateUse!See(req'[r].tok, r)
      BY <2>1, <3>1, <3>2 DEF StateUse!See
    <3> QED
      BY <2>4, <3>3 DEF StateUse!Next
  <2> QED
    BY <1>2, <2>2, <2>3, <2>4, HoldingMoves DEF UsesState, Uses
<1>3. CASE /\ req[r].pc \in StateStages /\ req'[r].pc \notin StateStages
           /\ req[r].tok \in StateId
           /\ states[req[r].tok] # None /\ states[req[r].tok].spentBy = None
           /\ states'[req[r].tok] # None /\ states'[req[r].tok].spentBy = r
           /\ SameTokens(StateId \ {req[r].tok}, states, states')
  <2>1. /\ {s \in StateId : states'[s] # None} = {s \in StateId : states[s] # None}
        /\ Gone("state", states)' = Gone("state", states) \cup {req[r].tok}
        /\ Spender(states)' = [Spender(states) EXCEPT ![req[r].tok] = r]
    <3> DEFINE s == req[r].tok
    <3>1. /\ s \in StateId /\ SameTokens(StateId \ {s}, states, states')
          /\ states[s] # None /\ states'[s] # None /\ states'[s].spentBy = r
      BY <1>3
    <3> HIDE DEF s
    <3>2. {x \in StateId : states'[x] # None} = {x \in StateId : states[x] # None}
      BY <1>1, <3>1 DEF SameTokens
    <3>3. Gone("state", states') = Gone("state", states) \cup {s}
      BY <1>1, <3>1, Constants DEF SameTokens, Gone
    <3>4. Spender(states') = [Spender(states) EXCEPT ![s] = r]
      BY <1>1, <3>1 DEF SameTokens, Spender
    <3> QED
      BY <1>1, <3>2, <3>3, <3>4 DEF s
  <2>2. Holding(StateStages)' = Holding(StateStages) \ {<<req[r].tok, r>>}
    BY <1>3, HoldingMoves
  <2>3. <<req[r].tok, r>> \in Holding(StateStages) /\ Spender(states)[req[r].tok] = None
    BY <1>1, <1>3 DEF Holding, Spender
  <2>4. StateUse!Spend(req[r].tok, r)
    BY <2>1, <2>2, <2>3 DEF StateUse!Spend
  <2> QED
    BY <1>3, <2>4 DEF StateUse!Next
<1>4. ASSUME req[r].pc \notin StateStages, req'[r].pc \notin StateStages, NEW s \in StateId,
             states[s] = None, states'[s] # None, states'[s].spentBy = None,
             SameTokens(StateId \ {s}, states, states')
      PROVE  StateUse!Next
  <2>1. /\ {x \in StateId : states'[x] # None} = {x \in StateId : states[x] # None} \cup {s}
        /\ Gone("state", states)' = Gone("state", states) /\ Spender(states)' = Spender(states)
    <3>1. <<"state", s>> \notin lapsed
      BY <1>4 DEF LapsedIssued
    <3>2. /\ {x \in StateId : states'[x] # None} = {x \in StateId : states[x] # None} \cup {s}
          /\ Gone("state", states') = Gone("state", states) /\ Spender(states') = Spender(states)
      BY <1>1, <1>4, <3>1, AddedView
    <3> QED
      BY <1>1, <3>2
  <2>2. Holding(StateStages)' = Holding(StateStages)
    BY <1>4, HoldingMoves
  <2>3. StateUse!Issue(s)
    BY <1>4, <2>1, <2>2 DEF StateUse!Issue
  <2> QED
    BY <2>3 DEF StateUse!Next
<1> QED
  BY <1>2, <1>3, <1>4 DEF UsesState, Uses

\* One of the five things is a step of SingleUse, for one-time codes:
LEMMA OtpUsed ==
  ASSUME ServerInv, ServerInv', LapsedIssued, NEW r \in Request, Leaves(r), UsesOtp(r), UNCHANGED lapsed
  PROVE  OtpUse!Next \/ UNCHANGED OtpUse!vars
<1>1. /\ DOMAIN otps = Request /\ DOMAIN otps' = Request
      /\ Gone("otp", otps)' = Gone("otp", otps') /\ Spender(otps)' = Spender(otps')
  BY DEF ServerInv, TypeOK, Gone, Spender
<1>2. CASE SameTokens(Request, otps, otps')
  <2>1. /\ {s \in Request : otps'[s] # None} = {s \in Request : otps[s] # None}
        /\ Gone("otp", otps)' = Gone("otp", otps) /\ Spender(otps)' = Spender(otps)
    BY <1>1, <1>2, SameView
  <2>2. CASE Holding(OtpStages)' = Holding(OtpStages)
    BY <2>1, <2>2 DEF OtpUse!vars
  <2>3. CASE req[r].pc \in OtpStages /\ req'[r].pc \notin OtpStages
    <3>1. Holding(OtpStages)' = Holding(OtpStages) \ {<<req[r].tok, r>>}
      BY <2>3, HoldingMoves
    <3>2. req[r].tok \in Request
      BY <2>3 DEF ServerInv, Mine, Locals, OtpStages
    <3>3. OtpUse!Forget(req[r].tok, r)
      BY <2>1, <3>1 DEF OtpUse!Forget
    <3> QED
      BY <3>2, <3>3 DEF OtpUse!Next
  <2>4. CASE /\ req[r].pc \notin OtpStages /\ req'[r].pc \in OtpStages
             /\ req'[r].tok \in Request /\ Live("otp", otps, req'[r].tok)
    <3>1. Holding(OtpStages)' = Holding(OtpStages) \cup {<<req'[r].tok, r>>}
      BY <2>4, HoldingMoves
    <3>2. req'[r].tok \in {s \in Request : otps[s] # None} \ Gone("otp", otps)
      BY <2>4 DEF Live, Gone
    <3>3. OtpUse!See(req'[r].tok, r)
      BY <2>1, <3>1, <3>2 DEF OtpUse!See
    <3> QED
      BY <2>4, <3>3 DEF OtpUse!Next
  <2> QED
    BY <1>2, <2>2, <2>3, <2>4, HoldingMoves DEF UsesOtp, Uses
<1>3. CASE /\ req[r].pc \in OtpStages /\ req'[r].pc \notin OtpStages
           /\ req[r].tok \in Request
           /\ otps[req[r].tok] # None /\ otps[req[r].tok].spentBy = None
           /\ otps'[req[r].tok] # None /\ otps'[req[r].tok].spentBy = r
           /\ SameTokens(Request \ {req[r].tok}, otps, otps')
  <2>1. /\ {s \in Request : otps'[s] # None} = {s \in Request : otps[s] # None}
        /\ Gone("otp", otps)' = Gone("otp", otps) \cup {req[r].tok}
        /\ Spender(otps)' = [Spender(otps) EXCEPT ![req[r].tok] = r]
    <3> DEFINE s == req[r].tok
    <3>1. /\ s \in Request /\ SameTokens(Request \ {s}, otps, otps')
          /\ otps[s] # None /\ otps'[s] # None /\ otps'[s].spentBy = r
      BY <1>3
    <3> HIDE DEF s
    <3>2. {x \in Request : otps'[x] # None} = {x \in Request : otps[x] # None}
      BY <1>1, <3>1 DEF SameTokens
    <3>3. Gone("otp", otps') = Gone("otp", otps) \cup {s}
      BY <1>1, <3>1, Constants DEF SameTokens, Gone
    <3>4. Spender(otps') = [Spender(otps) EXCEPT ![s] = r]
      BY <1>1, <3>1 DEF SameTokens, Spender
    <3> QED
      BY <1>1, <3>2, <3>3, <3>4 DEF s
  <2>2. Holding(OtpStages)' = Holding(OtpStages) \ {<<req[r].tok, r>>}
    BY <1>3, HoldingMoves
  <2>3. <<req[r].tok, r>> \in Holding(OtpStages) /\ Spender(otps)[req[r].tok] = None
    BY <1>1, <1>3 DEF Holding, Spender
  <2>4. OtpUse!Spend(req[r].tok, r)
    BY <2>1, <2>2, <2>3 DEF OtpUse!Spend
  <2> QED
    BY <1>3, <2>4 DEF OtpUse!Next
<1>4. ASSUME req[r].pc \notin OtpStages, req'[r].pc \notin OtpStages, NEW s \in Request,
             otps[s] = None, otps'[s] # None, otps'[s].spentBy = None,
             SameTokens(Request \ {s}, otps, otps')
      PROVE  OtpUse!Next
  <2>1. /\ {x \in Request : otps'[x] # None} = {x \in Request : otps[x] # None} \cup {s}
        /\ Gone("otp", otps)' = Gone("otp", otps) /\ Spender(otps)' = Spender(otps)
    <3>1. <<"otp", s>> \notin lapsed
      BY <1>4 DEF LapsedIssued
    <3>2. /\ {x \in Request : otps'[x] # None} = {x \in Request : otps[x] # None} \cup {s}
          /\ Gone("otp", otps') = Gone("otp", otps) /\ Spender(otps') = Spender(otps)
      BY <1>1, <1>4, <3>1, AddedView
    <3> QED
      BY <1>1, <3>2
  <2>2. Holding(OtpStages)' = Holding(OtpStages)
    BY <1>4, HoldingMoves
  <2>3. OtpUse!Issue(s)
    BY <1>4, <2>1, <2>2 DEF OtpUse!Issue
  <2> QED
    BY <2>3 DEF OtpUse!Next
<1> QED
  BY <1>2, <1>3, <1>4 DEF UsesOtp, Uses

\* One of the five things is a step of SingleUse, for auth codes:
LEMMA CodeUsed ==
  ASSUME ServerInv, ServerInv', LapsedIssued, NEW r \in Request, Leaves(r), UsesCode(r), UNCHANGED lapsed
  PROVE  CodeUse!Next \/ UNCHANGED CodeUse!vars
<1>1. /\ DOMAIN codes = Request /\ DOMAIN codes' = Request
      /\ Gone("code", codes)' = Gone("code", codes') /\ Spender(codes)' = Spender(codes')
  BY DEF ServerInv, TypeOK, Gone, Spender
<1>2. CASE SameTokens(Request, codes, codes')
  <2>1. /\ {s \in Request : codes'[s] # None} = {s \in Request : codes[s] # None}
        /\ Gone("code", codes)' = Gone("code", codes) /\ Spender(codes)' = Spender(codes)
    BY <1>1, <1>2, SameView
  <2>2. CASE Holding(CodeStages)' = Holding(CodeStages)
    BY <2>1, <2>2 DEF CodeUse!vars
  <2>3. CASE req[r].pc \in CodeStages /\ req'[r].pc \notin CodeStages
    <3>1. Holding(CodeStages)' = Holding(CodeStages) \ {<<req[r].tok, r>>}
      BY <2>3, HoldingMoves
    <3>2. req[r].tok \in Request
      BY <2>3 DEF ServerInv, Mine, Locals, CodeStages
    <3>3. CodeUse!Forget(req[r].tok, r)
      BY <2>1, <3>1 DEF CodeUse!Forget
    <3> QED
      BY <3>2, <3>3 DEF CodeUse!Next
  <2>4. CASE /\ req[r].pc \notin CodeStages /\ req'[r].pc \in CodeStages
             /\ req'[r].tok \in Request /\ Live("code", codes, req'[r].tok)
    <3>1. Holding(CodeStages)' = Holding(CodeStages) \cup {<<req'[r].tok, r>>}
      BY <2>4, HoldingMoves
    <3>2. req'[r].tok \in {s \in Request : codes[s] # None} \ Gone("code", codes)
      BY <2>4 DEF Live, Gone
    <3>3. CodeUse!See(req'[r].tok, r)
      BY <2>1, <3>1, <3>2 DEF CodeUse!See
    <3> QED
      BY <2>4, <3>3 DEF CodeUse!Next
  <2> QED
    BY <1>2, <2>2, <2>3, <2>4, HoldingMoves DEF UsesCode, Uses
<1>3. CASE /\ req[r].pc \in CodeStages /\ req'[r].pc \notin CodeStages
           /\ req[r].tok \in Request
           /\ codes[req[r].tok] # None /\ codes[req[r].tok].spentBy = None
           /\ codes'[req[r].tok] # None /\ codes'[req[r].tok].spentBy = r
           /\ SameTokens(Request \ {req[r].tok}, codes, codes')
  <2>1. /\ {s \in Request : codes'[s] # None} = {s \in Request : codes[s] # None}
        /\ Gone("code", codes)' = Gone("code", codes) \cup {req[r].tok}
        /\ Spender(codes)' = [Spender(codes) EXCEPT ![req[r].tok] = r]
    <3> DEFINE s == req[r].tok
    <3>1. /\ s \in Request /\ SameTokens(Request \ {s}, codes, codes')
          /\ codes[s] # None /\ codes'[s] # None /\ codes'[s].spentBy = r
      BY <1>3
    <3> HIDE DEF s
    <3>2. {x \in Request : codes'[x] # None} = {x \in Request : codes[x] # None}
      BY <1>1, <3>1 DEF SameTokens
    <3>3. Gone("code", codes') = Gone("code", codes) \cup {s}
      BY <1>1, <3>1, Constants DEF SameTokens, Gone
    <3>4. Spender(codes') = [Spender(codes) EXCEPT ![s] = r]
      BY <1>1, <3>1 DEF SameTokens, Spender
    <3> QED
      BY <1>1, <3>2, <3>3, <3>4 DEF s
  <2>2. Holding(CodeStages)' = Holding(CodeStages) \ {<<req[r].tok, r>>}
    BY <1>3, HoldingMoves
  <2>3. <<req[r].tok, r>> \in Holding(CodeStages) /\ Spender(codes)[req[r].tok] = None
    BY <1>1, <1>3 DEF Holding, Spender
  <2>4. CodeUse!Spend(req[r].tok, r)
    BY <2>1, <2>2, <2>3 DEF CodeUse!Spend
  <2> QED
    BY <1>3, <2>4 DEF CodeUse!Next
<1>4. ASSUME req[r].pc \notin CodeStages, req'[r].pc \notin CodeStages, NEW s \in Request,
             codes[s] = None, codes'[s] # None, codes'[s].spentBy = None,
             SameTokens(Request \ {s}, codes, codes')
      PROVE  CodeUse!Next
  <2>1. /\ {x \in Request : codes'[x] # None} = {x \in Request : codes[x] # None} \cup {s}
        /\ Gone("code", codes)' = Gone("code", codes) /\ Spender(codes)' = Spender(codes)
    <3>1. <<"code", s>> \notin lapsed
      BY <1>4 DEF LapsedIssued
    <3>2. /\ {x \in Request : codes'[x] # None} = {x \in Request : codes[x] # None} \cup {s}
          /\ Gone("code", codes') = Gone("code", codes) /\ Spender(codes') = Spender(codes)
      BY <1>1, <1>4, <3>1, AddedView
    <3> QED
      BY <1>1, <3>2
  <2>2. Holding(CodeStages)' = Holding(CodeStages)
    BY <1>4, HoldingMoves
  <2>3. CodeUse!Issue(s)
    BY <1>4, <2>1, <2>2 DEF CodeUse!Issue
  <2> QED
    BY <2>3 DEF CodeUse!Next
<1> QED
  BY <1>2, <1>3, <1>4 DEF UsesCode, Uses

-------------------------------------------------------------------------------
\* The row a sign-in begins with.
LEMMA AuthorizeRow ==
  ASSUME ServerInv, NEW s \in StateId, NEW a \in App, Authorize(s, a)
  PROVE  /\ states[s] = None /\ states'[s] # None /\ states'[s].spentBy = None
         /\ \A x \in StateId : x # s => states'[x] = states[x]
         /\ DOMAIN states = StateId /\ DOMAIN states' = StateId
         /\ UNCHANGED <<otps, codes, lapsed, req>>
<1>1. NewAuthState(a) \in StateRow /\ NewAuthState(a).spentBy = None
  BY DEF NewAuthState, StateRow, Maybe
<1>2. NewAuthState(a) # None
  BY <1>1, RowAssumption
<1> QED
  BY <1>1, <1>2 DEF Authorize, ServerInv, TypeOK

\* Only tokens that are there lapse, and a row never goes away.
LEMMA LapsedIssuedInit == Init => LapsedIssued
BY DEF Init, LapsedIssued

LEMMA LapsedIssuedStays == ServerInv /\ LapsedIssued /\ [Next]_vars => LapsedIssued'
<1> SUFFICES ASSUME ServerInv, LapsedIssued, [Next]_vars PROVE LapsedIssued'
  OBVIOUS
<1>1. ASSUME NEW s \in StateId, NEW a \in App, Authorize(s, a) PROVE LapsedIssued'
  BY <1>1, AuthorizeRow DEF LapsedIssued
<1>2. ASSUME NEW r \in Request, Serve(r) \/ Fail(r) PROVE LapsedIssued'
  BY <1>2, RequestUse DEF Leaves, LapsedIssued
<1>3. CASE Lapse
  BY <1>3 DEF Lapse, LapseState, LapseOtp, LapseCode, Live, LapsedIssued, tables
<1>4. CASE UNCHANGED vars
  BY <1>4 DEF vars, tables, LapsedIssued
<1> QED
  BY <1>1, <1>2, <1>3, <1>4 DEF Next

\* The clock moves on: of each kind, the tokens that now read as expired are
\* those that did and some that are there.
LEMMA ClockUse ==
  ASSUME ServerInv, Lapse
  PROVE  /\ StateUse!Next /\ OtpUse!Next /\ CodeUse!Next
<1>1. StateUse!Next
  <2>1. lapsed \subseteq lapsed' /\ UNCHANGED <<tables, req>>
    BY DEF Lapse, LapseState, LapseOtp, LapseCode
  <2>2. DOMAIN states = StateId
    BY DEF ServerInv, TypeOK
  <2>3. /\ Gone("state", states)' \in SUBSET {s \in StateId : states[s] # None}
        /\ Gone("state", states)' = Gone("state", states) \cup Gone("state", states)'
    BY <2>1, <2>2 DEF Gone, tables
  <2>4. UNCHANGED <<{s \in StateId : states[s] # None}, Holding(StateStages), Spender(states)>>
    BY <2>1 DEF tables, Holding, Spender
  <2>5. StateUse!Lapse(Gone("state", states)')
    BY <2>3, <2>4 DEF StateUse!Lapse
  <2> QED
    BY <2>3, <2>5 DEF StateUse!Next
<1>2. OtpUse!Next
  <2>1. lapsed \subseteq lapsed' /\ UNCHANGED <<tables, req>>
    BY DEF Lapse, LapseState, LapseOtp, LapseCode
  <2>2. DOMAIN otps = Request
    BY DEF ServerInv, TypeOK
  <2>3. /\ Gone("otp", otps)' \in SUBSET {o \in Request : otps[o] # None}
        /\ Gone("otp", otps)' = Gone("otp", otps) \cup Gone("otp", otps)'
    BY <2>1, <2>2 DEF Gone, tables
  <2>4. UNCHANGED <<{o \in Request : otps[o] # None}, Holding(OtpStages), Spender(otps)>>
    BY <2>1 DEF tables, Holding, Spender
  <2>5. OtpUse!Lapse(Gone("otp", otps)')
    BY <2>3, <2>4 DEF OtpUse!Lapse
  <2> QED
    BY <2>3, <2>5 DEF OtpUse!Next
<1>3. CodeUse!Next
  <2>1. lapsed \subseteq lapsed' /\ UNCHANGED <<tables, req>>
    BY DEF Lapse, LapseState, LapseOtp, LapseCode
  <2>2. DOMAIN codes = Request
    BY DEF ServerInv, TypeOK
  <2>3. /\ Gone("code", codes)' \in SUBSET {c \in Request : codes[c] # None}
        /\ Gone("code", codes)' = Gone("code", codes) \cup Gone("code", codes)'
    BY <2>1, <2>2 DEF Gone, tables
  <2>4. UNCHANGED <<{c \in Request : codes[c] # None}, Holding(CodeStages), Spender(codes)>>
    BY <2>1 DEF tables, Holding, Spender
  <2>5. CodeUse!Lapse(Gone("code", codes)')
    BY <2>3, <2>4 DEF CodeUse!Lapse
  <2> QED
    BY <2>3, <2>5 DEF CodeUse!Next
<1> QED
  BY <1>1, <1>2, <1>3

\* A sign-in begins: an auth state is issued, and nothing else is seen.
LEMMA AuthorizeUse ==
  ASSUME ServerInv, LapsedIssued, NEW s \in StateId, NEW a \in App, Authorize(s, a)
  PROVE  StateUse!Next /\ UNCHANGED <<OtpUse!vars, CodeUse!vars>>
<1>1. /\ states[s] = None /\ states'[s] # None /\ states'[s].spentBy = None
      /\ SameTokens(StateId \ {s}, states, states')
      /\ DOMAIN states = StateId /\ DOMAIN states' = StateId
      /\ UNCHANGED <<otps, codes, lapsed, req>>
  BY AuthorizeRow DEF SameTokens
<1>2. <<"state", s>> \notin lapsed
  BY <1>1 DEF LapsedIssued
<1>3. /\ {x \in StateId : states'[x] # None} = {x \in StateId : states[x] # None} \cup {s}
      /\ Gone("state", states') = Gone("state", states) /\ Spender(states') = Spender(states)
  BY <1>1, <1>2, AddedView
<1>4. /\ Gone("state", states)' = Gone("state", states') /\ Spender(states)' = Spender(states')
      /\ Holding(StateStages)' = Holding(StateStages)
  BY <1>1 DEF Gone, Spender, Holding
<1>5. StateUse!Issue(s)
  BY <1>1, <1>3, <1>4 DEF StateUse!Issue
<1>6. StateUse!Next
  BY <1>5 DEF StateUse!Next
<1>7. UNCHANGED <<OtpUse!vars, CodeUse!vars>>
  BY <1>1 DEF OtpUse!vars, CodeUse!vars, Gone, Spender, Holding
<1> QED
  BY <1>6, <1>7

LEMMA UseIdle ==
  ASSUME UNCHANGED vars
  PROVE  UNCHANGED <<StateUse!vars, OtpUse!vars, CodeUse!vars>>
BY DEF vars, tables, StateUse!vars, OtpUse!vars, CodeUse!vars, Gone, Spender, Holding

LEMMA UseInit == Init => StateUse!Init /\ OtpUse!Init /\ CodeUse!Init
<1> SUFFICES ASSUME Init PROVE StateUse!Init /\ OtpUse!Init /\ CodeUse!Init
  OBVIOUS
<1>1. \A stages \in {StateStages, OtpStages, CodeStages} : Holding(stages) = {}
  BY DEF Init, Fresh, Holding, StateStages, OtpStages, CodeStages
<1>2. StateUse!Init
  BY <1>1 DEF Init, StateUse!Init, Gone, Spender
<1>3. OtpUse!Init
  BY <1>1 DEF Init, OtpUse!Init, Gone, Spender
<1>4. CodeUse!Init
  BY <1>1 DEF Init, CodeUse!Init, Gone, Spender
<1> QED
  BY <1>2, <1>3, <1>4

\* Every step of the server is a step of SingleUse or none, for each kind.
LEMMA UseStep ==
  ASSUME ServerInv, ServerInv', LapsedIssued, [Next]_vars
  PROVE  /\ [StateUse!Next]_(StateUse!vars)
         /\ [OtpUse!Next]_(OtpUse!vars)
         /\ [CodeUse!Next]_(CodeUse!vars)
<1>1. ASSUME NEW s \in StateId, NEW a \in App, Authorize(s, a)
      PROVE  StateUse!Next /\ UNCHANGED <<OtpUse!vars, CodeUse!vars>>
  BY <1>1, AuthorizeUse
<1>2. ASSUME NEW r \in Request, Serve(r) \/ Fail(r)
      PROVE  /\ StateUse!Next \/ UNCHANGED StateUse!vars
             /\ OtpUse!Next \/ UNCHANGED OtpUse!vars
             /\ CodeUse!Next \/ UNCHANGED CodeUse!vars
  <2>1. Leaves(r) /\ UsesTokens(r) /\ UNCHANGED lapsed
    BY <1>2, RequestUse
  <2>2. StateUse!Next \/ UNCHANGED StateUse!vars
    BY <2>1, StateUsed DEF UsesTokens
  <2>3. OtpUse!Next \/ UNCHANGED OtpUse!vars
    BY <2>1, OtpUsed DEF UsesTokens
  <2>4. CodeUse!Next \/ UNCHANGED CodeUse!vars
    BY <2>1, CodeUsed DEF UsesTokens
  <2> QED
    BY <2>2, <2>3, <2>4
<1>3. CASE Lapse
  BY <1>3, ClockUse
<1>4. CASE UNCHANGED vars
  BY <1>4, UseIdle
<1> QED
  BY <1>1, <1>2, <1>3, <1>4 DEF Next

\* Auth states, one-time codes and auth codes keep the single-use promise,
\* whatever the requests of all endpoints do and however they interleave
\* (Retrieve, Expired and Expire in each handler).
THEOREM ServerTokensSingleUse == Spec => TokensSingleUse
<1>1. Spec => []LapsedIssued
  <2>1. Init => LapsedIssued
    BY LapsedIssuedInit
  <2>2. ServerInv /\ LapsedIssued /\ [Next]_vars => LapsedIssued'
    BY LapsedIssuedStays
  <2> QED
    BY <2>1, <2>2, ServerInvariance, PTL DEF Spec
<1>2. Init => StateUse!Init /\ OtpUse!Init /\ CodeUse!Init
  BY UseInit
<1>3. ServerInv /\ ServerInv' /\ LapsedIssued /\ [Next]_vars =>
        /\ [StateUse!Next]_(StateUse!vars)
        /\ [OtpUse!Next]_(OtpUse!vars)
        /\ [CodeUse!Next]_(CodeUse!vars)
  BY UseStep
<1> QED
  BY <1>1, <1>2, <1>3, ServerInvariance, PTL
  DEF Spec, TokensSingleUse, StateUse!Spec, OtpUse!Spec, CodeUse!Spec

===============================================================================
