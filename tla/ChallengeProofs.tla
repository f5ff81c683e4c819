----------------------------- MODULE ChallengeProofs ----------------------------
(***************************************************************************)
(* Theorems about the challenge, which ties a passkey page to the login it *)
(* was opened for, and about the one-time code that a sign-up spends.      *)
(*                                                                         *)
(* The handlers compare the challenge of a page with that of the auth      *)
(* state, and then trust the login in their copy of the state.  Requests   *)
(* of other tabs rewrite the state meanwhile, also with what old copies    *)
(* say.  So the argument is about all that states and copies say (Says):   *)
(* every request draws one challenge and says it of one login.             *)
(***************************************************************************)
EXTENDS AuthServerProofs

\* An auth state, or the copy of one that a request holds, says that challenge c
\* is for login l.
Says(c, l) ==
  \/ \E s \in StateId : states[s] # None /\ states[s].challenge = c /\ states[s].login = l
  \/ \E r \in Request :
       req[r].pc \in CopyStages /\ req[r].copy.challenge = c /\ req[r].copy.login = l

\* Whatever says challenge c says it is for login l.
OnlyFor(c, l) == \A x \in Maybe(Login) : Says(c, x) => x = l

\* Challenge c has been drawn: by request c, in its last step but one or before.
Drawn(c) == req[c].pc \in {"signin.page"} \cup Ended

ChallengeInv ==
  /\ \A c \in Request, l \in Maybe(Login) : Says(c, l) => Drawn(c)
  /\ \A r \in Request : req[r].pc = "signin.page" => OnlyFor(r, req[r].login)
  /\ \A pg \in pages :
       states[pg.state] # None /\ req[pg.challenge].pc \in Ended /\ OnlyFor(pg.challenge, pg.login)

\* A one-time code mailed to l for state s has been spent.
Proven(l, s) ==
  \E o \in Request : otps[o] # None /\ otps[o].spentBy # None /\ otps[o].login = l /\ otps[o].state = s

\* The app of a state never changes; the login that GET /sign-up writes into a
\* state is that of the one-time code it has spent.
ProofInv ==
  /\ \A r \in Request : req[r].pc \in CopyStages => req[r].copy.app = states[req[r].tok].app
  /\ \A r \in Request :
       /\ req[r].pc = "verify.expire" => req[r].login = otps[req[r].tok].login
       /\ req[r].pc \in {"verify.state", "verify.set"} => Proven(req[r].login, req[r].tok)

-------------------------------------------------------------------------------
\* What a step of r has to do with challenges and proofs.

SameWords(x, y) == x.app = y.app /\ x.challenge = y.challenge /\ x.login = y.login

\* It leaves what a state says, or says what its copy says, or draws.
Draws(r) ==
  /\ req[r].pc \in {"signin.passkey", "verify.set"}
  /\ Drawn(r)'
  /\ req'[r].pc = "signin.page" => req'[r].login = req[r].login

SaysOn(r) ==
  \A s \in StateId :
    states'[s] # None =>
      /\ states[s] # None
      /\ \/ SameWords(states'[s], states[s])
         \/ /\ s = req[r].tok /\ req[r].pc \in CopyStages
            /\ states'[s].app = req[r].copy.app
            /\ \/ SameWords(states'[s], req[r].copy)
               \/ Draws(r) /\ states'[s].challenge = r /\ states'[s].login = req[r].login

\* It goes on with its copy, or takes one of the state.
CopiesOn(r) ==
  req'[r].pc \in CopyStages =>
    \/ req[r].pc \in CopyStages /\ req'[r].copy = req[r].copy /\ req'[r].tok = req[r].tok
    \/ req'[r].tok \in StateId /\ states[req'[r].tok] # None /\ req'[r].copy = states[req'[r].tok]

\* It opens no page but the one for its challenge, and then ends.
OpensOwn(r) ==
  /\ req'[r].pc = "signin.page" => Draws(r)
  /\ req[r].pc = "signin.page" => req'[r].pc \in Ended
  /\ \A pg \in pages' \ pages :
       /\ pg.challenge = r /\ pg.login = req[r].login /\ pg.state = req[r].tok
       /\ req'[r].pc \in Ended
       /\ \/ req[r].pc = "signin.page" /\ pg.type = "get" /\ UNCHANGED states
          \/ req[r].pc = "verify.set"

\* Proofs stay, and it has one of its own where one is called for; only a listed
\* passkey leads to a new challenge, and only a login that is free to a new identity.
ProvesOn(r) ==
  /\ \A o \in Request :
       otps[o] # None =>
         /\ otps'[o] # None /\ otps'[o].login = otps[o].login
         /\ otps'[o].provider = otps[o].provider /\ otps'[o].state = otps[o].state
         /\ otps[o].spentBy # None => otps'[o].spentBy # None
  /\ req'[r].pc = "verify.expire" =>
       /\ req'[r].tok \in Request /\ otps[req'[r].tok] # None
       /\ req'[r].login = otps[req'[r].tok].login
  /\ req'[r].pc \in {"verify.state", "verify.set"} =>
       /\ req'[r].login = req[r].login
       /\ \/ req[r].pc = "verify.state" /\ req'[r].tok = req[r].tok
          \/ /\ req[r].pc = "verify.expire" /\ req'[r].tok = otps[req[r].tok].state
             /\ otps'[req[r].tok].spentBy # None
  /\ req'[r].pc = "signin.passkey" => SignInList(r)
  /\ \A i \in Request :
       idns'[i] # None /\ idns'[i].via = "passkey" =>
         \/ idns'[i] = idns[i]
         \/ /\ req[r].pc \in CopyStages /\ ~LoginTaken(req[r].copy.app, req[r].copy.login)
            /\ idns'[i].app = req[r].copy.app /\ idns'[i].login = req[r].copy.login

Tells(r) == SaysOn(r) /\ CopiesOn(r) /\ OpensOwn(r) /\ ProvesOn(r)

-------------------------------------------------------------------------------
\* Every step is such a step.

\* Most steps leave states, codes, identities and pages alone: it is enough to
\* look at where the request goes.
LEMMA Quiet ==
  ASSUME ServerInv, NEW r \in Request, UNCHANGED <<states, otps, idns, pages>>,
         \/ req'[r].pc \in Ended
         \/ req'[r].pc \notin {"verify.expire", "verify.state"} \cup CopyStages /\ req[r].pc # "signin.page"
         \/ /\ req[r].pc \in CopyStages \ {"signin.page"}
            /\ req'[r].pc \in CopyStages \ {"signin.page", "verify.set"}
            /\ req'[r].copy = req[r].copy /\ req'[r].tok = req[r].tok
         \/ /\ req[r].pc = "idle"
            /\ req'[r].pc \in {"signin.list", "cred.find", "passkey.src", "password.src", "google.expire"}
            /\ req'[r].tok \in StateId /\ states[req'[r].tok] # None
            /\ req'[r].copy = states[req'[r].tok],
         req'[r].pc = "signin.passkey" => SignInList(r)
  PROVE  Tells(r)
<1>1. SaysOn(r)
  BY DEF SaysOn, SameWords
<1> USE DEF SignInStages, CredStages, PasskeyStages, PasswordStages, GoogleStages, CompleteStages,
            CopyStages, Ended
<1>2. CopiesOn(r)
  BY DEF CopiesOn
<1>3. OpensOwn(r)
  BY DEF OpensOwn
<1>4. ProvesOn(r)
  BY DEF ProvesOn
<1> QED
  BY <1>1, <1>2, <1>3, <1>4 DEF Tells

LEMMA Onward ==
  ASSUME ServerInv, NEW r \in Request
  PROVE  /\ Return(r) => req'[r].pc = "done"
         /\ \A pc : GoTo(r, pc) => /\ req'[r].pc = pc /\ req'[r].copy = req[r].copy
                                   /\ req'[r].tok = req[r].tok /\ req'[r].login = req[r].login
<1>1. req \in [Request -> Local] /\ req[r] \in Local
  BY DEF ServerInv, TypeOK
<1>2. Return(r) => req'[r].pc = "done"
  BY <1>1, Constants DEF Return
<1>3. ASSUME NEW pc, GoTo(r, pc)
      PROVE  /\ req'[r].pc = pc /\ req'[r].copy = req[r].copy
             /\ req'[r].tok = req[r].tok /\ req'[r].login = req[r].login
  <2>1. req'[r] = [req[r] EXCEPT !.pc = pc]
    BY <1>1, <1>3 DEF GoTo
  <2> QED
    BY <1>1, <2>1 DEF Local
<1> QED
  BY <1>2, <1>3

\* A step of a request that returns with states, codes, identities and pages as
\* they were.
LEMMA ReturnTells ==
  ASSUME ServerInv, NEW r \in Request, Return(r), UNCHANGED <<states, otps, idns, pages>>
  PROVE  Tells(r)
BY Onward, Quiet DEF Ended

\* Expire leaves the words of the state.
LEMMA ExpireTells ==
  ASSUME ServerInv, NEW r \in Request, NEW from, NEW to, ExpireState(r, from, to),
         \/ from = "cred.expire" /\ to = "cred.code"
         \/ from = "passkey.expire" /\ to = "passkey.code"
         \/ from = "password.expire" /\ to = "password.code"
         \/ from = "google.expire" /\ to = "google.find"
  PROVE  Tells(r)
<1> USE DEF SignInStages, CredStages, PasskeyStages, PasswordStages, GoogleStages, CompleteStages,
            CopyStages, Ended
<1>1. CASE Return(r) /\ UNCHANGED states
  BY <1>1, ReturnTells DEF ExpireState, browser
<1>2. CASE states' = [states EXCEPT ![req[r].tok].spentBy = r] /\ GoTo(r, to)
  <2>1. /\ req[r].pc = from /\ TypeOK /\ UNCHANGED <<otps, idns, pages>>
        /\ req'[r].pc = to /\ req'[r].copy = req[r].copy /\ req'[r].tok = req[r].tok
    BY <1>2, Onward DEF ExpireState, At, browser, ServerInv
  <2>2. \A s \in StateId : states'[s] # None => states[s] # None /\ SameWords(states'[s], states[s])
    <3>1. /\ req[r].tok \in StateId /\ states[req[r].tok] # None /\ states[req[r].tok] \in StateRow
      BY <2>1 DEF ServerInv, Mine, Locals, TypeOK, Maybe
    <3>2. SameWords([states[req[r].tok] EXCEPT !.spentBy = r], states[req[r].tok])
      BY <3>1 DEF StateRow, SameWords
    <3> QED
      BY <1>2, <2>1, <3>1, <3>2 DEF TypeOK, SameWords
  <2>3. SaysOn(r)
    BY <2>2 DEF SaysOn
  <2>4. CopiesOn(r)
    BY <2>1 DEF CopiesOn
  <2>5. OpensOwn(r)
    BY <2>1 DEF OpensOwn
  <2>6. ProvesOn(r)
    BY <2>1 DEF ProvesOn
  <2> QED
    BY <2>3, <2>4, <2>5, <2>6 DEF Tells
<1> QED
  BY <1>1, <1>2 DEF ExpireState

\* SetAttrs says what the copy says, or draws.
LEMMA WriteSays ==
  ASSUME ServerInv, NEW r \in Request, req[r].pc \in CopyStages, NEW attrs \in StateRow,
         SetAttrs(r, attrs), attrs.app = req[r].copy.app,
         \/ SameWords(attrs, req[r].copy)
         \/ Draws(r) /\ attrs.challenge = r /\ attrs.login = req[r].login
  PROVE  SaysOn(r)
<1> DEFINE s == req[r].tok
           row == [attrs EXCEPT !.rev = @ + 1, !.spentBy = states[s].spentBy]
<1>1. s \in StateId /\ states[s] # None /\ states \in [StateId -> Maybe(StateRow)]
  BY DEF ServerInv, Mine, Locals, TypeOK
<1>2. row.app = attrs.app /\ row.challenge = attrs.challenge /\ row.login = attrs.login
  <2> HIDE DEF s
  <2> QED
    BY DEF StateRow
<1>3. states'[s] = row /\ \A x \in StateId : x # s => states'[x] = states[x]
  <2> HIDE DEF row
  <2> QED
    BY <1>1 DEF SetAttrs, row
<1> HIDE DEF row
<1> QED
  BY <1>1, <1>2, <1>3 DEF SaysOn, SameWords

-------------------------------------------------------------------------------
LEMMA SignInTells ==
  ASSUME ServerInv, NEW r \in Request, SignInNext(r)
  PROVE  Tells(r)
<1> USE DEF SignInStages, CredStages, PasskeyStages, PasswordStages, GoogleStages, CompleteStages,
            CopyStages, Ended
<1>1. req \in [Request -> Local] /\ req[r] \in Local /\ Locals(r)
  BY DEF ServerInv, TypeOK, Mine
<1>2. ASSUME NEW s \in StateId, NEW l \in Login, SignInBegin(r, s, l) PROVE Tells(r)
  <2>1. /\ req[r].pc = "idle" /\ states[s] # None
        /\ req'[r].pc = "signin.list" /\ req'[r].tok = s /\ req'[r].copy = states[s]
    BY <1>1, <1>2 DEF SignInBegin, At, Live, Begin, Fresh
  <2> QED
    BY <1>2, <2>1, Quiet DEF SignInBegin, tables, browser
<1>3. CASE SignInList(r)
  <2>1. CASE Return(r)
    BY <1>3, <2>1, ReturnTells DEF SignInList, tables, browser
  <2>2. ASSUME NEW p, NEW pc \in {"signin.passkey", "signin.password"},
               req' = [req EXCEPT ![r].provider = p, ![r].pc = pc]
        PROVE  Tells(r)
    <3>1. req'[r] = [req[r] EXCEPT !.provider = p, !.pc = pc]
      BY <1>1, <2>2
    <3>2. req'[r].pc = pc /\ req'[r].tok = req[r].tok /\ req'[r].copy = req[r].copy
      BY <1>1, <3>1 DEF Local
    <3> QED
      BY <1>3, <2>2, <3>2, Quiet DEF SignInList, At, tables, browser
  <2> QED
    BY <1>3, <2>1, <2>2 DEF SignInList
<1>4. CASE SignInPassword(r)
  <2>1. CASE UNCHANGED states
    BY <1>4, <2>1, ReturnTells DEF SignInPassword, browser
  <2>2. CASE SetAttrs(r, [req[r].copy EXCEPT !.provider = req[r].provider])
    <3> DEFINE attrs == [req[r].copy EXCEPT !.provider = req[r].provider]
    <3>1. req[r].pc = "signin.password" /\ req'[r].pc = "done"
      BY <1>4, Onward DEF SignInPassword, At
    <3>2. attrs \in StateRow /\ SameWords(attrs, req[r].copy) /\ attrs.app = req[r].copy.app
      BY <1>1, <3>1 DEF Locals, StateRow, Maybe, SameWords
    <3> HIDE DEF attrs
    <3>3. SaysOn(r)
      BY <2>2, <3>1, <3>2, WriteSays DEF attrs
    <3>4. CopiesOn(r) /\ OpensOwn(r) /\ ProvesOn(r)
      BY <1>4, <3>1 DEF SignInPassword, browser, CopiesOn, OpensOwn, ProvesOn
    <3> QED
      BY <3>3, <3>4 DEF Tells
  <2> QED
    BY <1>4, <2>1, <2>2 DEF SignInPassword
<1>5. CASE SignInPasskey(r)
  <2>1. CASE Return(r) /\ UNCHANGED states
    BY <1>5, <2>1, ReturnTells DEF SignInPasskey, browser
  <2> DEFINE attrs == [req[r].copy EXCEPT !.login = req[r].login, !.provider = req[r].provider,
                                          !.challenge = r]
  <2>2. CASE SetAttrs(r, attrs) /\ GoTo(r, "signin.page")
    <3>1. /\ req[r].pc = "signin.passkey" /\ req'[r].pc = "signin.page" /\ req'[r].copy = req[r].copy
          /\ req'[r].tok = req[r].tok /\ req'[r].login = req[r].login
      BY <1>5, <2>2, Onward DEF SignInPasskey, At
    <3>2. /\ attrs \in StateRow /\ attrs.challenge = r /\ attrs.login = req[r].login
          /\ attrs.app = req[r].copy.app
      BY <1>1, <3>1 DEF Locals, StateRow, Maybe
    <3> HIDE DEF attrs
    <3>3. Draws(r)
      BY <3>1 DEF Draws, Drawn
    <3>4. SaysOn(r)
      BY <2>2, <3>1, <3>2, <3>3, WriteSays
    <3>5. CopiesOn(r) /\ OpensOwn(r) /\ ProvesOn(r)
      BY <1>5, <3>1, <3>3 DEF SignInPasskey, browser, CopiesOn, OpensOwn, ProvesOn
    <3> QED
      BY <3>4, <3>5 DEF Tells
  <2> QED
    BY <1>5, <2>1, <2>2 DEF SignInPasskey
<1>6. CASE SignInPage(r)
  <2>1. req[r].pc = "signin.page" /\ req'[r].pc = "done"
    BY <1>6, Onward DEF SignInPage, At
  <2>2. SaysOn(r) /\ CopiesOn(r) /\ ProvesOn(r)
    BY <1>6, <2>1 DEF SignInPage, tables, SaysOn, CopiesOn, ProvesOn, SameWords
  <2>3. OpensOwn(r)
    BY <1>6, <2>1 DEF SignInPage, tables, OpensOwn
  <2> QED
    BY <2>2, <2>3 DEF Tells
<1> QED
  BY <1>2, <1>3, <1>4, <1>5, <1>6 DEF SignInNext

LEMMA SignUpTells ==
  ASSUME ServerInv, NEW r \in Request, SignUpNext(r)
  PROVE  Tells(r)
<1> USE DEF SignInStages, CredStages, PasskeyStages, PasswordStages, GoogleStages, CompleteStages,
            CopyStages, Ended
<1>1. req \in [Request -> Local] /\ req[r] \in Local
  BY DEF ServerInv, TypeOK
<1>2. ASSUME NEW s \in StateId, NEW l \in Login, NEW p \in Provider, SignUpBegin(r, s, l, p)
      PROVE  Tells(r)
  <2>1. req[r].pc = "idle" /\ req'[r].pc = "signup.otp"
    BY <1>1, <1>2 DEF SignUpBegin, At, Begin, Fresh
  <2> QED
    BY <1>2, <2>1, Quiet DEF SignUpBegin, tables, browser
<1>3. CASE SignUpOtp(r)
  <2>1. req[r].pc = "signup.otp" /\ req'[r].pc = "signup.mail"
    BY <1>3, Onward DEF SignUpOtp, At
  <2>2. otps[r] = None /\ \A o \in Request : o # r => otps'[o] = otps[o]
    BY <1>3, <2>1, NoRows DEF SignUpOtp, ServerInv, TypeOK
  <2>3. SaysOn(r) /\ CopiesOn(r) /\ OpensOwn(r)
    BY <1>3, <2>1 DEF SignUpOtp, browser, SaysOn, CopiesOn, OpensOwn, SameWords
  <2>4. ProvesOn(r)
    BY <1>3, <2>1, <2>2 DEF SignUpOtp, ProvesOn
  <2> QED
    BY <2>3, <2>4 DEF Tells
<1>4. CASE SignUpMail(r)
  BY <1>4, ReturnTells DEF SignUpMail, tables
<1> QED
  BY <1>2, <1>3, <1>4 DEF SignUpNext

LEMMA VerifyTells ==
  ASSUME ServerInv, NEW r \in Request, VerifyNext(r)
  PROVE  Tells(r)
<1> USE DEF SignInStages, CredStages, PasskeyStages, PasswordStages, GoogleStages, CompleteStages,
            CopyStages, Ended
<1>1. req \in [Request -> Local] /\ req[r] \in Local /\ Locals(r)
  BY DEF ServerInv, TypeOK, Mine
<1>2. ASSUME NEW o \in Request, VerifyBegin(r, o) PROVE Tells(r)
  <2>1. CASE Return(r)
    BY <1>2, <2>1, ReturnTells DEF VerifyBegin, tables
  <2>2. CASE /\ Live("otp", otps, o)
             /\ Begin(r, "verify.expire",
                      [Fresh EXCEPT !.tok = o, !.login = otps[o].login, !.provider = otps[o].provider])
    <3>1. /\ req[r].pc = "idle" /\ req'[r].pc = "verify.expire" /\ otps[o] # None
          /\ req'[r].tok = o /\ req'[r].login = otps[o].login
          /\ UNCHANGED <<states, otps, idns, pages>>
      BY <1>1, <1>2, <2>2, Constants DEF VerifyBegin, At, Begin, Fresh, Live, Return, tables
    <3>2. SaysOn(r) /\ CopiesOn(r) /\ OpensOwn(r) /\ ProvesOn(r)
      BY <3>1 DEF SaysOn, CopiesOn, OpensOwn, ProvesOn, SameWords
    <3> QED
      BY <3>2 DEF Tells
  <2> QED
    BY <1>2, <2>1, <2>2 DEF VerifyBegin, ReturnWithoutNonce
<1>3. CASE VerifyExpire(r)
  <2> DEFINE o == req[r].tok
  <2>1. CASE Return(r) /\ UNCHANGED otps
    BY <1>3, <2>1, ReturnTells DEF VerifyExpire
  <2>2. CASE /\ otps' = [otps EXCEPT ![o].spentBy = r]
             /\ req' = [req EXCEPT ![r].pc = "verify.state", ![r].tok = otps[o].state]
    <3>1. req[r].pc = "verify.expire" /\ o \in Request /\ otps[o] # None /\ otps[o] \in OtpRow
      BY <1>1, <1>3 DEF VerifyExpire, At, Locals, ServerInv, TypeOK, Maybe
    <3>2. /\ req'[r].pc = "verify.state" /\ req'[r].tok = otps[o].state
          /\ req'[r].login = req[r].login
      <4>1. req'[r] = [req[r] EXCEPT !.pc = "verify.state", !.tok = otps[o].state]
        BY <1>1, <2>2
      <4> QED
        BY <1>1, <4>1 DEF Local
    <3>3. /\ [otps[o] EXCEPT !.spentBy = r] # None
          /\ [otps[o] EXCEPT !.spentBy = r].spentBy = r
          /\ [otps[o] EXCEPT !.spentBy = r].login = otps[o].login
          /\ [otps[o] EXCEPT !.spentBy = r].provider = otps[o].provider
          /\ [otps[o] EXCEPT !.spentBy = r].state = otps[o].state
      <4>1. [otps[o] EXCEPT !.spentBy = r] \in OtpRow
        BY <3>1 DEF OtpRow, Maybe
      <4> QED
        BY <3>1, <4>1, RowAssumption DEF OtpRow
    <3>4. /\ otps'[o] # None /\ otps'[o].spentBy = r /\ otps'[o].login = otps[o].login
          /\ otps'[o].provider = otps[o].provider /\ otps'[o].state = otps[o].state
          /\ \A x \in Request : x # o => otps'[x] = otps[x]
      BY <2>2, <3>1, <3>3 DEF ServerInv, TypeOK
    <3> HIDE DEF o
    <3>5. SaysOn(r) /\ CopiesOn(r) /\ OpensOwn(r)
      BY <1>3, <3>1, <3>2 DEF VerifyExpire, SaysOn, CopiesOn, OpensOwn, SameWords
    <3>6. ProvesOn(r)
      BY <1>3, <3>1, <3>2, <3>4, Constants DEF VerifyExpire, ProvesOn, o
    <3> QED
      BY <3>5, <3>6 DEF Tells
  <2> QED
    BY <1>3, <2>1, <2>2 DEF VerifyExpire, ReturnWithoutNonce
<1>4. CASE VerifyState(r)
  <2>1. CASE Return(r)
    BY <1>4, <2>1, ReturnTells DEF VerifyState, tables
  <2>2. CASE /\ Live("state", states, req[r].tok)
             /\ req' = [req EXCEPT ![r].pc = "verify.set", ![r].copy = states[req[r].tok]]
    <3>1. /\ req[r].pc = "verify.state" /\ req[r].tok \in StateId /\ states[req[r].tok] # None
          /\ UNCHANGED <<states, otps, idns, pages>>
      BY <1>1, <1>4, <2>2 DEF VerifyState, At, Live, Locals, tables
    <3>2. /\ req'[r].pc = "verify.set" /\ req'[r].tok = req[r].tok
          /\ req'[r].copy = states[req[r].tok] /\ req'[r].login = req[r].login
      <4>1. req'[r] = [req[r] EXCEPT !.pc = "verify.set", !.copy = states[req[r].tok]]
        BY <1>1, <2>2
      <4> QED
        BY <1>1, <4>1 DEF Local
    <3>3. SaysOn(r) /\ CopiesOn(r) /\ OpensOwn(r) /\ ProvesOn(r)
      BY <3>1, <3>2 DEF SaysOn, CopiesOn, OpensOwn, ProvesOn, SameWords
    <3> QED
      BY <3>3 DEF Tells
  <2> QED
    BY <1>4, <2>1, <2>2 DEF VerifyState, ReturnWithoutNonce
<1>5. CASE VerifySet(r)
  <2>1. Return(r)
    BY <1>5 DEF VerifySet, ReturnWithoutNonce
  <2>2. CASE UNCHANGED <<states, pages>>
    BY <1>5, <2>1, <2>2, ReturnTells DEF VerifySet
  <2> DEFINE attrs == [req[r].copy EXCEPT !.login = req[r].login, !.provider = req[r].provider,
                                          !.challenge = r]
             page == [type |-> "create", state |-> req[r].tok, challenge |-> r,
                      login |-> req[r].login, allow |-> {}]
  <2>3. CASE SetAttrs(r, attrs) /\ pages' = pages \cup {page}
    <3>1. req[r].pc = "verify.set" /\ req'[r].pc = "done"
      BY <1>5, <2>1, Onward DEF VerifySet, At
    <3>2. /\ attrs \in StateRow /\ attrs.challenge = r /\ attrs.login = req[r].login
          /\ attrs.app = req[r].copy.app
      BY <1>1, <3>1 DEF Locals, StateRow, Maybe
    <3>3. page.challenge = r /\ page.login = req[r].login /\ page.state = req[r].tok
      OBVIOUS
    <3> HIDE DEF attrs, page
    <3>4. Draws(r)
      BY <3>1 DEF Draws, Drawn
    <3>5. SaysOn(r)
      BY <2>3, <3>1, <3>2, <3>4, WriteSays
    <3>6. CopiesOn(r) /\ OpensOwn(r) /\ ProvesOn(r)
      BY <1>5, <2>3, <3>1, <3>3 DEF VerifySet, CopiesOn, OpensOwn, ProvesOn
    <3> QED
      BY <3>5, <3>6 DEF Tells
  <2> QED
    BY <1>5, <2>2, <2>3 DEF VerifySet
<1> QED
  BY <1>2, <1>3, <1>4, <1>5 DEF VerifyNext

LEMMA CredentialTells ==
  ASSUME ServerInv, NEW r \in Request, CredentialNext(r)
  PROVE  Tells(r)
<1> USE DEF SignInStages, CredStages, PasskeyStages, PasswordStages, GoogleStages, CompleteStages,
            CopyStages, Ended
<1>1. req \in [Request -> Local] /\ req[r] \in Local /\ TypeOK
  BY DEF ServerInv, TypeOK
<1>2. ASSUME NEW s \in StateId, NEW k \in Cred, CredentialBegin(r, s, k) PROVE Tells(r)
  <2>1. /\ req[r].pc = "idle" /\ states[s] # None
        /\ req'[r].pc = "cred.find" /\ req'[r].tok = s /\ req'[r].copy = states[s]
    BY <1>1, <1>2 DEF CredentialBegin, At, Live, Begin, Fresh
  <2> QED
    BY <1>2, <2>1, Quiet DEF CredentialBegin, tables, browser
<1>3. CASE CredentialFind(r)
  <2>1. CASE Return(r)
    BY <1>3, <2>1, ReturnTells DEF CredentialFind, tables, browser
  <2>2. CASE GoTo(r, "cred.idn")
    BY <1>3, <2>2, Onward, Quiet DEF CredentialFind, At, tables, browser
  <2> QED
    BY <1>3, <2>1, <2>2 DEF CredentialFind
<1>4. CASE CredentialIdn(r)
  <2>1. CASE Return(r) /\ UNCHANGED idns
    BY <1>4, <2>1, ReturnTells DEF CredentialIdn, browser
  <2>2. CASE /\ NewIdn(r, req[r].copy.app, req[r].copy.login, "passkey", req[r].copy.challenge)
             /\ req' = [req EXCEPT ![r].pc = "cred.src", ![r].idn = r]
    <3>1. req[r].pc = "cred.idn" /\ UNCHANGED <<states, otps, pages>>
      BY <1>4 DEF CredentialIdn, At, browser
    <3>2. req'[r].pc = "cred.src" /\ req'[r].copy = req[r].copy /\ req'[r].tok = req[r].tok
      <4>1. req'[r] = [req[r] EXCEPT !.pc = "cred.src", !.idn = r]
        BY <1>1, <2>2
      <4> QED
        BY <1>1, <4>1 DEF Local
    <3>3. \A i \in Request : IF i = r THEN /\ idns'[i].app = req[r].copy.app
                                           /\ idns'[i].login = req[r].copy.login
                                      ELSE idns'[i] = idns[i]
      BY <1>1, <2>2 DEF NewIdn, TypeOK, IdnId
    <3>4. ~LoginTaken(req[r].copy.app, req[r].copy.login)
      BY <2>2 DEF NewIdn
    <3>5. SaysOn(r) /\ CopiesOn(r) /\ OpensOwn(r) /\ ProvesOn(r)
      BY <3>1, <3>2, <3>3, <3>4 DEF SaysOn, CopiesOn, OpensOwn, ProvesOn, SameWords
    <3> QED
      BY <3>5 DEF Tells
  <2> QED
    BY <1>4, <2>1, <2>2 DEF CredentialIdn
<1>5. CASE CredentialSrc(r)
  <2>1. CASE Return(r)
    BY <1>5, <2>1, ReturnTells DEF CredentialSrc, browser
  <2>2. CASE GoTo(r, "cred.expire")
    BY <1>5, <2>2, Onward, Quiet DEF CredentialSrc, At, browser
  <2> QED
    BY <1>5, <2>1, <2>2 DEF CredentialSrc
<1>6. CASE CredentialExpire(r)
  BY <1>6, ExpireTells DEF CredentialExpire
<1>7. CASE NewCode(r, "cred.code")
  BY <1>7, ReturnTells DEF NewCode, browser
<1> QED
  BY <1>2, <1>3, <1>4, <1>5, <1>6, <1>7 DEF CredentialNext

LEMMA PasskeyTells ==
  ASSUME ServerInv, NEW r \in Request, PasskeyNext(r)
  PROVE  Tells(r)
<1> USE DEF SignInStages, CredStages, PasskeyStages, PasswordStages, GoogleStages, CompleteStages,
            CopyStages, Ended
<1>1. req \in [Request -> Local] /\ req[r] \in Local /\ TypeOK
  BY DEF ServerInv, TypeOK
<1>2. ASSUME NEW s \in StateId, NEW k \in Cred, NEW n \in Count, PasskeyBegin(r, s, k, n)
      PROVE  Tells(r)
  <2>1. /\ req[r].pc = "idle" /\ states[s] # None
        /\ req'[r].pc = "passkey.src" /\ req'[r].tok = s /\ req'[r].copy = states[s]
    BY <1>1, <1>2 DEF PasskeyBegin, At, Live, Begin, Fresh
  <2> QED
    BY <1>2, <2>1, Quiet DEF PasskeyBegin, tables, browser
<1>3. CASE PasskeySrc(r)
  <2>1. CASE Return(r)
    BY <1>3, <2>1, ReturnTells DEF PasskeySrc, tables, browser
  <2>2. ASSUME NEW src, req' = [req EXCEPT ![r].pc = "passkey.count", ![r].src = src, ![r].idn = src.idn]
        PROVE  Tells(r)
    <3>1. req'[r].pc = "passkey.count" /\ req'[r].copy = req[r].copy /\ req'[r].tok = req[r].tok
      <4>1. req'[r] = [req[r] EXCEPT !.pc = "passkey.count", !.src = src, !.idn = src.idn]
        BY <1>1, <2>2
      <4> QED
        BY <1>1, <4>1 DEF Local
    <3> QED
      BY <1>3, <3>1, Quiet DEF PasskeySrc, At, tables, browser
  <2> QED
    BY <1>3, <2>1, <2>2 DEF PasskeySrc
<1>4. CASE PasskeyCount(r)
  <2>1. CASE Return(r)
    BY <1>4, <2>1, ReturnTells DEF PasskeyCount, browser
  <2>2. CASE GoTo(r, "passkey.expire")
    BY <1>4, <2>2, Onward, Quiet DEF PasskeyCount, At, browser
  <2> QED
    BY <1>4, <2>1, <2>2 DEF PasskeyCount
<1>5. CASE PasskeyExpire(r)
  BY <1>5, ExpireTells DEF PasskeyExpire
<1>6. CASE NewCode(r, "passkey.code")
  BY <1>6, ReturnTells DEF NewCode, browser
<1> QED
  BY <1>2, <1>3, <1>4, <1>5, <1>6 DEF PasskeyNext

LEMMA PasswordTells ==
  ASSUME ServerInv, NEW r \in Request, PasswordNext(r)
  PROVE  Tells(r)
<1> USE DEF SignInStages, CredStages, PasskeyStages, PasswordStages, GoogleStages, CompleteStages,
            CopyStages, Ended
<1>1. req \in [Request -> Local] /\ req[r] \in Local
  BY DEF ServerInv, TypeOK
<1>2. ASSUME NEW s \in StateId, NEW l \in Login, PasswordBegin(r, s, l) PROVE Tells(r)
  <2>1. /\ req[r].pc = "idle" /\ states[s] # None
        /\ req'[r].pc = "password.src" /\ req'[r].tok = s /\ req'[r].copy = states[s]
    BY <1>1, <1>2 DEF PasswordBegin, At, Live, Begin, Fresh
  <2> QED
    BY <1>2, <2>1, Quiet DEF PasswordBegin, tables, browser
<1>3. CASE PasswordSrc(r)
  <2>1. CASE Return(r)
    BY <1>3, <2>1, ReturnTells DEF PasswordSrc, tables, browser
  <2>2. ASSUME NEW src, req' = [req EXCEPT ![r].pc = "password.expire", ![r].idn = src.idn]
        PROVE  Tells(r)
    <3>1. req'[r].pc = "password.expire" /\ req'[r].copy = req[r].copy /\ req'[r].tok = req[r].tok
      <4>1. req'[r] = [req[r] EXCEPT !.pc = "password.expire", !.idn = src.idn]
        BY <1>1, <2>2
      <4> QED
        BY <1>1, <4>1 DEF Local
    <3> QED
      BY <1>3, <3>1, Quiet DEF PasswordSrc, At, tables, browser
  <2> QED
    BY <1>3, <2>1, <2>2 DEF PasswordSrc
<1>4. CASE PasswordExpire(r)
  BY <1>4, ExpireTells DEF PasswordExpire
<1>5. CASE NewCode(r, "password.code")
  BY <1>5, ReturnTells DEF NewCode, browser
<1> QED
  BY <1>2, <1>3, <1>4, <1>5 DEF PasswordNext

LEMMA GoogleTells ==
  ASSUME ServerInv, NEW r \in Request, GoogleNext(r)
  PROVE  Tells(r)
<1> USE DEF SignInStages, CredStages, PasskeyStages, PasswordStages, GoogleStages, CompleteStages,
            CopyStages, Ended
<1>1. req \in [Request -> Local] /\ req[r] \in Local /\ TypeOK
  BY DEF ServerInv, TypeOK
<1>2. ASSUME NEW s \in StateId, NEW p \in Provider, NEW g \in Login, NEW l \in Login,
             GoogleBegin(r, s, p, g, l)
      PROVE  Tells(r)
  <2>1. /\ req[r].pc = "idle" /\ states[s] # None
        /\ req'[r].pc = "google.expire" /\ req'[r].tok = s /\ req'[r].copy = states[s]
    BY <1>1, <1>2 DEF GoogleBegin, At, Live, Begin, Fresh
  <2> QED
    BY <1>2, <2>1, Quiet DEF GoogleBegin, tables, browser
<1>3. CASE GoogleExpire(r)
  BY <1>3, ExpireTells DEF GoogleExpire
<1>4. CASE GoogleFind(r)
  <2>1. CASE GoTo(r, "google.idn")
    BY <1>4, <2>1, Onward, Quiet DEF GoogleFind, At, tables, browser
  <2>2. ASSUME NEW src, req' = [req EXCEPT ![r].pc = "google.code", ![r].idn = src.idn]
        PROVE  Tells(r)
    <3>1. req'[r].pc = "google.code" /\ req'[r].copy = req[r].copy /\ req'[r].tok = req[r].tok
      <4>1. req'[r] = [req[r] EXCEPT !.pc = "google.code", !.idn = src.idn]
        BY <1>1, <2>2
      <4> QED
        BY <1>1, <4>1 DEF Local
    <3> QED
      BY <1>4, <3>1, Quiet DEF GoogleFind, At, tables, browser
  <2> QED
    BY <1>4, <2>1, <2>2 DEF GoogleFind
<1>5. CASE GoogleIdn(r)
  <2> DEFINE row == [app |-> AppOf[req[r].provider], login |-> req[r].login, via |-> "google",
                     challenge |-> None]
  <2>1. CASE Return(r) /\ UNCHANGED idns
    BY <1>5, <2>1, ReturnTells DEF GoogleIdn, browser
  <2>2. CASE /\ idns' = [idns EXCEPT ![r] = row]
             /\ req' = [req EXCEPT ![r].pc = "google.src", ![r].idn = r]
    <3>1. req[r].pc = "google.idn" /\ UNCHANGED <<states, otps, pages>>
      BY <1>5 DEF GoogleIdn, At, browser
    <3>2. req'[r].pc = "google.src" /\ req'[r].copy = req[r].copy /\ req'[r].tok = req[r].tok
      <4>1. req'[r] = [req[r] EXCEPT !.pc = "google.src", !.idn = r]
        BY <1>1, <2>2
      <4> QED
        BY <1>1, <4>1 DEF Local
    <3>3. \A i \in Request : IF i = r THEN idns'[i].via = "google" ELSE idns'[i] = idns[i]
      BY <1>1, <2>2 DEF TypeOK, IdnId
    <3>4. SaysOn(r) /\ CopiesOn(r) /\ OpensOwn(r) /\ ProvesOn(r)
      BY <3>1, <3>2, <3>3 DEF SaysOn, CopiesOn, OpensOwn, ProvesOn, SameWords
    <3> QED
      BY <3>4 DEF Tells
  <2> QED
    BY <1>5, <2>1, <2>2 DEF GoogleIdn, NewIdn
<1>6. CASE GoogleSrc(r)
  <2>1. CASE Return(r)
    BY <1>6, <2>1, ReturnTells DEF GoogleSrc, browser
  <2>2. CASE GoTo(r, "google.code")
    BY <1>6, <2>2, Onward, Quiet DEF GoogleSrc, At, browser
  <2> QED
    BY <1>6, <2>1, <2>2 DEF GoogleSrc
<1>7. CASE NewCode(r, "google.code")
  BY <1>7, ReturnTells DEF NewCode, browser
<1> QED
  BY <1>2, <1>3, <1>4, <1>5, <1>6, <1>7 DEF GoogleNext

LEMMA TokenTells ==
  ASSUME ServerInv, NEW r \in Request, TokenNext(r)
  PROVE  Tells(r)
<1> USE DEF SignInStages, CredStages, PasskeyStages, PasswordStages, GoogleStages, CompleteStages,
            CopyStages, Ended
<1>1. req \in [Request -> Local]
  BY DEF ServerInv, TypeOK
<1>2. ASSUME NEW c \in Request, NEW a \in App, TokenBegin(r, c, a) PROVE Tells(r)
  <2>1. req[r].pc = "idle" /\ req'[r].pc = "token.expire"
    BY <1>1, <1>2 DEF TokenBegin, At, Begin, Fresh
  <2> QED
    BY <1>2, <2>1, Quiet DEF TokenBegin, tables, browser
<1>3. CASE TokenExpire(r)
  <2>1. CASE Return(r)
    BY <1>3, <2>1, ReturnTells DEF TokenExpire, browser
  <2>2. CASE GoTo(r, "token.insert")
    BY <1>3, <2>2, Onward, Quiet DEF TokenExpire, At, browser
  <2> QED
    BY <1>3, <2>1, <2>2 DEF TokenExpire
<1>4. CASE TokenInsert(r)
  BY <1>4, Onward, Quiet DEF TokenInsert, At, browser
<1>5. CASE TokenSign(r)
  BY <1>5, ReturnTells DEF TokenSign, tables, browser
<1> QED
  BY <1>2, <1>3, <1>4, <1>5 DEF TokenNext

LEMMA RequestTells ==
  ASSUME ServerInv, NEW r \in Request, Serve(r) \/ Fail(r)
  PROVE  Leaves(r) /\ Tells(r)
<1>1. CASE Serve(r)
  BY <1>1, SignInStep, SignUpStep, VerifyStep, CredentialStep, PasskeyStep, PasswordStep, GoogleStep,
     TokenStep, SignInTells, SignUpTells, VerifyTells, CredentialTells, PasskeyTells, PasswordTells,
     GoogleTells, TokenTells DEF Serve, Kept
<1>2. CASE Fail(r)
  <2>1. Becomes(r, Failed) /\ req[r].pc \notin Ended /\ TypeOK
    BY <1>2, Constants, Assigns DEF Fail, ServerInv, Ended
  <2>2. Leaves(r)
    BY <1>2, <2>1, Looks DEF Fail, TypeOK, browser
  <2>3. Tells(r)
    BY <1>2, <2>1, Quiet, Constants DEF Fail, Becomes, tables, browser, Ended
  <2> QED
    BY <2>2, <2>3
<1> QED
  BY <1>1, <1>2

-------------------------------------------------------------------------------
\* Challenges.

\* Nothing is said of a challenge that was not said before, but by the request
\* that draws it.
LEMMA SaysLittle ==
  ASSUME ServerInv, NEW r \in Request, Leaves(r), Tells(r),
         NEW c \in Request, NEW l \in Maybe(Login), Says(c, l)'
  PROVE  Says(c, l) \/ (Draws(r) /\ c = r /\ l = req[r].login)
<1>1. ASSUME NEW s \in StateId, states'[s] # None, states'[s].challenge = c, states'[s].login = l
      PROVE  Says(c, l) \/ (Draws(r) /\ c = r /\ l = req[r].login)
  BY <1>1 DEF Tells, SaysOn, SameWords, Says
<1>2. ASSUME NEW q \in Request, req'[q].pc \in CopyStages,
             req'[q].copy.challenge = c, req'[q].copy.login = l
      PROVE  Says(c, l)
  BY <1>2 DEF Leaves, Tells, CopiesOn, Says
<1> QED
  BY <1>1, <1>2 DEF Says

LEMMA ChallengeStep ==
  ASSUME ServerInv, ChallengeInv, NEW r \in Request, Leaves(r), Tells(r)
  PROVE  ChallengeInv'
<1>1. \A c \in Request : Drawn(c) => Drawn(c)'
  BY DEF Leaves, Tells, OpensOwn, Drawn
<1>2. ASSUME NEW c \in Request, NEW l \in Maybe(Login), Says(c, l)' PROVE Drawn(c)'
  BY <1>1, <1>2, SaysLittle DEF ChallengeInv, Draws
\* A challenge that is drawn in this step has not been said of any login.
<1>3. Draws(r) => \A l \in Maybe(Login) : ~Says(r, l)
  BY DEF ChallengeInv, Draws, Drawn, Ended
<1>4. ASSUME NEW q \in Request, req'[q].pc = "signin.page" PROVE OnlyFor(q, req[q].login)'
  <2>1. CASE q = r
    BY <1>3, <1>4, <2>1, SaysLittle DEF Tells, OpensOwn, Draws, OnlyFor
  <2>2. CASE q # r
    BY <1>4, <2>2, SaysLittle DEF ChallengeInv, Leaves, OnlyFor
  <2> QED
    BY <2>1, <2>2
<1>5. ASSUME NEW pg \in pages'
      PROVE  /\ states'[pg.state] # None /\ req'[pg.challenge].pc \in Ended
             /\ OnlyFor(pg.challenge, pg.login)'
  <2>1. CASE pg \in pages
    <3>1. /\ pg.state \in StateId /\ pg.challenge \in Request /\ states[pg.state] # None
          /\ req[pg.challenge].pc \in Ended /\ OnlyFor(pg.challenge, pg.login)
      BY <2>1 DEF ChallengeInv, ServerInv, TypeOK, Page
    <3>2. pg.challenge # r
      BY <3>1 DEF Leaves
    <3> QED
      BY <3>1, <3>2, SaysLittle DEF Leaves, OnlyFor
  <2>2. CASE pg \notin pages
    <3>1. /\ pg.challenge = r /\ pg.login = req[r].login /\ pg.state = req[r].tok
          /\ req'[r].pc \in Ended
          /\ (req[r].pc = "signin.page" /\ UNCHANGED states) \/ req[r].pc = "verify.set"
      BY <1>5, <2>2 DEF Tells, OpensOwn
    <3>2. req[r].tok \in StateId /\ states[req[r].tok] # None
      BY <3>1 DEF ServerInv, Mine, Locals, CopyStages, SignInStages
    <3>3. CASE req[r].pc = "signin.page"
      BY <3>1, <3>2, <3>3, SaysLittle DEF ChallengeInv, Leaves, OnlyFor, Draws
    <3>4. CASE req[r].pc = "verify.set"
      <4>1. \A l \in Maybe(Login) : ~Says(r, l)
        BY <3>4 DEF ChallengeInv, Drawn, Ended
      <4> QED
        BY <3>1, <3>2, <4>1, SaysLittle DEF Leaves, OnlyFor
    <3> QED
      BY <3>1, <3>3, <3>4
  <2> QED
    BY <2>1, <2>2
<1> QED
  BY <1>2, <1>4, <1>5 DEF ChallengeInv

-------------------------------------------------------------------------------
\* Proofs of owning a login.

LEMMA ProvenStays ==
  ASSUME NEW r \in Request, Tells(r), NEW l, NEW s, Proven(l, s)
  PROVE  Proven(l, s)'
BY DEF Tells, ProvesOn, Proven

LEMMA ProofStep ==
  ASSUME ServerInv, ProofInv, NEW r \in Request, Leaves(r), Tells(r)
  PROVE  ProofInv'
<1>1. ASSUME NEW s \in StateId, states[s] # None
      PROVE  states'[s] # None /\ states'[s].app = states[s].app
  <2>1. states'[s] # None
    BY <1>1 DEF Leaves
  <2>2. req[r].pc \in CopyStages => req[r].copy.app = states[req[r].tok].app
    BY DEF ProofInv
  <2> QED
    BY <2>1, <2>2 DEF Tells, SaysOn, SameWords
<1>2. ASSUME NEW q \in Request, req'[q].pc \in CopyStages
      PROVE  req'[q].copy.app = states'[req'[q].tok].app
  <2>1. CASE req[q].pc \in CopyStages /\ req'[q].copy = req[q].copy /\ req'[q].tok = req[q].tok
    <3>1. req[q].tok \in StateId /\ states[req[q].tok] # None
      BY <2>1 DEF ServerInv, Mine, Locals
    <3>2. req[q].copy.app = states[req[q].tok].app
      BY <2>1 DEF ProofInv
    <3> QED
      BY <1>1, <2>1, <3>1, <3>2
  <2>2. CASE q = r /\ req'[r].tok \in StateId /\ states[req'[r].tok] # None
             /\ req'[r].copy = states[req'[r].tok]
    BY <1>1, <2>2
  <2> QED
    BY <1>2, <2>1, <2>2 DEF Leaves, Tells, CopiesOn
<1>3. ASSUME NEW q \in Request, req'[q].pc = "verify.expire"
      PROVE  req'[q].login = otps'[req'[q].tok].login
  <2>1. CASE q = r
    BY <1>3, <2>1 DEF Tells, ProvesOn
  <2>2. CASE q # r
    <3>1. req[q].tok \in Request /\ otps[req[q].tok] # None /\ req'[q] = req[q]
      BY <1>3, <2>2 DEF Leaves, ServerInv, Mine, Locals
    <3> QED
      BY <1>3, <3>1 DEF ProofInv, Tells, ProvesOn
  <2> QED
    BY <2>1, <2>2
<1>4. ASSUME NEW q \in Request, req'[q].pc \in {"verify.state", "verify.set"}
      PROVE  Proven(req[q].login, req[q].tok)'
  <2>1. CASE q # r
    BY <1>4, <2>1, ProvenStays DEF ProofInv, Leaves
  <2>2. CASE req[r].pc = "verify.state" /\ req'[r].login = req[r].login /\ req'[r].tok = req[r].tok /\ q = r
    BY <2>2, ProvenStays DEF ProofInv
  <2>3. CASE /\ q = r /\ req[r].pc = "verify.expire" /\ req'[r].login = req[r].login
             /\ req'[r].tok = otps[req[r].tok].state /\ otps'[req[r].tok].spentBy # None
    <3>1. req[r].tok \in Request /\ otps[req[r].tok] # None /\ req[r].login = otps[req[r].tok].login
      BY <2>3 DEF ServerInv, Mine, Locals, ProofInv
    <3> QED
      BY <2>3, <3>1 DEF Tells, ProvesOn, Proven
  <2> QED
    BY <1>4, <2>1, <2>2, <2>3 DEF Tells, ProvesOn
<1> QED
  BY <1>2, <1>3, <1>4 DEF ProofInv

-------------------------------------------------------------------------------
\* The whole server.

LEMMA ChallengeInit ==
  ASSUME Init
  PROVE  ChallengeInv /\ ProofInv
<1> USE DEF SignInStages, CredStages, PasskeyStages, PasswordStages, GoogleStages, CompleteStages,
            CopyStages
<1>1. /\ \A s \in StateId : states[s] = None
      /\ \A r \in Request : req[r].pc = "idle"
      /\ pages = {}
  BY DEF Init, Fresh
<1>2. ChallengeInv
  BY <1>1 DEF ChallengeInv, Says
<1>3. ProofInv
  BY <1>1 DEF ProofInv
<1> QED
  BY <1>2, <1>3

\* An authorization request adds a state that says nothing of any challenge.
LEMMA AuthorizeTells ==
  ASSUME ServerInv, ChallengeInv, ProofInv, NEW s \in StateId, NEW a \in App, Authorize(s, a)
  PROVE  ChallengeInv' /\ ProofInv'
<1>1. /\ states[s] = None /\ states'[s] = NewAuthState(a)
      /\ \A x \in StateId : x # s => states'[x] = states[x]
      /\ UNCHANGED <<otps, idns, req, pages>>
  BY DEF Authorize, ServerInv, TypeOK, browser
<1>2. states'[s].challenge = None
  BY <1>1 DEF NewAuthState
<1>3. \A x \in StateId : states[x] # None => states'[x] = states[x]
  BY <1>1
<1>4. \A c \in Request, l \in Maybe(Login) : Says(c, l)' => Says(c, l)
  BY <1>1, <1>2, Constants DEF Says
<1>5. \A r \in Request : req[r].pc \in CopyStages => req[r].tok \in StateId /\ states[req[r].tok] # None
  BY DEF ServerInv, Mine, Locals
<1>6. \A pg \in pages : pg.state \in StateId /\ pg.challenge \in Request
  BY DEF ServerInv, TypeOK, Page
<1>7. ChallengeInv'
  BY <1>1, <1>3, <1>4, <1>6 DEF ChallengeInv, OnlyFor, Drawn
<1>8. ProofInv'
  <2>1. \A r \in Request : req[r].pc \in CopyStages => states'[req[r].tok] = states[req[r].tok]
    BY <1>3, <1>5
  <2> QED
    BY <1>1, <2>1 DEF ProofInv, Proven
<1> QED
  BY <1>7, <1>8

\* Time passes, or nothing happens.
LEMMA IdleTells ==
  ASSUME ChallengeInv, ProofInv, UNCHANGED <<tables, req, browser>>
  PROVE  ChallengeInv' /\ ProofInv'
BY DEF ChallengeInv, OnlyFor, Says, Drawn, ProofInv, Proven, tables, browser

\* The inductive invariant of challenges and of one-time codes, relative to
\* ServerInv.  It asks nothing of the requests that post a credential or an
\* assertion: they write neither a challenge nor a login.
THEOREM ChallengeInvariance == Spec => [](ChallengeInv /\ ProofInv)
<1>1. Init => ChallengeInv /\ ProofInv
  BY ChallengeInit
<1>2. ServerInv /\ (ChallengeInv /\ ProofInv) /\ [Next]_vars => (ChallengeInv /\ ProofInv)'
  <2> SUFFICES ASSUME ServerInv, ChallengeInv, ProofInv, [Next]_vars
               PROVE  ChallengeInv' /\ ProofInv'
    OBVIOUS
  <2>1. ASSUME NEW r \in Request, Serve(r) \/ Fail(r) PROVE ChallengeInv' /\ ProofInv'
    BY <2>1, RequestTells, ChallengeStep, ProofStep
  <2>2. CASE Lapse \/ UNCHANGED vars
    BY <2>2, IdleTells DEF Lapse, vars
  <2> QED
    BY <2>1, <2>2, AuthorizeTells DEF Next
<1> QED
  BY <1>1, <1>2, ServerInvariance, PTL DEF Spec

\* As long as the challenge of a page is the one in its state, the login of the
\* state is the one the page was opened for, for any number of tabs that rewrite
\* the state (writePasskeySignInRedirect and signUpHandler, SetAttrs).
THEOREM LoginOfChallenge == Spec => []ChallengeOwnsLogin
<1>1. ServerInv /\ ChallengeInv => ChallengeOwnsLogin
  <2> SUFFICES ASSUME ServerInv, ChallengeInv, NEW pg \in pages,
                      states[pg.state].challenge = pg.challenge
               PROVE  states[pg.state].login = pg.login
    BY DEF ChallengeOwnsLogin
  <2>1. /\ pg.state \in StateId /\ states[pg.state] # None
        /\ OnlyFor(pg.challenge, pg.login)
    BY DEF ServerInv, TypeOK, Page, ChallengeInv
  <2>2. states[pg.state].login \in Maybe(Login)
    BY <2>1 DEF ServerInv, TypeOK, StateRow, Maybe
  <2> QED
    BY <2>1, <2>2 DEF OnlyFor, Says
<1> QED
  BY <1>1, ServerInvariance, ChallengeInvariance, PTL

===============================================================================
