------------------------------ MODULE SourceProofs ------------------------------
(***************************************************************************)
(* Theorems about the identity sources: who an auth code is for, of which  *)
(* app, the signature counters, which passkeys belong to which page, and   *)
(* where the logins of new identities come from.                           *)
(*                                                                         *)
(* A request reads a source in one statement and relies on it in later     *)
(* ones, when other requests may have changed the row.  What it may rely   *)
(* on: the row stays under its key, and while its revision is the one that *)
(* was read, so is everything else in it.                                  *)
(***************************************************************************)
EXTENDS ChallengeProofs

\* The identity and the provider of the request have been linked by a source.
LinkedStages == {"cred.expire", "cred.code", "passkey.count", "passkey.expire", "passkey.code",
                 "password.expire", "password.code", "google.code"}

Linked(i, p) == \E src \in srcs : src.idn = i /\ src.provider = p

SameKey(x, y) == x.idn = y.idn /\ x.provider = y.provider /\ x.sub = y.sub

\* A row of the table that has not fallen behind the copy, and is the copy if
\* it has the same revision.
UpTo(copy, row) == SameKey(copy, row) /\ copy.rev <= row.rev /\ (copy.rev = row.rev => copy = row)

Sourced(r) ==
  /\ req[r].pc \in LinkedStages => Linked(req[r].idn, req[r].provider)
  /\ req[r].pc = "passkey.count" => /\ \E row \in srcs : UpTo(req[r].src, row)
                                    /\ CountOk(req[r].src.count, req[r].count)
  /\ codes[r] # None => Linked(codes[r].sub, codes[r].provider)

\* "idn_srcs.pkey" and "idn_srcs.unique".
KeysUnique ==
  \A x, y \in srcs : x.provider = y.provider /\ (x.idn = y.idn \/ x.sub = y.sub) => x = y

SourceInv == KeysUnique /\ \A r \in Request : Sourced(r)

-------------------------------------------------------------------------------
\* What a step may do to a source: leave it, or advance it.
Advances(old, new) ==
  \/ new = old
  \/ /\ SameKey(old, new) /\ new.rev > old.rev
     /\ new.count > old.count \/ (new.count = 0 /\ old.count = 0)

Grows == \A old \in srcs : \E new \in srcs' : Advances(old, new)

\* What an action of request r has to show.
Sources(r) ==
  /\ Grows
  /\ KeysUnique'
  /\ Sourced(r)'
  /\ \A c \in Request :
       c # r /\ codes'[c] # None =>
         /\ codes[c] # None
         /\ codes'[c].sub = codes[c].sub /\ codes'[c].provider = codes[c].provider

LEMMA LinksStay ==
  ASSUME Grows, NEW i, NEW p, Linked(i, p)
  PROVE  Linked(i, p)'
BY DEF Grows, Linked, Advances, SameKey

LEMMA RowsAdvance ==
  ASSUME Grows, TypeOK, TypeOK', NEW copy \in SrcRow, NEW row \in srcs, UpTo(copy, row)
  PROVE  \E new \in srcs' : UpTo(copy, new)
<1>1. PICK new \in srcs' : Advances(row, new)
  BY DEF Grows
<1>2. copy.rev \in Nat /\ row.rev \in Nat /\ new.rev \in Nat
  BY DEF TypeOK, SrcRow
<1>3. UpTo(copy, new)
  BY <1>1, <1>2 DEF Advances, UpTo, SameKey
<1> QED
  BY <1>3

LEMMA OthersSourced ==
  ASSUME ServerInv, ServerInv', SourceInv, NEW r \in Request, Leaves(r), Sources(r)
  PROVE  SourceInv'
<1>1. ASSUME NEW q \in Request, q # r PROVE Sourced(q)'
  <2>1. req'[q] = req[q] /\ Sourced(q)
    BY <1>1 DEF Leaves, SourceInv
  <2>2. req[q].pc \in LinkedStages => Linked(req[q].idn, req[q].provider)'
    BY <2>1, LinksStay DEF Sourced, Sources
  <2>3. req[q].pc = "passkey.count" => \E row \in srcs' : UpTo(req[q].src, row)
    <3> SUFFICES ASSUME req[q].pc = "passkey.count" PROVE \E row \in srcs' : UpTo(req[q].src, row)
      OBVIOUS
    <3>1. req[q].src \in SrcRow
      BY DEF ServerInv, Mine, Locals
    <3>2. PICK row \in srcs : UpTo(req[q].src, row)
      BY <2>1 DEF Sourced
    <3> QED
      BY <3>1, <3>2, RowsAdvance DEF Sources, ServerInv
  <2>4. codes'[q] # None => Linked(codes[q].sub, codes[q].provider)'
    BY <1>1, <2>1, LinksStay DEF Sourced, Sources
  <2>5. codes'[q] # None => codes'[q].sub = codes[q].sub /\ codes'[q].provider = codes[q].provider
    BY <1>1 DEF Sources
  <2> QED
    BY <2>1, <2>2, <2>3, <2>4, <2>5 DEF Sourced, Linked
<1> QED
  BY <1>1 DEF SourceInv, Sources

-------------------------------------------------------------------------------
\* Steps that leave sources and codes alone.

LEMMA NoSource ==
  ASSUME ServerInv, SourceInv, NEW r \in Request, UNCHANGED <<srcs, codes>>,
         \/ req'[r].pc \notin LinkedStages
         \/ /\ req'[r].pc # "passkey.count"
            /\ req[r].pc \in LinkedStages
            /\ req'[r].idn = req[r].idn /\ req'[r].provider = req[r].provider
         \/ /\ req'[r].pc # "passkey.count"
            /\ Linked(req'[r].idn, req'[r].provider)
  PROVE  Sources(r)
<1>1. Grows /\ KeysUnique'
  BY DEF Grows, Advances, SourceInv, KeysUnique
<1>2. Sourced(r)'
  BY DEF SourceInv, Sourced, Linked, LinkedStages
<1> QED
  BY <1>1, <1>2 DEF Sources

\* A step of a request that ends without a code, or goes where no source is needed.
LEMMA Elsewhere ==
  ASSUME ServerInv, SourceInv, NEW r \in Request, UNCHANGED <<srcs, codes>>,
         Return(r) \/ \E pc \in Stage \ LinkedStages : GoTo(r, pc)
  PROVE  Sources(r)
<1>1. req \in [Request -> Local] /\ req[r] \in Local
  BY DEF ServerInv, TypeOK
<1>2. req'[r].pc \notin LinkedStages
  BY <1>1, Constants DEF Return, GoTo, Local, LinkedStages
<1> QED
  BY <1>2, NoSource

LEMMA ExpireSources ==
  ASSUME ServerInv, SourceInv, NEW r \in Request, NEW from, NEW to, ExpireState(r, from, to),
         \/ from = "cred.expire" /\ to = "cred.code"
         \/ from = "passkey.expire" /\ to = "passkey.code"
         \/ from = "password.expire" /\ to = "password.code"
         \/ from = "google.expire" /\ to = "google.find"
  PROVE  Sources(r)
<1>1. CASE Return(r)
  BY <1>1, Elsewhere DEF ExpireState
<1>2. CASE GoTo(r, to)
  <2>1. req'[r] = [req[r] EXCEPT !.pc = to] /\ req[r] \in Local /\ req[r].pc = from
    BY <1>2 DEF GoTo, ExpireState, At, ServerInv, TypeOK
  <2>2. req'[r].pc = to /\ req'[r].idn = req[r].idn /\ req'[r].provider = req[r].provider
    BY <2>1 DEF Local
  <2> QED
    BY <2>1, <2>2, NoSource DEF ExpireState, LinkedStages
<1> QED
  BY <1>1, <1>2 DEF ExpireState

\* The code is for the identity the request has found or made.
LEMMA CodeSources ==
  ASSUME ServerInv, SourceInv, NEW r \in Request, NEW from, NewCode(r, from),
         from \in {"cred.code", "passkey.code", "password.code", "google.code"}
  PROVE  Sources(r)
<1>1. Linked(req[r].idn, req[r].provider) /\ UNCHANGED srcs
  BY DEF NewCode, At, SourceInv, Sourced, LinkedStages
<1>2. /\ codes'[r].sub = req[r].idn /\ codes'[r].provider = req[r].provider
      /\ \A c \in Request : c # r => codes'[c] = codes[c]
  BY DEF NewCode, ServerInv, TypeOK
<1>3. req'[r].pc = "done"
  BY Constants DEF NewCode, Return, ServerInv, TypeOK
<1>4. Sourced(r)'
  BY <1>1, <1>2, <1>3 DEF Sourced, Linked, LinkedStages
<1>5. Grows /\ KeysUnique'
  BY <1>1 DEF Grows, Advances, SourceInv, KeysUnique
<1> QED
  BY <1>2, <1>4, <1>5 DEF Sources

\* A new source links the identity that q stands for with its provider.
LEMMA NewSource ==
  ASSUME ServerInv, SourceInv, NEW r \in Request, NEW n, NewIdnSrc(req[r], n), UNCHANGED codes,
         NEW pc \in {"cred.expire", "google.code"}, GoTo(r, pc), codes[r] = None
  PROVE  Sources(r)
<1> DEFINE row == [idn |-> req[r].idn, provider |-> req[r].provider, sub |-> req[r].sub,
                   count |-> n, rev |-> 1]
<1>1. req'[r] = [req[r] EXCEPT !.pc = pc] /\ req[r] \in Local
  BY DEF GoTo, ServerInv, TypeOK
<1>2. req'[r].pc = pc /\ req'[r].idn = req[r].idn /\ req'[r].provider = req[r].provider
  BY <1>1 DEF Local
<1>3. /\ srcs' = srcs \cup {row}
      /\ row.idn = req[r].idn /\ row.provider = req[r].provider /\ row.sub = req[r].sub
  BY DEF NewIdnSrc
<1>4. \A src \in srcs : src.provider = row.provider => src.idn # row.idn /\ src.sub # row.sub
  BY <1>3 DEF NewIdnSrc, SrcRefused
<1> HIDE DEF row
<1>5. Grows
  BY <1>3 DEF Grows, Advances
<1>6. KeysUnique'
  BY <1>3, <1>4 DEF SourceInv, KeysUnique
<1>7. Sourced(r)'
  BY <1>2, <1>3 DEF Sourced, Linked
<1> QED
  BY <1>5, <1>6, <1>7 DEF Sources

-------------------------------------------------------------------------------
\* The step of cbPasskey that updates the counter: the row that has the
\* revision of the copy is the copy.
LEMMA CountSources ==
  ASSUME ServerInv, SourceInv, NEW r \in Request, PasskeyCount(r)
  PROVE  Sources(r)
<1> DEFINE old == req[r].src
           new == [old EXCEPT !.count = req[r].count, !.rev = @ + 1]
<1>1. CASE Return(r) /\ UNCHANGED srcs
  BY <1>1, Elsewhere DEF PasskeyCount
<1>2. ASSUME NEW row \in srcs, row.idn = old.idn, row.provider = old.provider, row.rev = old.rev,
             srcs' = (srcs \ {row}) \cup {new}, GoTo(r, "passkey.expire")
      PROVE  Sources(r)
  <2>1. /\ req[r].pc = "passkey.count" /\ old \in SrcRow /\ req[r].count \in Count
        /\ req[r] \in Local /\ UNCHANGED codes
    BY DEF PasskeyCount, At, ServerInv, TypeOK, Mine, Locals, PasskeyStages
  <2>2. /\ CountOk(old.count, req[r].count) /\ Linked(req[r].idn, req[r].provider)
        /\ \E x \in srcs : UpTo(old, x)
    BY <2>1 DEF SourceInv, Sourced, LinkedStages
  <2>3. row = old
    BY <1>2, <2>2 DEF UpTo, SameKey, SourceInv, KeysUnique
  <2>4. old.count \in Nat /\ req[r].count \in Nat /\ old.rev \in Nat
    BY <2>1, CountAssumption DEF SrcRow
  <2>5. /\ SameKey(old, new) /\ new.rev > old.rev
        /\ new.count > old.count \/ (new.count = 0 /\ old.count = 0)
    <3>1. SameKey(old, new) /\ new.rev = old.rev + 1 /\ new.count = req[r].count
      <4> HIDE DEF old
      <4> QED
        BY <2>1 DEF SrcRow, SameKey
    <3> QED
      BY <2>2, <2>4, <3>1 DEF CountOk
  <2> HIDE DEF old, new
  <2>6. Grows
    BY <1>2, <2>3, <2>5 DEF Grows, Advances
  <2>7. KeysUnique'
    BY <1>2, <2>3, <2>5 DEF SourceInv, KeysUnique, SameKey
  <2>8. /\ req'[r].pc = "passkey.expire"
        /\ req'[r].idn = req[r].idn /\ req'[r].provider = req[r].provider
    <3>1. req'[r] = [req[r] EXCEPT !.pc = "passkey.expire"]
      BY <1>2 DEF GoTo, ServerInv, TypeOK
    <3> QED
      BY <2>1, <3>1 DEF Local
  <2>9. Linked(req[r].idn, req[r].provider)' /\ (codes'[r] # None => Linked(codes[r].sub, codes[r].provider)')
    <3>1. \A i, p : Linked(i, p) => Linked(i, p)'
      BY <2>6, LinksStay
    <3>2. codes[r] # None => Linked(codes[r].sub, codes[r].provider)
      BY DEF SourceInv, Sourced
    <3> QED
      BY <2>1, <2>2, <2>8, <3>1, <3>2 DEF Linked
  <2>10. Sourced(r)'
    BY <2>8, <2>9 DEF Sourced
  <2> QED
    BY <2>1, <2>6, <2>7, <2>10 DEF Sources
<1> QED
  BY <1>1, <1>2 DEF PasskeyCount

\* The step that reads the source: the copy is up to date.
LEMMA ReadSources ==
  ASSUME ServerInv, SourceInv, NEW r \in Request, PasskeySrc(r)
  PROVE  Sources(r)
<1>1. UNCHANGED <<srcs, codes>> /\ req[r].pc = "passkey.src" /\ req[r] \in Local /\ TypeOK
  BY DEF PasskeySrc, At, tables, ServerInv, TypeOK
<1>2. CASE Return(r)
  BY <1>1, <1>2, Elsewhere
<1>3. ASSUME NEW src \in SourceOf(req[r].provider, req[r].sub), CountOk(src.count, req[r].count),
             req' = [req EXCEPT ![r].pc = "passkey.count", ![r].src = src, ![r].idn = src.idn]
      PROVE  Sources(r)
  <2>1. req'[r] = [req[r] EXCEPT !.pc = "passkey.count", !.src = src, !.idn = src.idn]
    BY <1>1, <1>3 DEF TypeOK
  <2>2. /\ req'[r].pc = "passkey.count" /\ req'[r].src = src /\ req'[r].idn = src.idn
        /\ req'[r].provider = req[r].provider /\ req'[r].count = req[r].count
    BY <1>1, <2>1 DEF Local
  <2>3. src \in srcs /\ src.provider = req[r].provider /\ src \in SrcRow
    BY <1>1 DEF SourceOf, TypeOK
  <2>4. UpTo(src, src)
    BY <2>3 DEF UpTo, SameKey, SrcRow
  <2>5. Sourced(r)'
    BY <1>1, <1>3, <2>2, <2>3, <2>4 DEF Sourced, SourceInv, Linked
  <2>6. Grows /\ KeysUnique'
    BY <1>1 DEF Grows, Advances, SourceInv, KeysUnique
  <2> QED
    BY <1>1, <2>5, <2>6 DEF Sources
<1> QED
  BY <1>2, <1>3 DEF PasskeySrc

-------------------------------------------------------------------------------
\* The endpoints.

LEMMA FormSources ==
  ASSUME ServerInv, SourceInv, NEW r \in Request, SignInNext(r) \/ SignUpNext(r) \/ VerifyNext(r)
  PROVE  Sources(r)
<1>1. req \in [Request -> Local] /\ req[r] \in Local
  BY DEF ServerInv, TypeOK
<1>2. UNCHANGED <<srcs, codes>>
  BY DEF SignInNext, SignInBegin, SignInList, SignInPassword, SignInPasskey, SignInPage,
     SignUpNext, SignUpBegin, SignUpOtp, SignUpMail,
     VerifyNext, VerifyBegin, VerifyExpire, VerifyState, VerifySet, tables
<1>3. Return(r) => req'[r].pc = "done"
  BY <1>1, Constants DEF Return
<1>4. \A pc : GoTo(r, pc) => req'[r].pc = pc
  BY <1>1 DEF GoTo, Local
<1>5. CASE SignInNext(r)
  <2>1. ASSUME NEW s \in StateId, NEW l \in Login, SignInBegin(r, s, l)
        PROVE  req'[r].pc = "signin.list"
    BY <1>1, <2>1 DEF SignInBegin, Begin, Fresh
  <2>2. CASE SignInList(r)
    <3>1. ASSUME NEW p, NEW pc, req' = [req EXCEPT ![r].provider = p, ![r].pc = pc] PROVE req'[r].pc = pc
      BY <1>1, <3>1 DEF Local
    <3>2. req'[r].pc \in {"done", "signin.passkey", "signin.password"}
      BY <1>3, <2>2, <3>1 DEF SignInList
    <3> QED
      BY <1>2, <3>2, NoSource DEF LinkedStages
  <2>3. CASE SignInPassword(r)
    BY <1>2, <1>3, <2>3, NoSource DEF SignInPassword, LinkedStages
  <2>4. CASE SignInPasskey(r)
    BY <1>2, <1>3, <1>4, <2>4, NoSource DEF SignInPasskey, LinkedStages
  <2>5. CASE SignInPage(r)
    BY <1>2, <1>3, <2>5, NoSource DEF SignInPage, LinkedStages
  <2> QED
    BY <1>2, <1>5, <2>1, <2>2, <2>3, <2>4, <2>5, NoSource DEF SignInNext, LinkedStages
<1>6. CASE SignUpNext(r)
  <2>1. ASSUME NEW s \in StateId, NEW l \in Login, NEW p \in Provider, SignUpBegin(r, s, l, p)
        PROVE  req'[r].pc = "signup.otp"
    BY <1>1, <2>1 DEF SignUpBegin, Begin, Fresh
  <2>2. CASE SignUpOtp(r)
    BY <1>2, <1>4, <2>2, NoSource DEF SignUpOtp, LinkedStages
  <2>3. CASE SignUpMail(r)
    BY <1>2, <1>3, <2>3, NoSource DEF SignUpMail, LinkedStages
  <2> QED
    BY <1>2, <1>6, <2>1, <2>2, <2>3, NoSource DEF SignUpNext, LinkedStages
<1>7. CASE VerifyNext(r)
  <2>1. ASSUME NEW o \in Request, VerifyBegin(r, o) PROVE req'[r].pc \in {"done", "verify.expire"}
    BY <1>1, <1>3, <2>1 DEF VerifyBegin, ReturnWithoutNonce, Begin, Fresh
  <2>2. CASE VerifyExpire(r)
    <3>1. ASSUME NEW x, req' = [req EXCEPT ![r].pc = "verify.state", ![r].tok = x]
          PROVE  req'[r].pc = "verify.state"
      BY <1>1, <3>1 DEF Local
    <3>2. req'[r].pc \in {"done", "verify.state"}
      BY <1>3, <2>2, <3>1 DEF VerifyExpire, ReturnWithoutNonce
    <3> QED
      BY <1>2, <3>2, NoSource DEF LinkedStages
  <2>3. CASE VerifyState(r)
    <3>1. ASSUME NEW x, req' = [req EXCEPT ![r].pc = "verify.set", ![r].copy = x]
          PROVE  req'[r].pc = "verify.set"
      BY <1>1, <3>1 DEF Local
    <3>2. req'[r].pc \in {"done", "verify.set"}
      BY <1>3, <2>3, <3>1 DEF VerifyState, ReturnWithoutNonce
    <3> QED
      BY <1>2, <3>2, NoSource DEF LinkedStages
  <2>4. CASE VerifySet(r)
    BY <1>2, <1>3, <2>4, NoSource DEF VerifySet, ReturnWithoutNonce, LinkedStages
  <2> QED
    BY <1>2, <1>7, <2>1, <2>2, <2>3, <2>4, NoSource DEF VerifyNext, LinkedStages
<1> QED
  BY <1>5, <1>6, <1>7

LEMMA CredentialSources ==
  ASSUME ServerInv, SourceInv, NEW r \in Request, CredentialNext(r)
  PROVE  Sources(r)
<1>1. req \in [Request -> Local] /\ req[r] \in Local
  BY DEF ServerInv, TypeOK
<1>2. ASSUME NEW s \in StateId, NEW k \in Cred, CredentialBegin(r, s, k) PROVE Sources(r)
  <2>1. req'[r].pc = "cred.find"
    BY <1>1, <1>2 DEF CredentialBegin, Begin, Fresh
  <2> QED
    BY <1>2, <2>1, NoSource DEF CredentialBegin, tables, LinkedStages
<1>3. CASE CredentialFind(r)
  BY <1>3, Elsewhere DEF CredentialFind, tables, Stage, LinkedStages
<1>4. CASE CredentialIdn(r)
  <2>1. req'[r].pc \in {"cred.src", "done"}
    BY <1>1, <1>4, Constants DEF CredentialIdn, Return, Local
  <2> QED
    BY <1>4, <2>1, NoSource DEF CredentialIdn, LinkedStages
<1>5. CASE CredentialSrc(r)
  <2>1. CASE Return(r) /\ UNCHANGED srcs
    BY <1>5, <2>1, Elsewhere DEF CredentialSrc
  <2>2. ASSUME NEW n \in Count, NewIdnSrc(req[r], n), GoTo(r, "cred.expire") PROVE Sources(r)
    <3>1. codes[r] = None /\ UNCHANGED codes
      BY <1>5, NoRows DEF CredentialSrc, At, Ended
    <3> QED
      BY <2>2, <3>1, NewSource
  <2> QED
    BY <1>5, <2>1, <2>2 DEF CredentialSrc
<1>6. CASE CredentialExpire(r)
  BY <1>6, ExpireSources DEF CredentialExpire
<1>7. CASE NewCode(r, "cred.code")
  BY <1>7, CodeSources
<1> QED
  BY <1>2, <1>3, <1>4, <1>5, <1>6, <1>7 DEF CredentialNext

LEMMA PasskeySources ==
  ASSUME ServerInv, SourceInv, NEW r \in Request, PasskeyNext(r)
  PROVE  Sources(r)
<1>1. ASSUME NEW s \in StateId, NEW k \in Cred, NEW n \in Count, PasskeyBegin(r, s, k, n)
      PROVE  Sources(r)
  <2>1. req'[r].pc = "passkey.src"
    BY <1>1 DEF PasskeyBegin, Begin, Fresh, ServerInv, TypeOK
  <2> QED
    BY <1>1, <2>1, NoSource DEF PasskeyBegin, tables, LinkedStages
<1>2. CASE PasskeyExpire(r)
  BY <1>2, ExpireSources DEF PasskeyExpire
<1>3. CASE NewCode(r, "passkey.code")
  BY <1>3, CodeSources
<1> QED
  BY <1>1, <1>2, <1>3, ReadSources, CountSources DEF PasskeyNext

LEMMA PasswordSources ==
  ASSUME ServerInv, SourceInv, NEW r \in Request, PasswordNext(r)
  PROVE  Sources(r)
<1>1. req \in [Request -> Local] /\ req[r] \in Local
  BY DEF ServerInv, TypeOK
<1>2. ASSUME NEW s \in StateId, NEW l \in Login, PasswordBegin(r, s, l) PROVE Sources(r)
  <2>1. req'[r].pc = "password.src"
    BY <1>1, <1>2 DEF PasswordBegin, Begin, Fresh
  <2> QED
    BY <1>2, <2>1, NoSource DEF PasswordBegin, tables, LinkedStages
<1>3. CASE PasswordSrc(r)
  <2>1. CASE Return(r)
    BY <1>3, <2>1, Elsewhere DEF PasswordSrc, tables
  <2>2. ASSUME NEW src \in SourceOf(req[r].provider, req[r].sub),
               req' = [req EXCEPT ![r].pc = "password.expire", ![r].idn = src.idn]
        PROVE  Sources(r)
    <3>1. req'[r] = [req[r] EXCEPT !.pc = "password.expire", !.idn = src.idn]
      BY <1>1, <2>2
    <3>2. /\ req'[r].pc = "password.expire" /\ req'[r].idn = src.idn
          /\ req'[r].provider = req[r].provider
      BY <1>1, <3>1 DEF Local
    <3> QED
      BY <1>3, <3>2, NoSource DEF PasswordSrc, SourceOf, Linked, tables
  <2> QED
    BY <1>3, <2>1, <2>2 DEF PasswordSrc
<1>4. CASE PasswordExpire(r)
  BY <1>4, ExpireSources DEF PasswordExpire
<1>5. CASE NewCode(r, "password.code")
  BY <1>5, CodeSources
<1> QED
  BY <1>2, <1>3, <1>4, <1>5 DEF PasswordNext

LEMMA GoogleSources ==
  ASSUME ServerInv, SourceInv, NEW r \in Request, GoogleNext(r)
  PROVE  Sources(r)
<1>1. req \in [Request -> Local] /\ req[r] \in Local
  BY DEF ServerInv, TypeOK
<1>2. ASSUME NEW s \in StateId, NEW p \in Provider, NEW g \in Login, NEW l \in Login,
             GoogleBegin(r, s, p, g, l)
      PROVE  Sources(r)
  <2>1. req'[r].pc = "google.expire"
    BY <1>1, <1>2 DEF GoogleBegin, Begin, Fresh
  <2> QED
    BY <1>2, <2>1, NoSource DEF GoogleBegin, tables, LinkedStages
<1>3. CASE GoogleExpire(r)
  BY <1>3, ExpireSources DEF GoogleExpire
<1>4. CASE GoogleFind(r)
  <2>1. CASE GoTo(r, "google.idn")
    BY <1>4, <2>1, Elsewhere DEF GoogleFind, tables, Stage, LinkedStages
  <2>2. ASSUME NEW src \in SourceOf(req[r].provider, req[r].sub),
               req' = [req EXCEPT ![r].pc = "google.code", ![r].idn = src.idn]
        PROVE  Sources(r)
    <3>1. req'[r] = [req[r] EXCEPT !.pc = "google.code", !.idn = src.idn]
      BY <1>1, <2>2
    <3>2. req'[r].pc = "google.code" /\ req'[r].idn = src.idn /\ req'[r].provider = req[r].provider
      BY <1>1, <3>1 DEF Local
    <3> QED
      BY <1>4, <3>2, NoSource DEF GoogleFind, SourceOf, Linked, tables
  <2> QED
    BY <1>4, <2>1, <2>2 DEF GoogleFind
<1>5. CASE GoogleIdn(r)
  <2>1. req'[r].pc \in {"google.src", "done"}
    BY <1>1, <1>5, Constants DEF GoogleIdn, Return, Local
  <2> QED
    BY <1>5, <2>1, NoSource DEF GoogleIdn, LinkedStages
<1>6. CASE GoogleSrc(r)
  <2>1. CASE Return(r) /\ UNCHANGED srcs
    BY <1>6, <2>1, Elsewhere DEF GoogleSrc
  <2>2. CASE NewIdnSrc(req[r], 0) /\ GoTo(r, "google.code")
    <3>1. codes[r] = None /\ UNCHANGED codes
      BY <1>6, NoRows DEF GoogleSrc, At, Ended
    <3> QED
      BY <2>2, <3>1, NewSource
  <2> QED
    BY <1>6, <2>1, <2>2 DEF GoogleSrc
<1>7. CASE NewCode(r, "google.code")
  BY <1>7, CodeSources
<1> QED
  BY <1>2, <1>3, <1>4, <1>5, <1>6, <1>7 DEF GoogleNext

\* Spending a code leaves whom it is for.
LEMMA TokenSources ==
  ASSUME ServerInv, SourceInv, NEW r \in Request, TokenNext(r)
  PROVE  Sources(r)
<1>1. req \in [Request -> Local] /\ req[r] \in Local
  BY DEF ServerInv, TypeOK
<1>2. ASSUME NEW c \in Request, NEW a \in App, TokenBegin(r, c, a) PROVE Sources(r)
  <2>1. req'[r].pc = "token.expire"
    BY <1>1, <1>2 DEF TokenBegin, Begin, Fresh
  <2> QED
    BY <1>2, <2>1, NoSource DEF TokenBegin, tables, LinkedStages
<1>3. CASE TokenExpire(r)
  <2>1. CASE Return(r) /\ UNCHANGED codes
    BY <1>3, <2>1, Elsewhere DEF TokenExpire
  <2>2. CASE /\ codes' = [codes EXCEPT ![req[r].tok].spentBy = r]
             /\ Return(r) \/ GoTo(r, "token.insert")
    <3>1. /\ req[r].pc = "token.expire" /\ req[r].tok \in Request /\ codes[req[r].tok] \in CodeRow
          /\ codes[r] = None /\ codes \in [Request -> Maybe(CodeRow)] /\ UNCHANGED srcs
      BY <1>3, NoRows DEF TokenExpire, At, ServerInv, Mine, Locals, TypeOK, Maybe, Ended
    <3>2. \A c \in Request :
            codes'[c] # None =>
              /\ codes[c] # None
              /\ codes'[c].sub = codes[c].sub /\ codes'[c].provider = codes[c].provider
      <4>1. codes[req[r].tok] # None
        BY <3>1, RowAssumption
      <4>2. /\ [codes[req[r].tok] EXCEPT !.spentBy = r].sub = codes[req[r].tok].sub
            /\ [codes[req[r].tok] EXCEPT !.spentBy = r].provider = codes[req[r].tok].provider
        BY <3>1 DEF CodeRow
      <4> QED
        BY <2>2, <3>1, <4>1, <4>2
    <3>3. req'[r].pc \in {"done", "token.insert"}
      BY <1>1, <2>2, Constants DEF Return, GoTo, Local
    <3>4. Sourced(r)'
      BY <3>1, <3>2, <3>3 DEF Sourced, LinkedStages
    <3>5. Grows /\ KeysUnique'
      BY <3>1 DEF Grows, Advances, SourceInv, KeysUnique
    <3> QED
      BY <3>2, <3>4, <3>5 DEF Sources
  <2> QED
    BY <1>3, <2>1, <2>2 DEF TokenExpire
<1>4. CASE TokenInsert(r)
  BY <1>4, Elsewhere DEF TokenInsert, Stage, LinkedStages
<1>5. CASE TokenSign(r)
  BY <1>5, Elsewhere DEF TokenSign, tables
<1> QED
  BY <1>2, <1>3, <1>4, <1>5 DEF TokenNext

LEMMA RequestSources ==
  ASSUME ServerInv, SourceInv, NEW r \in Request, Serve(r) \/ Fail(r)
  PROVE  Leaves(r) /\ Sources(r)
<1>1. CASE Serve(r)
  BY <1>1, SignInStep, SignUpStep, VerifyStep, CredentialStep, PasskeyStep, PasswordStep, GoogleStep,
     TokenStep, FormSources, CredentialSources, PasskeySources, PasswordSources, GoogleSources,
     TokenSources DEF Serve, Kept
<1>2. CASE Fail(r)
  <2>1. Becomes(r, Failed) /\ req[r].pc \notin Ended /\ TypeOK
    BY <1>2, Constants, Assigns DEF Fail, ServerInv, Ended
  <2>2. Leaves(r)
    BY <1>2, <2>1, Looks DEF Fail, TypeOK, browser
  <2>3. Sources(r)
    BY <1>2, <2>1, NoSource, Constants DEF Fail, Becomes, tables, LinkedStages
  <2> QED
    BY <2>2, <2>3
<1> QED
  BY <1>1, <1>2

-------------------------------------------------------------------------------
\* The whole server.

LEMMA SourceInit ==
  ASSUME Init
  PROVE  SourceInv
<1>1. KeysUnique
  <2> SUFFICES ASSUME NEW x \in Seeded, NEW y \in Seeded, x[1] = y[1],
                      <<x[1], x[2]>> = <<y[1], y[2]>> \/ x[3] = y[3]
               PROVE  x = y
    BY DEF Init, KeysUnique
  <2> QED
    BY SeededAssumption
<1>2. \A r \in Request : req[r].pc = "idle" /\ codes[r] = None
  BY DEF Init, Fresh
<1> QED
  BY <1>1, <1>2 DEF SourceInv, Sourced, LinkedStages

\* The inductive invariant of the sources, relative to ServerInv.
THEOREM SourceInvariance == Spec => []SourceInv
<1>1. Init => SourceInv
  BY SourceInit
<1>2. ServerInv /\ ServerInv' /\ SourceInv /\ [Next]_vars => SourceInv'
  <2> SUFFICES ASSUME ServerInv, ServerInv', SourceInv, [Next]_vars PROVE SourceInv'
    OBVIOUS
  <2>1. ASSUME NEW r \in Request, Serve(r) \/ Fail(r) PROVE SourceInv'
    BY <2>1, RequestSources, OthersSourced
  <2>2. CASE UNCHANGED <<srcs, codes, req>>
    BY <2>2 DEF SourceInv, KeysUnique, Sourced, Linked
  <2> QED
    BY <2>1, <2>2 DEF Next, Lapse, Authorize, vars, tables
<1> QED
  BY <1>1, <1>2, ServerInvariance, PTL DEF Spec

\* The subject of an auth code can sign in with the provider of the code: the
\* source that links them was found or made by the request that made the code,
\* and no request takes it away (NewAuthCode at the end of each handler).
THEOREM SubjectIsIdentified == Spec => []SubjectIdentified
<1>1. SourceInv => SubjectIdentified
  BY DEF SourceInv, Sourced, Linked, SubjectIdentified
<1> QED
  BY <1>1, SourceInvariance, PTL

\* Signature counters only move forward, for any number of assertions that read
\* the same counter (step 22 and SetAttrsCr in cb.go).
THEOREM CounterOnlyAdvances == Spec => CounterAdvances
<1>1. ServerInv /\ SourceInv /\ [Next]_vars =>
        [\A old \in srcs :
           \E new \in srcs' :
             /\ new.idn = old.idn /\ new.provider = old.provider /\ new.sub = old.sub
             /\ \/ new = old
                \/ new.count > old.count
                \/ new.count = 0 /\ old.count = 0 /\ new.rev > old.rev]_srcs
  <2> SUFFICES ASSUME ServerInv, SourceInv, Next, srcs' # srcs
               PROVE  \A old \in srcs :
                        \E new \in srcs' :
                          /\ new.idn = old.idn /\ new.provider = old.provider /\ new.sub = old.sub
                          /\ \/ new = old
                             \/ new.count > old.count
                             \/ new.count = 0 /\ old.count = 0 /\ new.rev > old.rev
    BY DEF vars, tables
  <2>1. Grows
    BY RequestSources DEF Next, Lapse, Authorize, tables, Sources
  <2> QED
    BY <2>1 DEF Grows, Advances, SameKey
<1> QED
  BY <1>1, ServerInvariance, SourceInvariance, PTL DEF Spec, CounterAdvances

-------------------------------------------------------------------------------
(***************************************************************************)
(* Passkeys.  What a page offers and makes belongs to the login the page   *)
(* was opened for.  A row of idns that is there never changes; a challenge *)
(* is drawn together with a passkey provider, and only password forms      *)
(* replace the provider, by one that is none.  No request compares the     *)
(* credential it gets with those of a page.                                *)
(***************************************************************************)

\* Requests that may have made an identity.
PastIdn == {"cred.src", "cred.expire", "cred.code", "google.src", "google.code"} \cup Ended

\* A state, or a copy of one, pairs challenge c with provider p.
Pairs(c, p) ==
  \/ \E s \in StateId : states[s] # None /\ states[s].challenge = c /\ states[s].provider = p
  \/ \E r \in Request :
       req[r].pc \in CopyStages /\ req[r].copy.challenge = c /\ req[r].copy.provider = p

IsPasskey(p) == p \in Provider /\ Slug[p] = "passkey"

\* The credential k of provider p is one of login l.
Offered(p, k, l) ==
  \E src \in srcs : src.provider = p /\ src.sub = k /\ idns[src.idn].login = l

\* A page has been opened for challenge c and login l.
Opened(c, l) == \E pg \in pages : pg.challenge = c /\ pg.login = l

\* What the local variables of a request have to do with passkeys and logins.
Passkeyed(r) ==
  LET q == req[r] IN
  /\ q.pc = "signin.password" => ~IsPasskey(q.provider)
  /\ q.pc \in PasskeyStages => IsPasskey(q.provider) /\ q.copy.provider = q.provider
  /\ q.pc \in AssertionStages =>
       \E src \in srcs : src.idn = q.idn /\ src.provider = q.provider /\ src.sub = q.sub
  /\ q.pc \in CredStages => q.copy.challenge = None \/ Opened(q.copy.challenge, q.copy.login)
  /\ q.pc \in {"cred.src", "google.src"} => q.idn = r /\ idns[r] # None

PasskeyInv ==
  /\ \A src \in srcs : idns[src.idn] # None
  /\ \A i \in Request : idns[i] # None => req[i].pc \in PastIdn
  /\ \A r \in Request : Passkeyed(r)
  /\ \A r \in Request :
       req[r].pc = "signin.page" =>
         \A p \in Provider : IsPasskey(p) /\ Pairs(r, p) => p = req[r].provider
  /\ \A pg \in pages, p \in Provider :
       IsPasskey(p) /\ Pairs(pg.challenge, p) => \A k \in pg.allow : Offered(p, k, pg.login)
  /\ \A pg, other \in pages : pg.challenge = other.challenge => pg.login = other.login
  /\ \A i \in Request :
       idns[i] # None => idns[i].challenge = None \/ Opened(idns[i].challenge, idns[i].login)

\* What a step of r does with challenges and providers: it leaves the pair in a
\* state, or writes that of its copy, or writes a provider that has no passkeys,
\* or draws a challenge.
PairsOn(r) ==
  /\ \A s \in StateId :
       states'[s] # None =>
         /\ states[s] # None
         /\ \/ states'[s].challenge = states[s].challenge /\ states'[s].provider = states[s].provider
            \/ ~IsPasskey(states'[s].provider)
            \/ Draws(r) /\ states'[s].challenge = r /\ states'[s].provider = req[r].provider
  /\ req'[r].pc = "signin.page" => req'[r].provider = req[r].provider

\* What it does with identities, sources and pages.
RowsOn(r) ==
  /\ \A i \in IdnId : idns'[i] = idns[i] \/ (i = r /\ req[r].pc \in {"cred.idn", "google.idn"})
  /\ idns'[r] # None => req'[r].pc \in PastIdn
  /\ \/ idns'[r] = idns[r]
     \/ idns'[r].challenge = None
     \/ /\ req[r].pc \in CredStages
        /\ idns'[r].challenge = req[r].copy.challenge /\ idns'[r].login = req[r].copy.login
  /\ \A new \in srcs' :
       \/ \E old \in srcs : SameKey(old, new)
       \/ /\ req[r].pc \in {"cred.src", "google.src"}
          /\ new.idn = req[r].idn /\ new.provider = req[r].provider /\ new.sub = req[r].sub
  /\ pages \subseteq pages'
  /\ \A pg \in pages' \ pages :
       \A k \in pg.allow : /\ req[r].pc = "signin.page" /\ UNCHANGED states
                           /\ Offered(req[r].provider, k, pg.login)

Fits(r) == PairsOn(r) /\ RowsOn(r) /\ Passkeyed(r)'

\* Most steps leave states, identities, sources and pages alone.
LEMMA PlainRows ==
  ASSUME ServerInv, PasskeyInv, NEW r \in Request, UNCHANGED <<idns, srcs, pages>>,
         req[r].pc \in PastIdn => req'[r].pc \in PastIdn
  PROVE  RowsOn(r)
<1>1. idns[r] # None => req'[r].pc \in PastIdn
  BY DEF PasskeyInv
<1> QED
  BY <1>1 DEF RowsOn, SameKey

LEMMA PlainPairs ==
  ASSUME NEW r \in Request, UNCHANGED states, req'[r].pc # "signin.page"
  PROVE  PairsOn(r)
BY DEF PairsOn

\* Stages at which a request has nothing to do with passkeys.
LEMMA PlainStage ==
  ASSUME NEW r \in Request,
         req'[r].pc \notin {"signin.password", "google.src"} \cup CredStages \cup PasskeyStages
  PROVE  Passkeyed(r)'
BY DEF Passkeyed, CredStages, PasskeyStages, AssertionStages

\* A request that goes on at another stage.
LEMMA OnwardToo ==
  ASSUME ServerInv, NEW r \in Request, NEW pc, GoTo(r, pc)
  PROVE  /\ req'[r].pc = pc /\ req'[r].copy = req[r].copy /\ req'[r].sub = req[r].sub
         /\ req'[r].idn = req[r].idn /\ req'[r].provider = req[r].provider
<1>1. req'[r] = [req[r] EXCEPT !.pc = pc] /\ req[r] \in Local
  BY DEF GoTo, ServerInv, TypeOK
<1> QED
  BY <1>1 DEF Local

LEMMA ReturnFits ==
  ASSUME ServerInv, PasskeyInv, NEW r \in Request, Return(r) \/ Fail(r),
         UNCHANGED <<states, idns, srcs, pages>>
  PROVE  Fits(r)
<1>1. req'[r].pc \in Ended
  BY Constants DEF Return, Fail, ServerInv, TypeOK, Ended
<1>2. Passkeyed(r)'
  BY <1>1, PlainStage DEF Ended, CredStages, PasskeyStages
<1>3. RowsOn(r)
  BY <1>1, PlainRows DEF PastIdn
<1>4. PairsOn(r)
  BY <1>1, PlainPairs DEF Ended
<1> QED
  BY <1>2, <1>3, <1>4 DEF Fits

\* Begin, and steps between stages that have nothing to do with passkeys.
LEMMA ApartFits ==
  ASSUME ServerInv, PasskeyInv, NEW r \in Request, UNCHANGED <<states, idns, srcs, pages>>,
         req[r].pc \notin PastIdn, req'[r].pc # "signin.page",
         req'[r].pc \notin {"signin.password", "google.src"} \cup CredStages \cup PasskeyStages
  PROVE  Fits(r)
BY PlainPairs, PlainRows, PlainStage DEF Fits

LEMMA ExpireFits ==
  ASSUME ServerInv, PasskeyInv, NEW r \in Request, NEW from, NEW to, ExpireState(r, from, to),
         \/ from = "cred.expire" /\ to = "cred.code"
         \/ from = "passkey.expire" /\ to = "passkey.code"
         \/ from = "password.expire" /\ to = "password.code"
         \/ from = "google.expire" /\ to = "google.find"
  PROVE  Fits(r)
<1>1. CASE Return(r) /\ UNCHANGED states
  BY <1>1, ReturnFits DEF ExpireState, browser
<1>2. CASE states' = [states EXCEPT ![req[r].tok].spentBy = r] /\ GoTo(r, to)
  <2>1. /\ req[r].pc = from /\ TypeOK /\ UNCHANGED <<idns, srcs, pages>>
        /\ req'[r].pc = to /\ req'[r].copy = req[r].copy /\ req'[r].sub = req[r].sub
        /\ req'[r].idn = req[r].idn /\ req'[r].provider = req[r].provider
    BY <1>2, OnwardToo DEF ExpireState, At, browser, ServerInv
  <2>2. PairsOn(r)
    <3>1. /\ req[r].tok \in StateId /\ states[req[r].tok] # None /\ states[req[r].tok] \in StateRow
      BY <2>1 DEF ServerInv, Mine, Locals, TypeOK, Maybe, CopyStages, CompleteStages, CredStages,
         PasskeyStages, PasswordStages, GoogleStages
    <3>2. /\ [states[req[r].tok] EXCEPT !.spentBy = r].challenge = states[req[r].tok].challenge
          /\ [states[req[r].tok] EXCEPT !.spentBy = r].provider = states[req[r].tok].provider
      BY <3>1 DEF StateRow
    <3> QED
      BY <1>2, <2>1, <3>1, <3>2 DEF TypeOK, PairsOn
  <2>3. RowsOn(r)
    BY <2>1, PlainRows DEF PastIdn, Ended
  <2>4. Passkeyed(r)'
    <3>1. Passkeyed(r)
      BY DEF PasskeyInv
    <3> QED
      BY <2>1, <3>1 DEF Passkeyed, Opened, CredStages, PasskeyStages, AssertionStages
  <2> QED
    BY <2>2, <2>3, <2>4 DEF Fits
<1> QED
  BY <1>1, <1>2 DEF ExpireState

\* SetAttrs, when what it writes is a pair that PairsOn allows.
LEMMA WritePairs ==
  ASSUME ServerInv, NEW r \in Request, req[r].pc \in CopyStages, NEW attrs \in StateRow,
         SetAttrs(r, attrs),
         req'[r].pc = "signin.page" => req'[r].provider = req[r].provider,
         \/ ~IsPasskey(attrs.provider)
         \/ Draws(r) /\ attrs.challenge = r /\ attrs.provider = req[r].provider
  PROVE  PairsOn(r)
<1> DEFINE s == req[r].tok
           row == [attrs EXCEPT !.rev = @ + 1, !.spentBy = states[s].spentBy]
<1>1. s \in StateId /\ states[s] # None /\ states \in [StateId -> Maybe(StateRow)]
  BY DEF ServerInv, Mine, Locals, TypeOK
<1>2. row.challenge = attrs.challenge /\ row.provider = attrs.provider
  <2> HIDE DEF s
  <2> QED
    BY DEF StateRow
<1>3. states'[s] = row /\ \A x \in StateId : x # s => states'[x] = states[x]
  <2> HIDE DEF row
  <2> QED
    BY <1>1 DEF SetAttrs, row
<1> HIDE DEF row
<1> QED
  BY <1>1, <1>2, <1>3 DEF PairsOn

LEMMA SignInFits ==
  ASSUME ServerInv, PasskeyInv, NEW r \in Request, SignInNext(r)
  PROVE  Fits(r)
<1> USE DEF PastIdn, Ended, CredStages, PasskeyStages, AssertionStages
<1>1. req \in [Request -> Local] /\ req[r] \in Local /\ Locals(r)
  BY DEF ServerInv, TypeOK, Mine
<1>2. ASSUME NEW s \in StateId, NEW l \in Login, SignInBegin(r, s, l) PROVE Fits(r)
  <2>1. req[r].pc = "idle" /\ req'[r].pc = "signin.list"
    BY <1>1, <1>2 DEF SignInBegin, At, Begin, Fresh
  <2> QED
    BY <1>2, <2>1, ApartFits DEF SignInBegin, tables, browser
<1>3. CASE SignInList(r)
  <2>1. CASE Return(r)
    BY <1>3, <2>1, ReturnFits DEF SignInList, tables, browser
  <2>2. ASSUME NEW p \in Choices(req[r].copy.app, req[r].login),
               req' = [req EXCEPT ![r].provider = p, ![r].pc =
                         IF p # Canary /\ Slug[p] = "passkey" THEN "signin.passkey"
                                                              ELSE "signin.password"]
        PROVE  Fits(r)
    <3> DEFINE pc == IF p # Canary /\ Slug[p] = "passkey" THEN "signin.passkey" ELSE "signin.password"
    <3>1. req'[r] = [req[r] EXCEPT !.provider = p, !.pc = pc] /\ req[r].pc = "signin.list"
      BY <1>1, <1>3, <2>2 DEF SignInList, At
    <3>2. req'[r].pc = pc /\ req'[r].provider = p
      BY <1>1, <3>1 DEF Local
    <3>3. Passkeyed(r)'
      BY <3>2, NoneAssumption DEF Passkeyed, IsPasskey
    <3>4. PairsOn(r) /\ RowsOn(r)
      BY <1>3, <3>1, <3>2, PlainPairs, PlainRows DEF SignInList, tables, browser
    <3> QED
      BY <3>3, <3>4 DEF Fits
  <2> QED
    BY <1>3, <2>1, <2>2 DEF SignInList
<1>4. CASE SignInPassword(r)
  <2>1. CASE UNCHANGED states
    BY <1>4, <2>1, ReturnFits DEF SignInPassword, browser
  <2>2. CASE SetAttrs(r, [req[r].copy EXCEPT !.provider = req[r].provider])
    <3> DEFINE attrs == [req[r].copy EXCEPT !.provider = req[r].provider]
    <3>1. req[r].pc = "signin.password" /\ req'[r].pc = "done"
      BY <1>4, Onward DEF SignInPassword, At
    <3>2. attrs \in StateRow /\ attrs.provider = req[r].provider
      BY <1>1, <3>1 DEF Locals, StateRow, Maybe, CopyStages, SignInStages
    <3>3. ~IsPasskey(req[r].provider)
      BY <3>1 DEF PasskeyInv, Passkeyed
    <3> HIDE DEF attrs
    <3>4. PairsOn(r)
      BY <2>2, <3>1, <3>2, <3>3, WritePairs DEF attrs, CopyStages, SignInStages
    <3>5. RowsOn(r) /\ Passkeyed(r)'
      BY <1>4, <3>1, PlainRows, PlainStage DEF SignInPassword, browser
    <3> QED
      BY <3>4, <3>5 DEF Fits
  <2> QED
    BY <1>4, <2>1, <2>2 DEF SignInPassword
<1>5. CASE SignInPasskey(r)
  <2>1. CASE Return(r) /\ UNCHANGED states
    BY <1>5, <2>1, ReturnFits DEF SignInPasskey, browser
  <2> DEFINE attrs == [req[r].copy EXCEPT !.login = req[r].login, !.provider = req[r].provider,
                                          !.challenge = r]
  <2>2. CASE SetAttrs(r, attrs) /\ GoTo(r, "signin.page")
    <3>1. /\ req[r].pc = "signin.passkey" /\ req'[r].pc = "signin.page"
          /\ req'[r].login = req[r].login /\ req'[r].provider = req[r].provider
      BY <1>5, <2>2, Onward, OnwardToo DEF SignInPasskey, At
    <3>2. attrs \in StateRow /\ attrs.challenge = r /\ attrs.provider = req[r].provider
      BY <1>1, <3>1 DEF Locals, StateRow, Maybe, CopyStages, SignInStages
    <3> HIDE DEF attrs
    <3>3. Draws(r)
      BY <3>1 DEF Draws, Drawn
    <3>4. PairsOn(r)
      BY <2>2, <3>1, <3>2, <3>3, WritePairs DEF CopyStages, SignInStages
    <3>5. RowsOn(r) /\ Passkeyed(r)'
      BY <1>5, <3>1, PlainRows, PlainStage DEF SignInPasskey, browser
    <3> QED
      BY <3>4, <3>5 DEF Fits
  <2> QED
    BY <1>5, <2>1, <2>2 DEF SignInPasskey
<1>6. CASE SignInPage(r)
  <2>1. req[r].pc = "signin.page" /\ req'[r].pc = "done"
    BY <1>6, Onward DEF SignInPage, At
  <2>2. PairsOn(r) /\ Passkeyed(r)'
    BY <1>6, <2>1, PlainPairs, PlainStage DEF SignInPage, tables
  <2>3. RowsOn(r)
    <3>1. idns[r] = None
      BY <2>1 DEF PasskeyInv
    <3>2. ASSUME NEW pg \in pages' \ pages, NEW k \in pg.allow
          PROVE  Offered(req[r].provider, k, pg.login)
      BY <1>6, <3>2 DEF SignInPage, KnownSources, Offered
    <3> QED
      BY <1>6, <2>1, <3>1, <3>2 DEF SignInPage, tables, RowsOn, SameKey
  <2> QED
    BY <2>2, <2>3 DEF Fits
<1> QED
  BY <1>2, <1>3, <1>4, <1>5, <1>6 DEF SignInNext

LEMMA SignUpFits ==
  ASSUME ServerInv, PasskeyInv, NEW r \in Request, SignUpNext(r)
  PROVE  Fits(r)
<1> USE DEF PastIdn, Ended, CredStages, PasskeyStages, AssertionStages
<1>1. ASSUME NEW s \in StateId, NEW l \in Login, NEW p \in Provider, SignUpBegin(r, s, l, p)
      PROVE  Fits(r)
  <2>1. req[r].pc = "idle" /\ req'[r].pc = "signup.otp"
    BY <1>1 DEF SignUpBegin, At, Begin, Fresh, ServerInv, TypeOK
  <2> QED
    BY <1>1, <2>1, ApartFits DEF SignUpBegin, tables, browser
<1>2. CASE SignUpOtp(r)
  BY <1>2, Onward, ApartFits DEF SignUpOtp, At, browser
<1>3. CASE SignUpMail(r)
  BY <1>3, ReturnFits DEF SignUpMail, tables
<1> QED
  BY <1>1, <1>2, <1>3 DEF SignUpNext

LEMMA VerifyFits ==
  ASSUME ServerInv, PasskeyInv, NEW r \in Request, VerifyNext(r)
  PROVE  Fits(r)
<1> USE DEF PastIdn, Ended, CredStages, PasskeyStages, AssertionStages
<1>1. req \in [Request -> Local] /\ req[r] \in Local /\ Locals(r)
  BY DEF ServerInv, TypeOK, Mine
<1>2. ASSUME NEW o \in Request, VerifyBegin(r, o) PROVE Fits(r)
  <2>1. CASE Return(r)
    BY <1>2, <2>1, ReturnFits DEF VerifyBegin, tables
  <2>2. CASE Begin(r, "verify.expire",
                   [Fresh EXCEPT !.tok = o, !.login = otps[o].login, !.provider = otps[o].provider])
    <3>1. req[r].pc = "idle" /\ req'[r].pc = "verify.expire"
      BY <1>1, <1>2, <2>2 DEF VerifyBegin, At, Begin, Fresh
    <3> QED
      BY <1>2, <3>1, ApartFits DEF VerifyBegin, tables
  <2> QED
    BY <1>2, <2>1, <2>2 DEF VerifyBegin, ReturnWithoutNonce
<1>3. CASE VerifyExpire(r)
  <2>1. CASE Return(r)
    BY <1>3, <2>1, ReturnFits DEF VerifyExpire
  <2>2. ASSUME NEW x, req' = [req EXCEPT ![r].pc = "verify.state", ![r].tok = x] PROVE Fits(r)
    <3>1. req'[r].pc = "verify.state"
      BY <1>1, <2>2 DEF Local
    <3> QED
      BY <1>3, <3>1, ApartFits DEF VerifyExpire, At
  <2> QED
    BY <1>3, <2>1, <2>2 DEF VerifyExpire, ReturnWithoutNonce
<1>4. CASE VerifyState(r)
  <2>1. CASE Return(r)
    BY <1>4, <2>1, ReturnFits DEF VerifyState, tables
  <2>2. ASSUME NEW x, req' = [req EXCEPT ![r].pc = "verify.set", ![r].copy = x] PROVE Fits(r)
    <3>1. req'[r].pc = "verify.set"
      BY <1>1, <2>2 DEF Local
    <3> QED
      BY <1>4, <3>1, ApartFits DEF VerifyState, At, tables
  <2> QED
    BY <1>4, <2>1, <2>2 DEF VerifyState, ReturnWithoutNonce
<1>5. CASE VerifySet(r)
  <2>1. Return(r)
    BY <1>5 DEF VerifySet, ReturnWithoutNonce
  <2>2. CASE UNCHANGED <<states, pages>>
    BY <1>5, <2>1, <2>2, ReturnFits DEF VerifySet
  <2> DEFINE attrs == [req[r].copy EXCEPT !.login = req[r].login, !.provider = req[r].provider,
                                          !.challenge = r]
             page == [type |-> "create", state |-> req[r].tok, challenge |-> r,
                      login |-> req[r].login, allow |-> {}]
  <2>3. CASE SetAttrs(r, attrs) /\ pages' = pages \cup {page}
    <3>1. req[r].pc = "verify.set" /\ req'[r].pc = "done"
      BY <1>5, <2>1, Onward DEF VerifySet, At
    <3>2. attrs \in StateRow /\ attrs.challenge = r /\ attrs.provider = req[r].provider
      BY <1>1, <3>1 DEF Locals, StateRow, Maybe, CopyStages
    <3>3. page.allow = {}
      OBVIOUS
    <3> HIDE DEF attrs, page
    <3>4. Draws(r)
      BY <3>1 DEF Draws, Drawn
    <3>5. PairsOn(r)
      BY <2>3, <3>1, <3>2, <3>4, WritePairs DEF CopyStages
    <3>6. idns[r] = None
      BY <3>1 DEF PasskeyInv
    <3>7. RowsOn(r) /\ Passkeyed(r)'
      BY <1>5, <2>3, <3>1, <3>3, <3>6, PlainStage DEF VerifySet, RowsOn, SameKey
    <3> QED
      BY <3>5, <3>7 DEF Fits
  <2> QED
    BY <1>5, <2>2, <2>3 DEF VerifySet
<1> QED
  BY <1>2, <1>3, <1>4, <1>5 DEF VerifyNext

LEMMA CredentialFits ==
  ASSUME ServerInv, ChallengeInv, PasskeyInv, NEW r \in Request, CredentialNext(r)
  PROVE  Fits(r)
<1> USE DEF PastIdn, Ended, CredStages, PasskeyStages, AssertionStages
<1>1. req \in [Request -> Local] /\ req[r] \in Local /\ TypeOK /\ Passkeyed(r)
  BY DEF ServerInv, TypeOK, PasskeyInv
<1>2. ASSUME NEW s \in StateId, NEW k \in Cred, CredentialBegin(r, s, k) PROVE Fits(r)
  <2>1. /\ req[r].pc = "idle" /\ states[s] # None /\ states[s].challenge \in Signable
        /\ UNCHANGED <<states, idns, srcs, pages>>
    BY <1>2 DEF CredentialBegin, At, Live, tables, browser
  <2>2. req'[r].pc = "cred.find" /\ req'[r].copy = states[s]
    BY <1>1, <1>2 DEF CredentialBegin, Begin, Fresh
  <2>3. states[s].challenge = None \/ Opened(states[s].challenge, states[s].login)
    <3> SUFFICES ASSUME NEW pg \in pages, states[s].challenge = pg.challenge
                 PROVE  states[s].login = pg.login
      BY <2>1 DEF Signable, Opened
    <3>1. OnlyFor(pg.challenge, pg.login) /\ states[s].login \in Maybe(Login)
      BY <1>1, <2>1 DEF ChallengeInv, TypeOK, Maybe, StateRow
    <3> QED
      BY <2>1, <3>1 DEF OnlyFor, Says
  <2>4. Passkeyed(r)'
    BY <2>1, <2>2, <2>3 DEF Passkeyed, Opened
  <2>5. PairsOn(r) /\ RowsOn(r)
    BY <2>1, <2>2, PlainPairs, PlainRows
  <2> QED
    BY <2>4, <2>5 DEF Fits
<1>3. CASE CredentialFind(r)
  <2>1. CASE Return(r)
    BY <1>3, <2>1, ReturnFits DEF CredentialFind, tables, browser
  <2>2. CASE GoTo(r, "cred.idn")
    <3>1. /\ req[r].pc = "cred.find" /\ req'[r].pc = "cred.idn"
          /\ req'[r].copy = req[r].copy /\ req'[r].sub = req[r].sub
          /\ UNCHANGED <<states, idns, srcs, pages>>
      BY <1>3, <2>2, OnwardToo DEF CredentialFind, At, tables, browser
    <3>2. Passkeyed(r)'
      BY <1>1, <3>1 DEF Passkeyed, Opened
    <3> QED
      BY <3>1, <3>2, PlainPairs, PlainRows DEF Fits
  <2> QED
    BY <1>3, <2>1, <2>2 DEF CredentialFind
<1>4. CASE CredentialIdn(r)
  <2>1. CASE Return(r) /\ UNCHANGED idns
    BY <1>4, <2>1, ReturnFits DEF CredentialIdn, browser
  <2> DEFINE row == [app |-> req[r].copy.app, login |-> req[r].copy.login, via |-> "passkey",
                     challenge |-> req[r].copy.challenge]
  <2>2. CASE /\ idns' = [idns EXCEPT ![r] = row]
             /\ req' = [req EXCEPT ![r].pc = "cred.src", ![r].idn = r]
    <3>1. /\ req[r].pc = "cred.idn" /\ UNCHANGED <<states, otps, srcs, pages>>
          /\ req[r].copy \in StateRow
      BY <1>1, <1>4
      DEF CredentialIdn, At, browser, ServerInv, Mine, Locals, CopyStages, CompleteStages
    <3>2. /\ req'[r].pc = "cred.src" /\ req'[r].copy = req[r].copy /\ req'[r].sub = req[r].sub
          /\ req'[r].idn = r
      <4>1. req'[r] = [req[r] EXCEPT !.pc = "cred.src", !.idn = r]
        BY <1>1, <2>2
      <4> QED
        BY <1>1, <4>1 DEF Local
    <3>3. /\ row # None
          /\ row.login = req[r].copy.login /\ row.challenge = req[r].copy.challenge
      BY <3>1, RowAssumption DEF IdnRow, StateRow
    <3> HIDE DEF row
    <3>4. idns'[r] = row /\ \A i \in IdnId : i # r => idns'[i] = idns[i]
      BY <1>1, <2>2 DEF TypeOK, IdnId
    <3>5. Passkeyed(r)'
      BY <1>1, <3>1, <3>2, <3>3, <3>4 DEF Passkeyed, Opened
    <3>6. RowsOn(r)
      BY <3>1, <3>2, <3>3, <3>4 DEF RowsOn, SameKey
    <3> QED
      BY <3>1, <3>2, <3>5, <3>6, PlainPairs DEF Fits
  <2> QED
    BY <1>4, <2>1, <2>2 DEF CredentialIdn, NewIdn
<1>5. CASE CredentialSrc(r)
  <2>1. CASE Return(r) /\ UNCHANGED srcs
    BY <1>5, <2>1, ReturnFits DEF CredentialSrc, browser
  <2>2. ASSUME NEW n \in Count, NewIdnSrc(req[r], n), GoTo(r, "cred.expire") PROVE Fits(r)
    <3>1. /\ req[r].pc = "cred.src" /\ req'[r].pc = "cred.expire"
          /\ req'[r].copy = req[r].copy /\ req'[r].sub = req[r].sub /\ req'[r].idn = req[r].idn
          /\ UNCHANGED <<states, idns, pages>>
      BY <1>5, <2>2, OnwardToo DEF CredentialSrc, At, browser
    <3>2. Passkeyed(r)'
      BY <1>1, <3>1 DEF Passkeyed, Opened
    <3>3. RowsOn(r)
      BY <2>2, <3>1 DEF RowsOn, NewIdnSrc, SameKey
    <3> QED
      BY <3>1, <3>2, <3>3, PlainPairs DEF Fits
  <2> QED
    BY <1>5, <2>1, <2>2 DEF CredentialSrc
<1>6. CASE CredentialExpire(r)
  BY <1>6, ExpireFits DEF CredentialExpire
<1>7. CASE NewCode(r, "cred.code")
  BY <1>7, ReturnFits DEF NewCode, browser
<1> QED
  BY <1>2, <1>3, <1>4, <1>5, <1>6, <1>7 DEF CredentialNext

LEMMA PasskeyFits ==
  ASSUME ServerInv, ChallengeInv, SourceInv, PasskeyInv, NEW r \in Request, PasskeyNext(r)
  PROVE  Fits(r)
<1> USE DEF PastIdn, Ended, CredStages, PasskeyStages, AssertionStages
<1>1. req \in [Request -> Local] /\ req[r] \in Local /\ TypeOK /\ Passkeyed(r)
  BY DEF ServerInv, TypeOK, PasskeyInv
<1>2. ASSUME NEW s \in StateId, NEW k \in Cred, NEW n \in Count, PasskeyBegin(r, s, k, n)
      PROVE  Fits(r)
  <2> DEFINE p == states[s].provider
  <2>1. req[r].pc = "idle" /\ UNCHANGED <<states, idns, srcs, pages>> /\ IsPasskey(p)
    BY <1>2 DEF PasskeyBegin, At, tables, browser, IsPasskey
  <2>2. req'[r].pc = "passkey.src" /\ req'[r].copy = states[s] /\ req'[r].provider = p
    BY <1>1, <1>2 DEF PasskeyBegin, Begin, Fresh
  <2>3. Passkeyed(r)'
    BY <2>1, <2>2 DEF Passkeyed, IsPasskey
  <2> QED
    BY <2>1, <2>2, <2>3, PlainPairs, PlainRows DEF Fits
<1>3. CASE PasskeySrc(r)
  <2>1. CASE Return(r)
    BY <1>3, <2>1, ReturnFits DEF PasskeySrc, tables, browser
  <2>2. ASSUME NEW src \in SourceOf(req[r].provider, req[r].sub),
               req' = [req EXCEPT ![r].pc = "passkey.count", ![r].src = src, ![r].idn = src.idn]
        PROVE  Fits(r)
    <3>1. req[r].pc = "passkey.src" /\ UNCHANGED <<states, idns, srcs, pages>>
      BY <1>3 DEF PasskeySrc, At, tables, browser
    <3>2. /\ req'[r].pc = "passkey.count" /\ req'[r].copy = req[r].copy /\ req'[r].idn = src.idn
          /\ req'[r].provider = req[r].provider /\ req'[r].sub = req[r].sub
      <4>1. req'[r] = [req[r] EXCEPT !.pc = "passkey.count", !.src = src, !.idn = src.idn]
        BY <1>1, <2>2
      <4> QED
        BY <1>1, <4>1 DEF Local
    <3>3. Passkeyed(r)'
      BY <1>1, <3>1, <3>2 DEF Passkeyed, SourceOf
    <3> QED
      BY <3>1, <3>2, <3>3, PlainPairs, PlainRows DEF Fits
  <2> QED
    BY <1>3, <2>1, <2>2 DEF PasskeySrc
<1>4. CASE PasskeyCount(r)
  <2>1. CASE Return(r) /\ UNCHANGED srcs
    BY <1>4, <2>1, ReturnFits DEF PasskeyCount, browser
  <2>2. ASSUME NEW row \in srcs, row.idn = req[r].src.idn, row.provider = req[r].src.provider,
               row.rev = req[r].src.rev, GoTo(r, "passkey.expire"),
               srcs' = (srcs \ {row})
                         \cup {[req[r].src EXCEPT !.count = req[r].count, !.rev = @ + 1]}
        PROVE  Fits(r)
    <3>1. /\ req[r].pc = "passkey.count" /\ req'[r].pc = "passkey.expire"
          /\ req'[r].copy = req[r].copy /\ req'[r].idn = req[r].idn
          /\ req'[r].provider = req[r].provider /\ req'[r].sub = req[r].sub
          /\ UNCHANGED <<states, idns, pages>>
      BY <1>4, <2>2, OnwardToo DEF PasskeyCount, At, browser
    <3>2. req[r].src \in SrcRow /\ \E x \in srcs : UpTo(req[r].src, x)
      BY <3>1 DEF ServerInv, Mine, Locals, SourceInv, Sourced
    <3>3. SameKey(row, [req[r].src EXCEPT !.count = req[r].count, !.rev = @ + 1])
      BY <2>2, <3>2 DEF UpTo, SameKey, SrcRow, SourceInv, KeysUnique
    <3>4. Passkeyed(r)'
      <4>1. PICK src \in srcs :
              src.idn = req[r].idn /\ src.provider = req[r].provider /\ src.sub = req[r].sub
        BY <1>1, <3>1 DEF Passkeyed
      <4>2. \E new \in srcs' : SameKey(src, new)
        BY <2>2, <3>3 DEF SameKey
      <4>3. \E new \in srcs' :
              new.idn = req'[r].idn /\ new.provider = req'[r].provider /\ new.sub = req'[r].sub
        BY <3>1, <4>1, <4>2 DEF SameKey
      <4> QED
        BY <1>1, <3>1, <4>3 DEF Passkeyed
    <3>5. RowsOn(r)
      <4>1. idns[r] = None
        BY <3>1 DEF PasskeyInv
      <4> QED
        BY <2>2, <3>1, <3>3, <4>1 DEF RowsOn, SameKey
    <3> QED
      BY <3>1, <3>4, <3>5, PlainPairs DEF Fits
  <2> QED
    BY <1>4, <2>1, <2>2 DEF PasskeyCount
<1>5. CASE PasskeyExpire(r)
  BY <1>5, ExpireFits DEF PasskeyExpire
<1>6. CASE NewCode(r, "passkey.code")
  BY <1>6, ReturnFits DEF NewCode, browser
<1> QED
  BY <1>2, <1>3, <1>4, <1>5, <1>6 DEF PasskeyNext

LEMMA PasswordFits ==
  ASSUME ServerInv, PasskeyInv, NEW r \in Request, PasswordNext(r)
  PROVE  Fits(r)
<1> USE DEF PastIdn, Ended, CredStages, PasskeyStages, AssertionStages
<1>1. req \in [Request -> Local] /\ req[r] \in Local
  BY DEF ServerInv, TypeOK
<1>2. ASSUME NEW s \in StateId, NEW l \in Login, PasswordBegin(r, s, l) PROVE Fits(r)
  <2>1. req[r].pc = "idle" /\ req'[r].pc = "password.src"
    BY <1>1, <1>2 DEF PasswordBegin, At, Begin, Fresh
  <2> QED
    BY <1>2, <2>1, ApartFits DEF PasswordBegin, tables, browser
<1>3. CASE PasswordSrc(r)
  <2>1. CASE Return(r)
    BY <1>3, <2>1, ReturnFits DEF PasswordSrc, tables, browser
  <2>2. ASSUME NEW src, req' = [req EXCEPT ![r].pc = "password.expire", ![r].idn = src.idn]
        PROVE  Fits(r)
    <3>1. req'[r].pc = "password.expire"
      <4>1. req'[r] = [req[r] EXCEPT !.pc = "password.expire", !.idn = src.idn]
        BY <1>1, <2>2
      <4> QED
        BY <1>1, <4>1 DEF Local
    <3> QED
      BY <1>3, <3>1, ApartFits DEF PasswordSrc, At, tables, browser
  <2> QED
    BY <1>3, <2>1, <2>2 DEF PasswordSrc
<1>4. CASE PasswordExpire(r)
  BY <1>4, ExpireFits DEF PasswordExpire
<1>5. CASE NewCode(r, "password.code")
  BY <1>5, ReturnFits DEF NewCode, browser
<1> QED
  BY <1>2, <1>3, <1>4, <1>5 DEF PasswordNext

LEMMA GoogleFits ==
  ASSUME ServerInv, PasskeyInv, NEW r \in Request, GoogleNext(r)
  PROVE  Fits(r)
<1> USE DEF PastIdn, Ended, CredStages, PasskeyStages, AssertionStages
<1>1. req \in [Request -> Local] /\ req[r] \in Local /\ TypeOK /\ Passkeyed(r)
  BY DEF ServerInv, TypeOK, PasskeyInv
<1>2. ASSUME NEW s \in StateId, NEW p \in Provider, NEW g \in Login, NEW l \in Login,
             GoogleBegin(r, s, p, g, l)
      PROVE  Fits(r)
  <2>1. /\ req[r].pc = "idle" /\ req'[r].pc = "google.expire" /\ req'[r].sub = g
        /\ UNCHANGED <<states, idns, srcs, pages>>
    BY <1>1, <1>2 DEF GoogleBegin, At, Begin, Fresh, tables, browser
  <2>2. Passkeyed(r)'
    BY <2>1 DEF Passkeyed
  <2> QED
    BY <2>1, <2>2, PlainPairs, PlainRows DEF Fits
<1>3. CASE GoogleExpire(r)
  BY <1>3, ExpireFits DEF GoogleExpire
<1>4. CASE GoogleFind(r)
  <2>1. req[r].pc = "google.find" /\ UNCHANGED <<states, idns, srcs, pages>>
    BY <1>4 DEF GoogleFind, At, tables, browser
  <2>2. req'[r].pc \in {"google.code", "google.idn"} /\ req'[r].sub = req[r].sub
    <3>1. CASE GoTo(r, "google.idn")
      BY <3>1, OnwardToo
    <3>2. ASSUME NEW src, req' = [req EXCEPT ![r].pc = "google.code", ![r].idn = src.idn]
          PROVE  req'[r].pc = "google.code" /\ req'[r].sub = req[r].sub
      <4>1. req'[r] = [req[r] EXCEPT !.pc = "google.code", !.idn = src.idn]
        BY <1>1, <3>2
      <4> QED
        BY <1>1, <4>1 DEF Local
    <3> QED
      BY <1>4, <3>1, <3>2 DEF GoogleFind
  <2>3. Passkeyed(r)'
    BY <1>1, <2>1, <2>2 DEF Passkeyed
  <2> QED
    BY <2>1, <2>2, <2>3, PlainPairs, PlainRows DEF Fits
<1>5. CASE GoogleIdn(r)
  <2> DEFINE row == [app |-> AppOf[req[r].provider], login |-> req[r].login, via |-> "google",
                     challenge |-> None]
  <2>1. CASE Return(r) /\ UNCHANGED idns
    BY <1>5, <2>1, ReturnFits DEF GoogleIdn, browser
  <2>2. CASE /\ idns' = [idns EXCEPT ![r] = row]
             /\ req' = [req EXCEPT ![r].pc = "google.src", ![r].idn = r]
    <3>1. /\ req[r].pc = "google.idn" /\ UNCHANGED <<states, srcs, pages>>
          /\ req[r].login \in Login /\ req[r].provider \in Provider
      <4>1. req[r].pc = "google.idn" /\ UNCHANGED <<states, srcs, pages>>
        BY <1>5 DEF GoogleIdn, At, browser
      <4> QED
        BY <4>1 DEF ServerInv, Mine, Locals, GoogleStages
    <3>2. req'[r].pc = "google.src" /\ req'[r].sub = req[r].sub /\ req'[r].idn = r
      <4>1. req'[r] = [req[r] EXCEPT !.pc = "google.src", !.idn = r]
        BY <1>1, <2>2
      <4> QED
        BY <1>1, <4>1 DEF Local
    <3>3. row # None /\ row.challenge = None
      BY <3>1, RowAssumption, ProviderAssumption DEF IdnRow, Maybe
    <3> HIDE DEF row
    <3>4. idns'[r] = row /\ \A i \in IdnId : i # r => idns'[i] = idns[i]
      BY <1>1, <2>2 DEF TypeOK, IdnId
    <3>5. Passkeyed(r)'
      BY <1>1, <3>1, <3>2, <3>3, <3>4 DEF Passkeyed
    <3>6. RowsOn(r)
      BY <3>1, <3>2, <3>3, <3>4 DEF RowsOn, SameKey
    <3> QED
      BY <3>1, <3>2, <3>5, <3>6, PlainPairs DEF Fits
  <2> QED
    BY <1>5, <2>1, <2>2 DEF GoogleIdn, NewIdn
<1>6. CASE GoogleSrc(r)
  <2>1. CASE Return(r) /\ UNCHANGED srcs
    BY <1>6, <2>1, ReturnFits DEF GoogleSrc, browser
  <2>2. CASE NewIdnSrc(req[r], 0) /\ GoTo(r, "google.code")
    <3>1. /\ req[r].pc = "google.src" /\ req'[r].pc = "google.code" /\ req'[r].sub = req[r].sub
          /\ UNCHANGED <<states, idns, pages>>
      BY <1>6, <2>2, OnwardToo DEF GoogleSrc, At, browser
    <3>2. Passkeyed(r)'
      BY <1>1, <3>1 DEF Passkeyed
    <3>3. RowsOn(r)
      BY <2>2, <3>1 DEF RowsOn, NewIdnSrc, SameKey
    <3> QED
      BY <3>1, <3>2, <3>3, PlainPairs DEF Fits
  <2> QED
    BY <1>6, <2>1, <2>2 DEF GoogleSrc
<1>7. CASE NewCode(r, "google.code")
  BY <1>7, ReturnFits DEF NewCode, browser
<1> QED
  BY <1>2, <1>3, <1>4, <1>5, <1>6, <1>7 DEF GoogleNext

LEMMA TokenFits ==
  ASSUME ServerInv, PasskeyInv, NEW r \in Request, TokenNext(r)
  PROVE  Fits(r)
<1> USE DEF PastIdn, Ended, CredStages, PasskeyStages, AssertionStages
<1>1. ASSUME NEW c \in Request, NEW a \in App, TokenBegin(r, c, a) PROVE Fits(r)
  <2>1. req[r].pc = "idle" /\ req'[r].pc = "token.expire"
    BY <1>1 DEF TokenBegin, At, Begin, Fresh, ServerInv, TypeOK
  <2> QED
    BY <1>1, <2>1, ApartFits DEF TokenBegin, tables, browser
<1>2. CASE TokenExpire(r)
  <2>1. CASE Return(r)
    BY <1>2, <2>1, ReturnFits DEF TokenExpire, browser
  <2>2. CASE GoTo(r, "token.insert")
    BY <1>2, <2>2, OnwardToo, ApartFits DEF TokenExpire, At, browser
  <2> QED
    BY <1>2, <2>1, <2>2 DEF TokenExpire
<1>3. CASE TokenInsert(r)
  BY <1>3, OnwardToo, ApartFits DEF TokenInsert, At, browser
<1>4. CASE TokenSign(r)
  BY <1>4, ReturnFits DEF TokenSign, tables, browser
<1> QED
  BY <1>1, <1>2, <1>3, <1>4 DEF TokenNext

LEMMA RequestFits ==
  ASSUME ServerInv, ChallengeInv, SourceInv, PasskeyInv, NEW r \in Request, Serve(r) \/ Fail(r)
  PROVE  Fits(r)
<1>1. CASE Serve(r)
  BY <1>1, SignInFits, SignUpFits, VerifyFits, CredentialFits, PasskeyFits, PasswordFits, GoogleFits,
     TokenFits DEF Serve
<1>2. CASE Fail(r)
  BY <1>2, ReturnFits DEF Fail, tables, browser
<1> QED
  BY <1>1, <1>2

-------------------------------------------------------------------------------
\* No pair of a challenge and a passkey provider is there that was not there
\* before, but for the request that draws the challenge.
LEMMA PairsLittle ==
  ASSUME ServerInv, NEW r \in Request, Leaves(r), Tells(r), PairsOn(r),
         NEW c \in Request, NEW p \in Provider, IsPasskey(p), Pairs(c, p)'
  PROVE  Pairs(c, p) \/ (Draws(r) /\ c = r /\ p = req[r].provider)
<1>1. ASSUME NEW s \in StateId, states'[s] # None, states'[s].challenge = c, states'[s].provider = p
      PROVE  Pairs(c, p) \/ (Draws(r) /\ c = r /\ p = req[r].provider)
  BY <1>1 DEF PairsOn, Pairs
<1>2. ASSUME NEW q \in Request, req'[q].pc \in CopyStages,
             req'[q].copy.challenge = c, req'[q].copy.provider = p
      PROVE  Pairs(c, p)
  BY <1>2 DEF Leaves, Tells, CopiesOn, Pairs
<1> QED
  BY <1>1, <1>2 DEF Pairs

LEMMA PairsDrawn ==
  ASSUME ServerInv, ChallengeInv, NEW c \in Request, NEW p, Pairs(c, p)
  PROVE  Drawn(c)
<1>1. ASSUME NEW s \in StateId, states[s] # None, states[s].challenge = c PROVE Drawn(c)
  <2>1. states[s].login \in Maybe(Login)
    BY <1>1 DEF ServerInv, TypeOK, Maybe, StateRow
  <2> QED
    BY <1>1, <2>1 DEF ChallengeInv, Says
<1>2. ASSUME NEW q \in Request, req[q].pc \in CopyStages, req[q].copy.challenge = c PROVE Drawn(c)
  <2>1. req[q].copy \in StateRow
    BY <1>2 DEF ServerInv, Mine, Locals
  <2>2. req[q].copy.login \in Maybe(Login)
    BY <2>1 DEF StateRow
  <2> QED
    BY <1>2, <2>2 DEF ChallengeInv, Says
<1> QED
  BY <1>1, <1>2 DEF Pairs

\* What stays: an identity, a credential of a login.
LEMMA IdnsStay ==
  ASSUME PasskeyInv, NEW r \in Request, RowsOn(r), Leaves(r), NEW i \in IdnId, idns[i] # None
  PROVE  idns'[i] = idns[i]
BY DEF PasskeyInv, RowsOn, Leaves, PastIdn

LEMMA OffersStay ==
  ASSUME ServerInv, PasskeyInv, NEW r \in Request, RowsOn(r), Leaves(r), Grows,
         NEW p, NEW k, NEW l, Offered(p, k, l)
  PROVE  Offered(p, k, l)'
<1>1. PICK old \in srcs : old.provider = p /\ old.sub = k /\ idns[old.idn].login = l
  BY DEF Offered
<1>2. PICK new \in srcs' : SameKey(old, new)
  BY DEF Grows, Advances, SameKey
<1>3. old.idn \in IdnId /\ idns[old.idn] # None
  BY DEF ServerInv, TypeOK, SrcRow, PasskeyInv
<1>4. idns'[old.idn] = idns[old.idn]
  BY <1>3, IdnsStay
<1> QED
  BY <1>1, <1>2, <1>4 DEF Offered, SameKey

\* The whole of PasskeyInv, from what the step does.
LEMMA PasskeysStay ==
  ASSUME ServerInv, ServerInv', ChallengeInv, SourceInv, PasskeyInv,
         NEW r \in Request, Leaves(r), Tells(r), Sources(r), Fits(r)
  PROVE  PasskeyInv'
<1>1. PairsOn(r) /\ RowsOn(r) /\ Passkeyed(r)' /\ Grows
  BY DEF Fits, Sources
<1>2. \A p, k, l : Offered(p, k, l) => Offered(p, k, l)'
  BY <1>1, OffersStay
<1>3. \A i \in IdnId : idns[i] # None => idns'[i] = idns[i]
  BY <1>1, IdnsStay
<1>4. ASSUME NEW src \in srcs' PROVE idns'[src.idn] # None
  <2>1. CASE \E old \in srcs : SameKey(old, src)
    BY <1>3, <2>1 DEF SameKey, PasskeyInv, ServerInv, TypeOK, SrcRow
  <2>2. CASE req[r].pc \in {"cred.src", "google.src"} /\ src.idn = req[r].idn
    BY <1>3, <2>2 DEF PasskeyInv, Passkeyed, IdnId
  <2> QED
    BY <1>1, <2>1, <2>2 DEF RowsOn
<1>5. ASSUME NEW i \in Request, idns'[i] # None PROVE req'[i].pc \in PastIdn
  BY <1>1, <1>5 DEF RowsOn, Leaves, PasskeyInv, IdnId
<1>6. ASSUME NEW q \in Request PROVE Passkeyed(q)'
  <2>1. CASE q = r
    BY <1>1, <2>1
  <2>2. CASE q # r
    <3>1. req'[q] = req[q] /\ Passkeyed(q)
      BY <2>2 DEF Leaves, PasskeyInv
    <3>2. req[q].pc \in AssertionStages =>
            \E src \in srcs' :
              src.idn = req[q].idn /\ src.provider = req[q].provider /\ src.sub = req[q].sub
      BY <1>1, <3>1 DEF Passkeyed, Grows, Advances, SameKey
    <3>3. \A c, l : Opened(c, l) => Opened(c, l)'
      BY <1>1 DEF RowsOn, Opened
    <3>4. idns[q] # None => idns'[q] = idns[q]
      BY <1>3 DEF IdnId
    <3> QED
      BY <3>1, <3>2, <3>3, <3>4 DEF Passkeyed, Opened
  <2> QED
    BY <2>1, <2>2
<1>7. ASSUME NEW q \in Request, req'[q].pc = "signin.page", NEW p \in Provider, IsPasskey(p), Pairs(q, p)'
      PROVE  p = req'[q].provider
  <2>1. Pairs(q, p) \/ (Draws(r) /\ q = r /\ p = req[r].provider)
    BY <1>1, <1>7, PairsLittle
  <2>2. CASE q = r
    <3>1. Draws(r) /\ req'[r].provider = req[r].provider
      BY <1>1, <1>7, <2>2 DEF Tells, OpensOwn, PairsOn
    <3>2. ~Drawn(r)
      BY <3>1 DEF Draws, Drawn, Ended
    <3> QED
      BY <2>1, <2>2, <3>1, <3>2, PairsDrawn
  <2>3. CASE q # r
    BY <1>7, <2>1, <2>3 DEF Leaves, PasskeyInv
  <2> QED
    BY <2>2, <2>3
<1>8. ASSUME NEW pg \in pages', NEW p \in Provider,
             IsPasskey(p), Pairs(pg.challenge, p)', NEW k \in pg.allow
      PROVE  Offered(p, k, pg.login)'
  <2>1. pg.challenge \in Request
    BY DEF ServerInv, TypeOK, Page
  <2>2. Pairs(pg.challenge, p) \/ (Draws(r) /\ pg.challenge = r /\ p = req[r].provider)
    BY <1>1, <1>8, <2>1, PairsLittle
  <2>3. CASE pg \in pages
    <3>1. pg.challenge # r
      BY <2>3 DEF ChallengeInv, Leaves
    <3> QED
      BY <1>2, <1>8, <2>2, <2>3, <3>1 DEF PasskeyInv
  <2>4. CASE pg \notin pages
    <3>1. req[r].pc = "signin.page" /\ Offered(req[r].provider, k, pg.login) /\ pg.challenge = r
      BY <1>1, <1>8, <2>4 DEF RowsOn, Tells, OpensOwn
    <3>2. p = req[r].provider
      BY <1>8, <2>2, <3>1 DEF PasskeyInv
    <3> QED
      BY <1>2, <3>1, <3>2
  <2> QED
    BY <2>3, <2>4
<1>9. ASSUME NEW pg \in pages', NEW other \in pages', pg.challenge = other.challenge
      PROVE  pg.login = other.login
  <2>1. \A x \in pages : x.challenge # r
    BY DEF ChallengeInv, Leaves
  <2>2. \A x \in pages' \ pages : x.challenge = r /\ x.login = req[r].login
    BY DEF Tells, OpensOwn
  <2> QED
    BY <1>9, <2>1, <2>2 DEF PasskeyInv
<1>10. ASSUME NEW i \in Request, idns'[i] # None
       PROVE  idns'[i].challenge = None \/ Opened(idns[i].challenge, idns[i].login)'
  <2>1. CASE idns'[i] = idns[i]
    BY <1>1, <1>10, <2>1 DEF PasskeyInv, RowsOn, Opened
  <2>2. CASE /\ i = r /\ req[r].pc \in CredStages
             /\ idns'[r].challenge = req[r].copy.challenge /\ idns'[r].login = req[r].copy.login
    BY <1>1, <2>2 DEF PasskeyInv, Passkeyed, RowsOn, Opened
  <2> QED
    BY <1>1, <2>1, <2>2 DEF RowsOn, IdnId
<1> QED
  BY <1>4, <1>5, <1>6, <1>7, <1>8, <1>9, <1>10 DEF PasskeyInv

LEMMA PasskeyInit ==
  ASSUME Init
  PROVE  PasskeyInv
<1>1. ASSUME NEW src \in srcs PROVE idns[src.idn] # None /\ src.idn \notin Request
  <2>1. PICK x \in Seeded : src.idn = <<x[1], x[2]>>
    BY DEF Init
  <2>2. x[1] \in Provider /\ x[2] \in Login
    BY SeededAssumption
  <2>3. src.idn \in IdnId /\ src.idn \notin Request
    BY <2>1, <2>2, NameAssumption DEF IdnId
  <2>4. idns[src.idn] = [app |-> AppOf[x[1]], login |-> x[2], via |-> "seed", challenge |-> None]
    BY <2>1, <2>3 DEF Init
  <2>5. idns[src.idn] \in IdnRow
    BY <2>2, <2>4, ProviderAssumption DEF IdnRow, Maybe
  <2> QED
    BY <2>3, <2>5, RowAssumption
<1>2. ASSUME NEW i \in Request PROVE idns[i] = None
  <2>1. \A x \in Seeded : i # <<x[1], x[2]>>
    BY SeededAssumption, NameAssumption
  <2> QED
    BY <2>1 DEF Init, IdnId
<1>3. pages = {} /\ \A r \in Request : req[r].pc = "idle"
  BY DEF Init, Fresh
<1> QED
  BY <1>1, <1>2, <1>3 DEF PasskeyInv, Passkeyed, CredStages, PasskeyStages, AssertionStages

\* The inductive invariant of the passkeys, relative to the three before.
THEOREM PasskeyInvariance == Spec => []PasskeyInv
<1>1. Init => PasskeyInv
  BY PasskeyInit
<1>2. ServerInv /\ ServerInv' /\ ChallengeInv /\ SourceInv /\ PasskeyInv /\ [Next]_vars => PasskeyInv'
  <2> SUFFICES ASSUME ServerInv, ServerInv', ChallengeInv, SourceInv, PasskeyInv, [Next]_vars
               PROVE  PasskeyInv'
    OBVIOUS
  <2>1. ASSUME NEW r \in Request, Serve(r) \/ Fail(r) PROVE PasskeyInv'
    BY <2>1, RequestSources, RequestTells, RequestFits, PasskeysStay
  <2>2. ASSUME NEW s \in StateId, NEW a \in App, Authorize(s, a) PROVE PasskeyInv'
    <3>1. UNCHANGED <<idns, srcs, req, pages>>
      BY <2>2 DEF Authorize, browser
    <3>2. \A c \in Request, p \in Provider : Pairs(c, p)' => Pairs(c, p)
      <4>1. NewAuthState(a).challenge \notin Request
        BY Constants DEF NewAuthState
      <4>2. states' = [states EXCEPT ![s] = NewAuthState(a)] /\ TypeOK
        BY <2>2 DEF Authorize, ServerInv
      <4> QED
        BY <3>1, <4>1, <4>2 DEF Pairs, TypeOK
    <3>3. \A pg \in pages : pg.challenge \in Request
      BY DEF ServerInv, TypeOK, Page
    <3>4. \A r \in Request : Passkeyed(r)'
      BY <3>1 DEF PasskeyInv, Passkeyed, Offered, Opened
    <3> QED
      BY <3>1, <3>2, <3>3, <3>4 DEF PasskeyInv, Offered, Opened
  <2>3. CASE UNCHANGED <<states, idns, srcs, req, pages>>
    BY <2>3 DEF PasskeyInv, Passkeyed, Pairs, Offered, Opened
  <2> QED
    BY <2>1, <2>2, <2>3 DEF Next, Lapse, vars, tables, browser
<1> QED
  BY <1>1, <1>2, ServerInvariance, ChallengeInvariance, SourceInvariance, PTL DEF Spec

\* An assertion with a credential that the page offered belongs, once it has
\* passed its tests, to an identity with the login the user gave: the page offers
\* only credentials of that login, with the provider that its challenge was drawn
\* with, and no later request pairs the challenge with another passkey provider.
\* (cbPasskey compares the challenge alone: of a credential that the page did not
\* offer nothing is said.)
THEOREM PasskeyIsOfLogin == Spec => []PasskeyMatchesLogin
<1>1. ServerInv /\ ChallengeInv /\ SourceInv /\ PasskeyInv => PasskeyMatchesLogin
  <2> SUFFICES ASSUME ServerInv, ChallengeInv, SourceInv, PasskeyInv, NEW r \in Request, NEW pg \in pages,
                      req[r].pc \in AssertionStages, pg.challenge = req[r].copy.challenge,
                      req[r].sub \in pg.allow
               PROVE  idns[req[r].idn].login = req[r].copy.login
    BY DEF PasskeyMatchesLogin
  <2> DEFINE p == req[r].provider
  <2>1. req[r].pc \in PasskeyStages /\ req[r].pc \in CopyStages
    BY DEF AssertionStages, PasskeyStages, CompleteStages, CopyStages
  <2>2. req[r].copy.login = pg.login
    <3>1. OnlyFor(pg.challenge, pg.login) /\ req[r].copy \in StateRow
      BY <2>1 DEF ChallengeInv, ServerInv, Mine, Locals
    <3> QED
      BY <2>1, <3>1 DEF OnlyFor, Says, StateRow
  \* The copy pairs the challenge of the page with the provider of the request.
  <2>3. IsPasskey(p) /\ Pairs(pg.challenge, p)
    BY <2>1 DEF PasskeyInv, Passkeyed, Pairs
  <2>4. Offered(p, req[r].sub, pg.login)
    BY <2>3 DEF PasskeyInv, IsPasskey
  <2> QED
    BY <2>2, <2>4 DEF Offered, PasskeyInv, Passkeyed, SourceInv, KeysUnique
<1> QED
  BY <1>1, ServerInvariance, ChallengeInvariance, SourceInvariance, PasskeyInvariance, PTL

\* A passkey is stored for the login of every page that has its challenge: of
\* the page it was made on (credentialsHandler, which takes the login from the
\* state).
THEOREM CredentialIsOfPage == Spec => []CredentialMatchesPage
<1>1. ServerInv /\ PasskeyInv => CredentialMatchesPage
  <2> SUFFICES ASSUME ServerInv, PasskeyInv, NEW i \in Request, NEW pg \in pages,
                      idns[i] # None, idns[i].challenge = pg.challenge
               PROVE  idns[i].login = pg.login
    BY DEF CredentialMatchesPage
  <2>1. pg.challenge # None
    BY Constants DEF ServerInv, TypeOK, Page
  <2> QED
    BY <2>1 DEF PasskeyInv, Opened
<1> QED
  BY <1>1, ServerInvariance, PasskeyInvariance, PTL

-------------------------------------------------------------------------------
(***************************************************************************)
(* Logins.  The login of a state is written by a sign-in form only when an *)
(* identity has it, and by a sign-up only when its one-time code has been  *)
(* spent.  A new identity takes one that no identity has: so it is the     *)
(* second case, though POST /credentials asks for neither.                 *)
(***************************************************************************)

\* A one-time code mailed to login l, in a state of app a, has been spent.
Verified(a, l) == \E s \in StateId : states[s] # None /\ states[s].app = a /\ Proven(l, s)

Backed(a, l) == l = None \/ LoginTaken(a, l) \/ Verified(a, l)

LoginInv ==
  /\ \A s \in StateId : states[s] # None => Backed(states[s].app, states[s].login)
  /\ \A r \in Request :
       /\ req[r].pc \in CopyStages => Backed(req[r].copy.app, req[r].copy.login)
       /\ req[r].pc = "signin.passkey" => LoginTaken(req[r].copy.app, req[r].login)
  /\ \A i \in Request :
       idns[i] # None /\ idns[i].via = "passkey" /\ idns[i].login # None =>
         Verified(idns[i].app, idns[i].login)

\* No identity goes away, no code is unspent, no state changes its app.
LEMMA BackedStays ==
  ASSUME ServerInv, ProofInv, PasskeyInv, NEW r \in Request, Leaves(r), Tells(r), RowsOn(r),
         NEW a, NEW l
  PROVE  /\ LoginTaken(a, l) => LoginTaken(a, l)'
         /\ Verified(a, l) => Verified(a, l)'
         /\ Backed(a, l) => Backed(a, l)'
<1>1. ASSUME LoginTaken(a, l) PROVE LoginTaken(a, l)'
  BY <1>1, IdnsStay DEF LoginTaken
<1>2. ASSUME Verified(a, l) PROVE Verified(a, l)'
  <2>1. PICK s \in StateId : states[s] # None /\ states[s].app = a /\ Proven(l, s)
    BY <1>2 DEF Verified
  <2>2. states'[s] # None /\ states'[s].app = a
    BY <2>1 DEF Leaves, Tells, SaysOn, SameWords, ProofInv
  <2> QED
    BY <2>1, <2>2, ProvenStays DEF Verified
<1> QED
  BY <1>1, <1>2 DEF Backed

\* A sign-in form opens a passkey page only for a login with a linked passkey.
LEMMA ListedIsTaken ==
  ASSUME ServerInv, PasskeyInv, NEW r \in Request, SignInList(r), req'[r].pc = "signin.passkey"
  PROVE  /\ LoginTaken(req[r].copy.app, req[r].login)
         /\ req'[r].copy = req[r].copy /\ req'[r].login = req[r].login
<1>1. req \in [Request -> Local] /\ req[r] \in Local
  BY DEF ServerInv, TypeOK
<1>2. ~Return(r)
  BY Onward
<1>3. PICK p \in Choices(req[r].copy.app, req[r].login) :
        req' = [req EXCEPT ![r].provider = p, ![r].pc =
                  IF p # Canary /\ Slug[p] = "passkey" THEN "signin.passkey" ELSE "signin.password"]
  BY <1>2 DEF SignInList
<1>4. req'[r] = [req[r] EXCEPT !.provider = p, !.pc =
                   IF p # Canary /\ Slug[p] = "passkey" THEN "signin.passkey" ELSE "signin.password"]
  BY <1>1, <1>3
<1>5. p # Canary /\ Slug[p] = "passkey" /\ req'[r].copy = req[r].copy /\ req'[r].login = req[r].login
  BY <1>1, <1>4 DEF Local
<1>6. LinkedProviders(req[r].copy.app, req[r].login) # {}
  BY <1>3, <1>5 DEF Choices, ProviderBySlug
<1>7. PICK src \in srcs :
        idns[src.idn].app = req[r].copy.app /\ idns[src.idn].login = req[r].login
  BY <1>6 DEF LinkedProviders
<1>8. src.idn \in IdnId /\ idns[src.idn] # None
  BY <1>7 DEF ServerInv, TypeOK, SrcRow, PasskeyInv
<1> QED
  BY <1>5, <1>7, <1>8 DEF LoginTaken

LEMMA LoginStep ==
  ASSUME ServerInv, ProofInv, PasskeyInv, LoginInv, NEW r \in Request, Leaves(r), Tells(r), RowsOn(r)
  PROVE  LoginInv'
<1>1. ASSUME NEW s \in StateId, states'[s] # None
      PROVE  Backed(states[s].app, states[s].login)'
  <2>1. states[s] # None /\ Backed(states[s].app, states[s].login)
    BY <1>1 DEF LoginInv, Tells, SaysOn
  <2>2. CASE SameWords(states'[s], states[s])
    BY <2>1, <2>2, BackedStays DEF SameWords
  <2>3. CASE /\ req[r].pc \in CopyStages /\ SameWords(states'[s], req[r].copy)
    BY <2>3, BackedStays DEF SameWords, LoginInv
  <2>4. CASE /\ s = req[r].tok /\ req[r].pc \in CopyStages
             /\ states'[s].app = req[r].copy.app
             /\ Draws(r) /\ states'[s].login = req[r].login
    <3>1. Backed(req[r].copy.app, req[r].login)
      <4>1. CASE req[r].pc = "signin.passkey"
        BY <4>1 DEF LoginInv, Backed
      <4>2. CASE req[r].pc = "verify.set"
        BY <2>1, <2>4, <4>2 DEF ProofInv, Backed, Verified
      <4> QED
        BY <2>4, <4>1, <4>2 DEF Draws
    <3> QED
      BY <2>4, <3>1, BackedStays
  <2> QED
    BY <1>1, <2>2, <2>3, <2>4 DEF Tells, SaysOn
<1>2. ASSUME NEW q \in Request, req'[q].pc \in CopyStages
      PROVE  Backed(req[q].copy.app, req[q].copy.login)'
  <2>1. CASE req[q].pc \in CopyStages /\ req'[q].copy = req[q].copy
    BY <2>1, BackedStays DEF LoginInv
  <2>2. CASE req'[q].tok \in StateId /\ states[req'[q].tok] # None /\ req'[q].copy = states[req'[q].tok]
    BY <2>2, BackedStays DEF LoginInv
  <2> QED
    BY <1>2, <2>1, <2>2 DEF Leaves, Tells, CopiesOn
<1>3. ASSUME NEW q \in Request, req'[q].pc = "signin.passkey"
      PROVE  LoginTaken(req[q].copy.app, req[q].login)'
  <2>1. CASE q = r
    <3>1. SignInList(r)
      BY <1>3, <2>1 DEF Tells, ProvesOn
    <3> QED
      BY <1>3, <2>1, <3>1, ListedIsTaken, BackedStays
  <2>2. CASE q # r
    BY <1>3, <2>2, BackedStays DEF Leaves, LoginInv
  <2> QED
    BY <2>1, <2>2
<1>4. ASSUME NEW i \in Request, idns'[i] # None, idns'[i].via = "passkey", idns'[i].login # None
      PROVE  Verified(idns[i].app, idns[i].login)'
  <2>1. CASE idns'[i] = idns[i]
    BY <1>4, <2>1, BackedStays DEF LoginInv
  <2>2. CASE /\ req[r].pc \in CopyStages /\ ~LoginTaken(req[r].copy.app, req[r].copy.login)
             /\ idns'[i].app = req[r].copy.app /\ idns'[i].login = req[r].copy.login
    BY <1>4, <2>2, BackedStays DEF LoginInv, Backed
  <2> QED
    BY <1>4, <2>1, <2>2 DEF Tells, ProvesOn
<1> QED
  BY <1>1, <1>2, <1>3, <1>4 DEF LoginInv

\* Nothing happens to what LoginInv speaks of, but for a state that is new.
LEMMA LoginIdle ==
  ASSUME ServerInv, LoginInv, UNCHANGED <<otps, idns, req>>,
         \A s \in StateId :
           /\ states[s] # None => states'[s] = states[s]
           /\ states[s] = None /\ states'[s] # None => states'[s].login = None
  PROVE  LoginInv'
<1>1. \A a, l : LoginTaken(a, l) => LoginTaken(a, l)'
  BY DEF LoginTaken
<1>2. \A a, l : Verified(a, l) => Verified(a, l)'
  BY DEF Verified, Proven
<1>3. \A a, l : Backed(a, l) => Backed(a, l)'
  BY <1>1, <1>2 DEF Backed
<1>4. ASSUME NEW s \in StateId, states'[s] # None PROVE Backed(states[s].app, states[s].login)'
  <2>1. CASE states[s] # None
    BY <1>3, <2>1 DEF LoginInv
  <2>2. CASE states[s] = None
    BY <1>4, <2>2 DEF Backed
  <2> QED
    BY <2>1, <2>2
<1> QED
  BY <1>1, <1>2, <1>3, <1>4 DEF LoginInv

\* The inductive invariant of the logins, relative to those before.
THEOREM LoginInvariance == Spec => []LoginInv
<1>1. Init => LoginInv
  <2> SUFFICES ASSUME Init PROVE LoginInv
    OBVIOUS
  <2>1. PasskeyInv /\ \A r \in Request : req[r].pc = "idle"
    BY PasskeyInit DEF Init, Fresh
  <2>2. /\ \A r \in Request : idns[r] = None /\ req[r].pc \notin CopyStages
        /\ \A s \in StateId : states[s] = None
    BY <2>1 DEF Init, PasskeyInv, PastIdn, Ended, CopyStages, SignInStages, CompleteStages, CredStages,
       PasskeyStages, PasswordStages, GoogleStages
  <2> QED
    BY <2>1, <2>2 DEF LoginInv
<1>2. ServerInv /\ ChallengeInv /\ ProofInv /\ SourceInv /\ PasskeyInv /\ LoginInv /\ [Next]_vars => LoginInv'
  <2> SUFFICES ASSUME ServerInv, ChallengeInv, ProofInv, SourceInv, PasskeyInv, LoginInv, [Next]_vars
               PROVE  LoginInv'
    OBVIOUS
  <2>1. ASSUME NEW r \in Request, Serve(r) \/ Fail(r) PROVE LoginInv'
    BY <2>1, RequestTells, RequestFits, LoginStep DEF Fits
  <2>2. ASSUME NEW s \in StateId, NEW a \in App, Authorize(s, a) PROVE LoginInv'
    <3>1. /\ states[s] = None /\ states' = [states EXCEPT ![s] = NewAuthState(a)]
          /\ UNCHANGED <<otps, idns, req>> /\ TypeOK
      BY <2>2 DEF Authorize, ServerInv
    <3>2. NewAuthState(a).login = None
      BY DEF NewAuthState
    <3> QED
      BY <3>1, <3>2, LoginIdle DEF TypeOK
  <2>3. CASE UNCHANGED <<states, otps, idns, req>>
    BY <2>3, LoginIdle
  <2> QED
    BY <2>1, <2>2, <2>3 DEF Next, Lapse, vars, tables
<1> QED
  BY <1>1, <1>2, ServerInvariance, ChallengeInvariance, SourceInvariance, PasskeyInvariance, PTL DEF Spec

\* An identity that a passkey sign-up made has a login whose one-time code was
\* spent, in a state of the same app, or it has none (the login of an auth state
\* that no page has been opened in is empty, and POST /credentials takes it).
THEOREM LoginIsProven == Spec => []VerifiedLogin
<1>1. LoginInv => VerifiedLogin
  BY DEF LoginInv, Verified, Proven, VerifiedLogin
<1> QED
  BY <1>1, LoginInvariance, PTL

-------------------------------------------------------------------------------
(***************************************************************************)
(* Apps.  A row of providers belongs to one app, and so does an identity;  *)
(* an auth state, a code and an access token each name a provider or an    *)
(* identity, and the handlers compare their apps only here and there (cb.go *)
(* and providers.go do, sign-up.go does not).  All rests on the sources:    *)
(* each links an identity to a provider of the same app, or to one that a   *)
(* sign-up form has named in a state of another app.                        *)
(***************************************************************************)

\* The providers that verified sign-up forms have named in states of other apps.
Foreign == {p \in Provider : ForeignForm(p)}

\* A provider of app a, a foreign one, or none at all.
Suits(p, a) == p \in Provider => AppOf[p] = a \/ p \in Foreign

\* An identity of app a, if provider p is not a foreign one.
IdnOf(i, a, p) == idns[i] # None /\ (idns[i].app = a \/ p \in Foreign)

\* What the local variables of a request and the rows it added have to do with apps.
OneApp(r) ==
  LET q == req[r] IN
  /\ q.pc \in CopyStages => Suits(q.copy.provider, q.copy.app) /\ Suits(q.provider, q.copy.app)
  /\ q.pc \in {"signup.otp", "verify.state"} => states[q.tok] # None
  /\ q.pc = "verify.state" => Suits(q.provider, states[q.tok].app)
  /\ q.pc = "verify.expire" => q.provider = otps[q.tok].provider
  /\ q.pc \in IdnStages => IdnOf(q.idn, q.copy.app, q.provider)
  /\ q.pc \in {"token.expire", "token.insert"} => IdnOf(q.copy.sub, q.copy.client, q.copy.provider)
  /\ q.pc = "token.insert" => q.copy.client = q.client

RowsOfApp(r) ==
  /\ otps[r] # None => states[otps[r].state] # None
  /\ codes[r] # None => IdnOf(codes[r].sub, codes[r].client, codes[r].provider)
  /\ atoks[r] # None => IdnOf(atoks[r].sub, atoks[r].app, atoks[r].provider)

AppInv ==
  /\ \A s \in StateId : states[s] # None => Suits(states[s].provider, states[s].app)
  /\ \A src \in srcs : Suits(src.provider, idns[src.idn].app)
  /\ \A r \in Request : OneApp(r) /\ RowsOfApp(r)

\* What a step of r does with providers and subjects: it leaves those of a row,
\* or writes those it holds.
AppsOn(r) ==
  /\ \A s \in StateId :
       states'[s] # None =>
         /\ states[s] # None
         /\ \/ states'[s].provider = states[s].provider
            \/ s = req[r].tok /\ req[r].pc \in CopyStages /\ states'[s].provider = req[r].provider
  /\ \A o \in Request :
       otps'[o] # None =>
         \/ otps[o] # None /\ otps'[o].state = otps[o].state
         \/ o = r /\ req[r].pc = "signup.otp" /\ otps'[o].state = req[r].tok
  /\ \A c \in Request :
       codes'[c] # None =>
         \/ /\ codes[c] # None /\ codes'[c].sub = codes[c].sub
            /\ codes'[c].client = codes[c].client /\ codes'[c].provider = codes[c].provider
         \/ /\ c = r /\ req[r].pc \in IdnStages /\ codes'[c].sub = req[r].idn
            /\ codes'[c].client = req[r].copy.app /\ codes'[c].provider = req[r].provider
  /\ atoks'[r] # None =>
       \/ atoks'[r] = atoks[r]
       \/ /\ req[r].pc = "token.insert" /\ atoks'[r].sub = req[r].copy.sub
          /\ atoks'[r].app = req[r].client /\ atoks'[r].provider = req[r].copy.provider

Belongs(r) == AppsOn(r) /\ OneApp(r)'

LEMMA PlainApps ==
  ASSUME NEW r \in Request, UNCHANGED <<states, otps, codes, atoks>>
  PROVE  AppsOn(r)
BY DEF AppsOn

\* Stages at which a request has nothing to do with apps.
LEMMA NoApp ==
  ASSUME NEW r \in Request,
         req'[r].pc \notin CopyStages
           \cup {"signup.otp", "verify.expire", "verify.state", "token.expire", "token.insert"}
  PROVE  OneApp(r)'
BY DEF OneApp, IdnStages, CopyStages, CompleteStages, CredStages, PasskeyStages, PasswordStages,
   GoogleStages

LEMMA ReturnBelongs ==
  ASSUME ServerInv, NEW r \in Request, Return(r) \/ Fail(r)
  PROVE  OneApp(r)'
<1>1. req'[r].pc \in Ended
  BY Constants DEF Return, Fail, ServerInv, TypeOK, Ended
<1> QED
  BY <1>1, NoApp DEF Ended, CopyStages, SignInStages, CompleteStages, CredStages, PasskeyStages,
     PasswordStages, GoogleStages

\* A request that goes on with its copy, its provider and its identity.
LEMMA OnwardBelongs ==
  ASSUME ServerInv, AppInv, Foreign \subseteq Foreign', NEW r \in Request,
         UNCHANGED idns, NEW pc, GoTo(r, pc),
         req[r].pc \in CopyStages, pc \in CopyStages,
         pc \in IdnStages => req[r].pc \in IdnStages
  PROVE  OneApp(r)'
<1>1. /\ req'[r].pc = pc /\ req'[r].copy = req[r].copy
      /\ req'[r].idn = req[r].idn /\ req'[r].provider = req[r].provider
  BY OnwardToo
<1>2. pc \notin {"signup.otp", "verify.expire", "verify.state", "token.expire", "token.insert"}
  BY DEF CopyStages, SignInStages, CompleteStages, CredStages, PasskeyStages, PasswordStages,
     GoogleStages
<1>3. OneApp(r)
  BY DEF AppInv
<1> QED
  BY <1>1, <1>2, <1>3 DEF OneApp, IdnOf, Suits

LEMMA ExpireBelongs ==
  ASSUME ServerInv, AppInv, Foreign \subseteq Foreign', NEW r \in Request,
         NEW from, NEW to, ExpireState(r, from, to),
         \/ from = "cred.expire" /\ to = "cred.code"
         \/ from = "passkey.expire" /\ to = "passkey.code"
         \/ from = "password.expire" /\ to = "password.code"
         \/ from = "google.expire" /\ to = "google.find"
  PROVE  Belongs(r)
<1>1. CASE Return(r) /\ UNCHANGED states
  BY <1>1, ReturnBelongs, PlainApps DEF ExpireState, Belongs
<1>2. CASE states' = [states EXCEPT ![req[r].tok].spentBy = r] /\ GoTo(r, to)
  <2>1. /\ req[r].pc = from /\ TypeOK /\ UNCHANGED <<otps, codes, atoks, idns>>
        /\ req[r].pc \in CopyStages /\ to \in CopyStages
        /\ to \in IdnStages => req[r].pc \in IdnStages
    BY <1>2 DEF ExpireState, At, ServerInv, IdnStages, CopyStages, CompleteStages, CredStages,
       PasskeyStages, PasswordStages, GoogleStages
  <2>2. AppsOn(r)
    <3>1. /\ req[r].tok \in StateId /\ states[req[r].tok] # None /\ states[req[r].tok] \in StateRow
      BY <2>1 DEF ServerInv, Mine, Locals, TypeOK, Maybe
    <3>2. [states[req[r].tok] EXCEPT !.spentBy = r].provider = states[req[r].tok].provider
      BY <3>1 DEF StateRow
    <3> QED
      BY <1>2, <2>1, <3>1, <3>2 DEF TypeOK, AppsOn
  <2> QED
    BY <1>2, <2>1, <2>2, OnwardBelongs DEF Belongs
<1> QED
  BY <1>1, <1>2 DEF ExpireState

\* SetAttrs, when the provider it writes is the one the request holds.
LEMMA WriteApps ==
  ASSUME ServerInv, NEW r \in Request, req[r].pc \in CopyStages, NEW attrs \in StateRow,
         SetAttrs(r, attrs), attrs.provider = req[r].provider, UNCHANGED <<otps, codes, atoks>>
  PROVE  AppsOn(r)
<1> DEFINE s == req[r].tok
           row == [attrs EXCEPT !.rev = @ + 1, !.spentBy = states[s].spentBy]
<1>1. s \in StateId /\ states[s] # None /\ states \in [StateId -> Maybe(StateRow)]
  BY DEF ServerInv, Mine, Locals, TypeOK
<1>2. row.provider = attrs.provider
  <2> HIDE DEF s
  <2> QED
    BY DEF StateRow
<1>3. states'[s] = row /\ \A x \in StateId : x # s => states'[x] = states[x]
  <2> HIDE DEF row
  <2> QED
    BY <1>1 DEF SetAttrs, row
<1> HIDE DEF row
<1> QED
  BY <1>1, <1>2, <1>3 DEF AppsOn

\* NewAuthCode.
LEMMA CodeBelongs ==
  ASSUME ServerInv, NEW r \in Request, NEW from, NewCode(r, from),
         from \in {"cred.code", "passkey.code", "password.code", "google.code"}
  PROVE  Belongs(r)
<1>1. /\ codes'[r].sub = req[r].idn /\ codes'[r].client = req[r].copy.app
      /\ codes'[r].provider = req[r].provider
      /\ \A c \in Request : c # r => codes'[c] = codes[c]
      /\ req[r].pc \in IdnStages /\ UNCHANGED <<states, otps, atoks>>
  BY DEF NewCode, At, ServerInv, TypeOK, IdnStages
<1>2. AppsOn(r)
  BY <1>1 DEF AppsOn
<1> QED
  BY <1>2, ReturnBelongs DEF NewCode, Belongs

\* A source that a request finds for its provider is one of an identity of its app.
LEMMA FoundBelongs ==
  ASSUME PasskeyInv, AppInv, NEW p \in Provider, NEW k, NEW src \in SourceOf(p, k), NEW a, Suits(p, a)
  PROVE  IdnOf(src.idn, a, p)
BY DEF PasskeyInv, AppInv, SourceOf, Suits, IdnOf

\* The providers a login may be asked to use are of the app.
LEMMA ChoicesSuit ==
  ASSUME AppInv, NEW a, NEW l, NEW p \in Choices(a, l)
  PROVE  Suits(p, a)
<1>1. \A x \in LinkedProviders(a, l) : Suits(x, a)
  BY DEF LinkedProviders, AppInv
<1>2. \A x \in ProviderBySlug(a, "password") : Suits(x, a)
  BY DEF ProviderBySlug, Suits
<1>3. Suits(Canary, a)
  BY NoneAssumption DEF Suits
<1> QED
  BY <1>1, <1>2, <1>3 DEF Choices

LEMMA SignInBelongs ==
  ASSUME ServerInv, AppInv, Foreign \subseteq Foreign', NEW r \in Request, SignInNext(r)
  PROVE  Belongs(r)
<1>1. req \in [Request -> Local] /\ req[r] \in Local /\ Locals(r) /\ OneApp(r)
  BY DEF ServerInv, TypeOK, Mine, AppInv
<1>2. ASSUME NEW s \in StateId, NEW l \in Login, SignInBegin(r, s, l) PROVE Belongs(r)
  <2>1. req'[r].pc = "signin.list" /\ req'[r].copy = states[s] /\ req'[r].provider = None
    BY <1>1, <1>2 DEF SignInBegin, Begin, Fresh
  <2>2. Suits(states[s].provider, states[s].app) /\ Suits(None, states[s].app)
    BY <1>2, NoneAssumption DEF SignInBegin, Live, AppInv, Suits
  <2>3. OneApp(r)'
    BY <2>1, <2>2 DEF OneApp, Suits, IdnStages
  <2> QED
    BY <1>2, <2>3, PlainApps DEF SignInBegin, tables, Belongs
<1>3. CASE SignInList(r)
  <2>1. CASE Return(r)
    BY <1>3, <2>1, ReturnBelongs, PlainApps DEF SignInList, tables, Belongs
  <2>2. ASSUME NEW p \in Choices(req[r].copy.app, req[r].login),
               req' = [req EXCEPT ![r].provider = p, ![r].pc =
                         IF p # Canary /\ Slug[p] = "passkey" THEN "signin.passkey"
                                                              ELSE "signin.password"]
        PROVE  Belongs(r)
    <3> DEFINE pc == IF p # Canary /\ Slug[p] = "passkey" THEN "signin.passkey" ELSE "signin.password"
    <3>1. req'[r] = [req[r] EXCEPT !.provider = p, !.pc = pc]
      BY <1>1, <2>2
    <3> HIDE DEF pc
    <3>2. /\ req'[r].pc \in {"signin.passkey", "signin.password"}
          /\ req'[r].provider = p /\ req'[r].copy = req[r].copy
      BY <1>1, <3>1 DEF Local, pc
    <3>3. Suits(p, req[r].copy.app) /\ Suits(req[r].copy.provider, req[r].copy.app)
      BY <1>1, <1>3, ChoicesSuit DEF SignInList, At, OneApp, CopyStages, SignInStages
    <3>4. OneApp(r)'
      BY <3>2, <3>3 DEF OneApp, Suits, IdnStages
    <3> QED
      BY <1>3, <3>4, PlainApps DEF SignInList, tables, Belongs
  <2> QED
    BY <1>3, <2>1, <2>2 DEF SignInList
<1>4. CASE SignInPassword(r)
  <2>1. OneApp(r)' /\ (UNCHANGED states => AppsOn(r))
    BY <1>4, ReturnBelongs, PlainApps DEF SignInPassword
  <2>2. CASE SetAttrs(r, [req[r].copy EXCEPT !.provider = req[r].provider])
    <3> DEFINE attrs == [req[r].copy EXCEPT !.provider = req[r].provider]
    <3>1. req[r].pc = "signin.password"
      BY <1>4 DEF SignInPassword, At
    <3>2. attrs \in StateRow /\ attrs.provider = req[r].provider
      BY <1>1, <3>1 DEF Locals, StateRow, Maybe, CopyStages, SignInStages
    <3> HIDE DEF attrs
    <3>3. AppsOn(r)
      BY <1>4, <2>2, <3>1, <3>2, WriteApps DEF SignInPassword, attrs, CopyStages, SignInStages
    <3> QED
      BY <2>1, <3>3 DEF Belongs
  <2> QED
    BY <1>4, <2>1, <2>2 DEF SignInPassword, Belongs
<1>5. CASE SignInPasskey(r)
  <2>1. CASE Return(r) /\ UNCHANGED states
    BY <1>5, <2>1, ReturnBelongs, PlainApps DEF SignInPasskey, Belongs
  <2> DEFINE attrs == [req[r].copy EXCEPT !.login = req[r].login, !.provider = req[r].provider,
                                          !.challenge = r]
  <2>2. CASE SetAttrs(r, attrs) /\ GoTo(r, "signin.page")
    <3>1. req[r].pc = "signin.passkey" /\ UNCHANGED <<otps, codes, atoks, idns>>
      BY <1>5 DEF SignInPasskey, At
    <3>2. attrs \in StateRow /\ attrs.provider = req[r].provider
      BY <1>1, <3>1 DEF Locals, StateRow, Maybe, CopyStages, SignInStages
    <3> HIDE DEF attrs
    <3>3. AppsOn(r)
      BY <2>2, <3>1, <3>2, WriteApps DEF CopyStages, SignInStages
    <3>4. OneApp(r)'
      BY <2>2, <3>1, OnwardBelongs DEF CopyStages, SignInStages, IdnStages
    <3> QED
      BY <3>3, <3>4 DEF Belongs
  <2> QED
    BY <1>5, <2>1, <2>2 DEF SignInPasskey
<1>6. CASE SignInPage(r)
  BY <1>6, ReturnBelongs, PlainApps DEF SignInPage, tables, Belongs
<1> QED
  BY <1>2, <1>3, <1>4, <1>5, <1>6 DEF SignInNext

LEMMA SignUpBelongs ==
  ASSUME ServerInv, AppInv, Foreign \subseteq Foreign', NEW r \in Request, SignUpNext(r)
  PROVE  Belongs(r)
<1>1. ASSUME NEW s \in StateId, NEW l \in Login, NEW p \in Provider, SignUpBegin(r, s, l, p)
      PROVE  Belongs(r)
  <2>1. /\ req[r].pc = "idle" /\ req'[r].pc = "signup.otp"
        /\ req'[r].tok = s /\ req'[r].provider = p
    BY <1>1 DEF SignUpBegin, At, Begin, Fresh, ServerInv, TypeOK
  <2>2. states'[s] # None
    BY <1>1 DEF SignUpBegin, Live, tables
  <2>3. OneApp(r)'
    BY <2>1, <2>2 DEF OneApp, IdnStages, CopyStages, SignInStages, CompleteStages, CredStages,
       PasskeyStages, PasswordStages, GoogleStages
  <2> QED
    BY <1>1, <2>3, PlainApps DEF SignUpBegin, tables, Belongs
<1>2. CASE SignUpOtp(r)
  <2>1. req[r].pc = "signup.otp" /\ req'[r].pc = "signup.mail"
    BY <1>2, Onward DEF SignUpOtp, At
  <2>2. OneApp(r)'
    BY <2>1, NoApp DEF CopyStages, SignInStages, CompleteStages, CredStages, PasskeyStages,
       PasswordStages, GoogleStages
  <2>3. AppsOn(r)
    BY <1>2, <2>1 DEF SignUpOtp, AppsOn, ServerInv, TypeOK
  <2> QED
    BY <2>2, <2>3 DEF Belongs
<1>3. CASE SignUpMail(r)
  BY <1>3, ReturnBelongs, PlainApps DEF SignUpMail, tables, Belongs
<1> QED
  BY <1>1, <1>2, <1>3 DEF SignUpNext

LEMMA VerifyBelongs ==
  ASSUME ServerInv, AppInv, Foreign \subseteq Foreign', NEW r \in Request, VerifyNext(r)
  PROVE  Belongs(r)
<1>1. req \in [Request -> Local] /\ req[r] \in Local /\ Locals(r) /\ OneApp(r) /\ TypeOK
  BY DEF ServerInv, TypeOK, Mine, AppInv
<1> USE DEF CopyStages, SignInStages, CompleteStages, CredStages, PasskeyStages, PasswordStages,
            GoogleStages, IdnStages
<1>2. ASSUME NEW o \in Request, VerifyBegin(r, o) PROVE Belongs(r)
  <2>1. CASE Return(r)
    BY <1>2, <2>1, ReturnBelongs, PlainApps DEF VerifyBegin, tables, Belongs
  <2>2. CASE Begin(r, "verify.expire",
                   [Fresh EXCEPT !.tok = o, !.login = otps[o].login, !.provider = otps[o].provider])
    <3>1. req'[r].pc = "verify.expire" /\ req'[r].tok = o /\ req'[r].provider = otps[o].provider
      BY <1>1, <2>2 DEF Begin, Fresh
    <3>2. OneApp(r)'
      BY <1>2, <3>1 DEF VerifyBegin, tables, OneApp
    <3> QED
      BY <1>2, <3>2, PlainApps DEF VerifyBegin, tables, Belongs
  <2> QED
    BY <1>2, <2>1, <2>2 DEF VerifyBegin, ReturnWithoutNonce
<1>3. CASE VerifyExpire(r)
  <2> DEFINE o == req[r].tok
  <2>1. CASE Return(r) /\ UNCHANGED otps
    BY <1>3, <2>1, ReturnBelongs, PlainApps DEF VerifyExpire, Belongs
  <2>2. CASE /\ otps' = [otps EXCEPT ![o].spentBy = r]
             /\ req' = [req EXCEPT ![r].pc = "verify.state", ![r].tok = otps[o].state]
    <3>1. /\ req[r].pc = "verify.expire" /\ o \in Request /\ otps[o] # None /\ otps[o] \in OtpRow
          /\ UNCHANGED <<states, codes, atoks>>
      BY <1>1, <1>3 DEF VerifyExpire, At, Locals, TypeOK, Maybe
    <3>2. req'[r].pc = "verify.state" /\ req'[r].tok = otps[o].state /\ req'[r].provider = req[r].provider
      <4>1. req'[r] = [req[r] EXCEPT !.pc = "verify.state", !.tok = otps[o].state]
        BY <1>1, <2>2
      <4> QED
        BY <1>1, <4>1 DEF Local
    <3>3. states[otps[o].state] # None /\ req[r].provider = otps[o].provider
      BY <1>1, <3>1 DEF AppInv, RowsOfApp, OneApp
    <3>4. /\ [otps[o] EXCEPT !.spentBy = r] # None
          /\ [otps[o] EXCEPT !.spentBy = r].spentBy = r
          /\ [otps[o] EXCEPT !.spentBy = r].provider = otps[o].provider
          /\ [otps[o] EXCEPT !.spentBy = r].state = otps[o].state
      <4>1. [otps[o] EXCEPT !.spentBy = r] \in OtpRow
        BY <3>1 DEF OtpRow, Maybe
      <4> QED
        BY <3>1, <4>1, RowAssumption DEF OtpRow
    <3>5. AppsOn(r)
      BY <1>1, <2>2, <3>1, <3>4 DEF AppsOn, TypeOK
    \* The code that is spent now shows a foreign provider to be one.
    <3>6. \A p \in Provider : p = otps[o].provider /\ AppOf[p] # states[otps[o].state].app => p \in Foreign'
      <4>1. otps'[o] = [otps[o] EXCEPT !.spentBy = r] /\ r # None
        BY <1>1, <2>2, <3>1, Constants DEF TypeOK
      <4> HIDE DEF o
      <4>2. /\ otps'[o] # None /\ otps'[o].spentBy # None
            /\ otps'[o].provider = otps[o].provider /\ otps'[o].state = otps[o].state
        BY <3>4, <4>1
      <4> QED
        BY <3>1, <4>2 DEF Foreign, ForeignForm
    <3>7. OneApp(r)'
      <4>1. states'[req'[r].tok] # None
        BY <3>1, <3>2, <3>3
      <4>2. req'[r].provider \in Provider =>
              \/ AppOf[req'[r].provider] = states'[req'[r].tok].app
              \/ req'[r].provider \in Foreign'
        BY <3>1, <3>2, <3>3, <3>6
      <4> QED
        BY <3>2, <4>1, <4>2 DEF OneApp, Suits
    <3> QED
      BY <3>5, <3>7 DEF Belongs
  <2> QED
    BY <1>3, <2>1, <2>2 DEF VerifyExpire, ReturnWithoutNonce
<1>4. CASE VerifyState(r)
  <2>1. CASE Return(r)
    BY <1>4, <2>1, ReturnBelongs, PlainApps DEF VerifyState, tables, Belongs
  <2>2. CASE req' = [req EXCEPT ![r].pc = "verify.set", ![r].copy = states[req[r].tok]]
    <3>1. req[r].pc = "verify.state" /\ req[r].tok \in StateId
      BY <1>1, <1>4 DEF VerifyState, At, Locals
    <3>2. /\ req'[r].pc = "verify.set" /\ req'[r].copy = states[req[r].tok]
          /\ req'[r].provider = req[r].provider
      <4>1. req'[r] = [req[r] EXCEPT !.pc = "verify.set", !.copy = states[req[r].tok]]
        BY <1>1, <2>2
      <4> QED
        BY <1>1, <4>1 DEF Local
    <3>3. /\ Suits(states[req[r].tok].provider, states[req[r].tok].app)
          /\ Suits(req[r].provider, states[req[r].tok].app)
      BY <1>1, <3>1 DEF AppInv, OneApp
    <3>4. OneApp(r)'
      BY <3>2, <3>3 DEF OneApp, Suits
    <3> QED
      BY <1>4, <3>4, PlainApps DEF VerifyState, tables, Belongs
  <2> QED
    BY <1>4, <2>1, <2>2 DEF VerifyState, ReturnWithoutNonce
<1>5. CASE VerifySet(r)
  <2>1. OneApp(r)' /\ (UNCHANGED states => AppsOn(r))
    BY <1>5, ReturnBelongs, PlainApps DEF VerifySet, ReturnWithoutNonce
  <2> DEFINE attrs == [req[r].copy EXCEPT !.login = req[r].login, !.provider = req[r].provider,
                                          !.challenge = r]
  <2>2. CASE SetAttrs(r, attrs)
    <3>1. req[r].pc = "verify.set" /\ UNCHANGED <<otps, codes, atoks>>
      BY <1>5 DEF VerifySet, At
    <3>2. attrs \in StateRow /\ attrs.provider = req[r].provider
      BY <1>1, <3>1 DEF Locals, StateRow, Maybe
    <3> HIDE DEF attrs
    <3>3. AppsOn(r)
      BY <2>2, <3>1, <3>2, WriteApps
    <3> QED
      BY <2>1, <3>3 DEF Belongs
  <2> QED
    BY <1>5, <2>1, <2>2 DEF VerifySet, Belongs
<1> QED
  BY <1>2, <1>3, <1>4, <1>5 DEF VerifyNext

LEMMA CredentialBelongs ==
  ASSUME ServerInv, AppInv, Foreign \subseteq Foreign', NEW r \in Request, CredentialNext(r)
  PROVE  Belongs(r)
<1>1. req \in [Request -> Local] /\ req[r] \in Local /\ TypeOK /\ OneApp(r)
  BY DEF ServerInv, TypeOK, AppInv
<1> USE DEF CopyStages, SignInStages, CompleteStages, CredStages, PasskeyStages, PasswordStages,
            GoogleStages, IdnStages
<1>2. ASSUME NEW s \in StateId, NEW k \in Cred, CredentialBegin(r, s, k) PROVE Belongs(r)
  <2>1. /\ req'[r].pc = "cred.find" /\ req'[r].copy = states[s]
        /\ req'[r].provider = states[s].provider
    BY <1>1, <1>2 DEF CredentialBegin, Begin, Fresh
  <2>2. Suits(states[s].provider, states[s].app)
    BY <1>2 DEF CredentialBegin, Live, AppInv
  <2>3. OneApp(r)'
    BY <2>1, <2>2 DEF OneApp, Suits
  <2> QED
    BY <1>2, <2>3, PlainApps DEF CredentialBegin, tables, Belongs
<1>3. CASE CredentialFind(r)
  <2>1. CASE Return(r)
    BY <1>3, <2>1, ReturnBelongs, PlainApps DEF CredentialFind, tables, Belongs
  <2>2. CASE GoTo(r, "cred.idn")
    BY <1>3, <2>2, OnwardBelongs, PlainApps DEF CredentialFind, At, tables, Belongs
  <2> QED
    BY <1>3, <2>1, <2>2 DEF CredentialFind
<1>4. CASE CredentialIdn(r)
  <2>1. CASE Return(r)
    BY <1>4, <2>1, ReturnBelongs, PlainApps DEF CredentialIdn, Belongs
  <2> DEFINE row == [app |-> req[r].copy.app, login |-> req[r].copy.login, via |-> "passkey",
                     challenge |-> req[r].copy.challenge]
  <2>2. CASE /\ idns' = [idns EXCEPT ![r] = row]
             /\ req' = [req EXCEPT ![r].pc = "cred.src", ![r].idn = r]
    <3>1. /\ req[r].pc = "cred.idn" /\ UNCHANGED <<states, otps, codes, atoks>>
          /\ req[r].copy.login \in Maybe(Login) /\ req[r].copy.app \in App
          /\ req[r].copy.challenge \in Maybe(Request)
      BY <1>4 DEF CredentialIdn, At, ServerInv, Mine, Locals, StateRow
    <3>2. /\ req'[r].pc = "cred.src" /\ req'[r].copy = req[r].copy
          /\ req'[r].provider = req[r].provider /\ req'[r].idn = r
      <4>1. req'[r] = [req[r] EXCEPT !.pc = "cred.src", !.idn = r]
        BY <1>1, <2>2
      <4> QED
        BY <1>1, <4>1 DEF Local
    <3>3. row # None /\ row.app = req[r].copy.app
      BY <3>1, RowAssumption DEF IdnRow
    <3> HIDE DEF row
    <3>4. idns'[r] = row
      BY <1>1, <2>2 DEF TypeOK, IdnId
    <3>5. OneApp(r)'
      BY <1>1, <3>1, <3>2, <3>3, <3>4 DEF OneApp, Suits, IdnOf
    <3> QED
      BY <3>1, <3>5, PlainApps DEF Belongs
  <2> QED
    BY <1>4, <2>1, <2>2 DEF CredentialIdn, NewIdn
<1>5. CASE CredentialSrc(r)
  <2>1. CASE Return(r)
    BY <1>5, <2>1, ReturnBelongs, PlainApps DEF CredentialSrc, Belongs
  <2>2. CASE GoTo(r, "cred.expire")
    BY <1>5, <2>2, OnwardBelongs, PlainApps DEF CredentialSrc, At, Belongs
  <2> QED
    BY <1>5, <2>1, <2>2 DEF CredentialSrc
<1>6. CASE CredentialExpire(r)
  BY <1>6, ExpireBelongs DEF CredentialExpire
<1>7. CASE NewCode(r, "cred.code")
  BY <1>7, CodeBelongs
<1> QED
  BY <1>2, <1>3, <1>4, <1>5, <1>6, <1>7 DEF CredentialNext

LEMMA PasskeyBelongs ==
  ASSUME ServerInv, PasskeyInv, AppInv, Foreign \subseteq Foreign', NEW r \in Request, PasskeyNext(r)
  PROVE  Belongs(r)
<1>1. req \in [Request -> Local] /\ req[r] \in Local /\ Locals(r) /\ TypeOK /\ OneApp(r)
  BY DEF ServerInv, TypeOK, Mine, AppInv
<1> USE DEF CopyStages, SignInStages, CompleteStages, CredStages, PasskeyStages, PasswordStages,
            GoogleStages, IdnStages
<1>2. ASSUME NEW s \in StateId, NEW k \in Cred, NEW n \in Count, PasskeyBegin(r, s, k, n)
      PROVE  Belongs(r)
  <2>1. /\ req'[r].pc = "passkey.src" /\ req'[r].copy = states[s]
        /\ req'[r].provider = states[s].provider
    BY <1>1, <1>2 DEF PasskeyBegin, Begin, Fresh
  <2>2. Suits(states[s].provider, states[s].app)
    BY <1>2 DEF PasskeyBegin, Suits
  <2>3. OneApp(r)'
    BY <2>1, <2>2 DEF OneApp, Suits
  <2> QED
    BY <1>2, <2>3, PlainApps DEF PasskeyBegin, tables, Belongs
<1>3. CASE PasskeySrc(r)
  <2>1. CASE Return(r)
    BY <1>3, <2>1, ReturnBelongs, PlainApps DEF PasskeySrc, tables, Belongs
  <2>2. ASSUME NEW src \in SourceOf(req[r].provider, req[r].sub),
               req' = [req EXCEPT ![r].pc = "passkey.count", ![r].src = src, ![r].idn = src.idn]
        PROVE  Belongs(r)
    <3>1. req[r].pc = "passkey.src" /\ req[r].provider \in Provider /\ UNCHANGED idns
      BY <1>1, <1>3 DEF PasskeySrc, At, Locals, tables
    <3>2. /\ req'[r].pc = "passkey.count" /\ req'[r].copy = req[r].copy
          /\ req'[r].provider = req[r].provider /\ req'[r].idn = src.idn
      <4>1. req'[r] = [req[r] EXCEPT !.pc = "passkey.count", !.src = src, !.idn = src.idn]
        BY <1>1, <2>2
      <4> QED
        BY <1>1, <4>1 DEF Local
    <3>3. Suits(req[r].copy.provider, req[r].copy.app) /\ Suits(req[r].provider, req[r].copy.app)
      BY <1>1, <3>1 DEF OneApp
    <3>4. IdnOf(src.idn, req[r].copy.app, req[r].provider)
      BY <3>1, <3>3, FoundBelongs
    <3>5. OneApp(r)'
      BY <3>1, <3>2, <3>3, <3>4 DEF OneApp, Suits, IdnOf
    <3> QED
      BY <1>3, <3>5, PlainApps DEF PasskeySrc, tables, Belongs
  <2> QED
    BY <1>3, <2>1, <2>2 DEF PasskeySrc
<1>4. CASE PasskeyCount(r)
  <2>1. CASE Return(r)
    BY <1>4, <2>1, ReturnBelongs, PlainApps DEF PasskeyCount, Belongs
  <2>2. CASE GoTo(r, "passkey.expire")
    BY <1>4, <2>2, OnwardBelongs, PlainApps DEF PasskeyCount, At, Belongs
  <2> QED
    BY <1>4, <2>1, <2>2 DEF PasskeyCount
<1>5. CASE PasskeyExpire(r)
  BY <1>5, ExpireBelongs DEF PasskeyExpire
<1>6. CASE NewCode(r, "passkey.code")
  BY <1>6, CodeBelongs
<1> QED
  BY <1>2, <1>3, <1>4, <1>5, <1>6 DEF PasskeyNext

LEMMA PasswordBelongs ==
  ASSUME ServerInv, PasskeyInv, AppInv, Foreign \subseteq Foreign', NEW r \in Request, PasswordNext(r)
  PROVE  Belongs(r)
<1>1. req \in [Request -> Local] /\ req[r] \in Local /\ Locals(r) /\ TypeOK /\ OneApp(r)
  BY DEF ServerInv, TypeOK, Mine, AppInv
<1> USE DEF CopyStages, SignInStages, CompleteStages, CredStages, PasskeyStages, PasswordStages,
            GoogleStages, IdnStages
<1>2. ASSUME NEW s \in StateId, NEW l \in Login, PasswordBegin(r, s, l) PROVE Belongs(r)
  <2>1. /\ req'[r].pc = "password.src" /\ req'[r].copy = states[s]
        /\ req'[r].provider = states[s].provider
    BY <1>1, <1>2 DEF PasswordBegin, Begin, Fresh
  <2>2. Suits(states[s].provider, states[s].app)
    BY <1>2 DEF PasswordBegin, Suits
  <2>3. OneApp(r)'
    BY <2>1, <2>2 DEF OneApp, Suits
  <2> QED
    BY <1>2, <2>3, PlainApps DEF PasswordBegin, tables, Belongs
<1>3. CASE PasswordSrc(r)
  <2>1. CASE Return(r)
    BY <1>3, <2>1, ReturnBelongs, PlainApps DEF PasswordSrc, tables, Belongs
  <2>2. ASSUME NEW src \in SourceOf(req[r].provider, req[r].sub),
               req' = [req EXCEPT ![r].pc = "password.expire", ![r].idn = src.idn]
        PROVE  Belongs(r)
    <3>1. req[r].pc = "password.src" /\ req[r].provider \in Provider /\ UNCHANGED idns
      BY <1>1, <1>3 DEF PasswordSrc, At, Locals, tables
    <3>2. /\ req'[r].pc = "password.expire" /\ req'[r].copy = req[r].copy
          /\ req'[r].provider = req[r].provider /\ req'[r].idn = src.idn
      <4>1. req'[r] = [req[r] EXCEPT !.pc = "password.expire", !.idn = src.idn]
        BY <1>1, <2>2
      <4> QED
        BY <1>1, <4>1 DEF Local
    <3>3. Suits(req[r].copy.provider, req[r].copy.app) /\ Suits(req[r].provider, req[r].copy.app)
      BY <1>1, <3>1 DEF OneApp
    <3>4. IdnOf(src.idn, req[r].copy.app, req[r].provider)
      BY <3>1, <3>3, FoundBelongs
    <3>5. OneApp(r)'
      BY <3>1, <3>2, <3>3, <3>4 DEF OneApp, Suits, IdnOf
    <3> QED
      BY <1>3, <3>5, PlainApps DEF PasswordSrc, tables, Belongs
  <2> QED
    BY <1>3, <2>1, <2>2 DEF PasswordSrc
<1>4. CASE PasswordExpire(r)
  BY <1>4, ExpireBelongs DEF PasswordExpire
<1>5. CASE NewCode(r, "password.code")
  BY <1>5, CodeBelongs
<1> QED
  BY <1>2, <1>3, <1>4, <1>5 DEF PasswordNext

LEMMA GoogleBelongs ==
  ASSUME ServerInv, PasskeyInv, AppInv, Foreign \subseteq Foreign', NEW r \in Request, GoogleNext(r)
  PROVE  Belongs(r)
<1>1. req \in [Request -> Local] /\ req[r] \in Local /\ Locals(r) /\ TypeOK /\ OneApp(r)
  BY DEF ServerInv, TypeOK, Mine, AppInv
<1> USE DEF CopyStages, SignInStages, CompleteStages, CredStages, PasskeyStages, PasswordStages,
            GoogleStages, IdnStages
<1>2. ASSUME NEW s \in StateId, NEW p \in Provider, NEW g \in Login, NEW l \in Login,
             GoogleBegin(r, s, p, g, l)
      PROVE  Belongs(r)
  <2>1. req'[r].pc = "google.expire" /\ req'[r].copy = states[s] /\ req'[r].provider = p
    BY <1>1, <1>2 DEF GoogleBegin, Begin, Fresh
  <2>2. Suits(states[s].provider, states[s].app) /\ Suits(p, states[s].app)
    BY <1>2 DEF GoogleBegin, Live, AppInv, Suits
  <2>3. OneApp(r)'
    BY <2>1, <2>2 DEF OneApp, Suits
  <2> QED
    BY <1>2, <2>3, PlainApps DEF GoogleBegin, tables, Belongs
<1>3. CASE GoogleExpire(r)
  BY <1>3, ExpireBelongs DEF GoogleExpire
<1>4. CASE GoogleFind(r)
  <2>1. req[r].pc = "google.find" /\ req[r].provider \in Provider /\ UNCHANGED idns
    BY <1>1, <1>4 DEF GoogleFind, At, Locals, tables
  <2>2. CASE GoTo(r, "google.idn")
    BY <1>4, <2>1, <2>2, OnwardBelongs, PlainApps DEF GoogleFind, tables, Belongs
  <2>3. ASSUME NEW src \in SourceOf(req[r].provider, req[r].sub),
               req' = [req EXCEPT ![r].pc = "google.code", ![r].idn = src.idn]
        PROVE  Belongs(r)
    <3>1. /\ req'[r].pc = "google.code" /\ req'[r].copy = req[r].copy
          /\ req'[r].provider = req[r].provider /\ req'[r].idn = src.idn
      <4>1. req'[r] = [req[r] EXCEPT !.pc = "google.code", !.idn = src.idn]
        BY <1>1, <2>3
      <4> QED
        BY <1>1, <4>1 DEF Local
    <3>2. Suits(req[r].copy.provider, req[r].copy.app) /\ Suits(req[r].provider, req[r].copy.app)
      BY <1>1, <2>1 DEF OneApp
    <3>3. IdnOf(src.idn, req[r].copy.app, req[r].provider)
      BY <2>1, <3>2, FoundBelongs
    <3>4. OneApp(r)'
      BY <2>1, <3>1, <3>2, <3>3 DEF OneApp, Suits, IdnOf
    <3> QED
      BY <1>4, <3>4, PlainApps DEF GoogleFind, tables, Belongs
  <2> QED
    BY <1>4, <2>2, <2>3 DEF GoogleFind
<1>5. CASE GoogleIdn(r)
  <2> DEFINE row == [app |-> AppOf[req[r].provider], login |-> req[r].login, via |-> "google",
                     challenge |-> None]
  <2>1. CASE Return(r)
    BY <1>5, <2>1, ReturnBelongs, PlainApps DEF GoogleIdn, Belongs
  <2>2. CASE /\ idns' = [idns EXCEPT ![r] = row]
             /\ req' = [req EXCEPT ![r].pc = "google.src", ![r].idn = r]
    <3>1. /\ req[r].pc = "google.idn" /\ UNCHANGED <<states, otps, codes, atoks>>
          /\ req[r].login \in Login /\ req[r].provider \in Provider
      BY <1>1, <1>5 DEF GoogleIdn, At, Locals
    <3>2. /\ req'[r].pc = "google.src" /\ req'[r].copy = req[r].copy
          /\ req'[r].provider = req[r].provider /\ req'[r].idn = r
      <4>1. req'[r] = [req[r] EXCEPT !.pc = "google.src", !.idn = r]
        BY <1>1, <2>2
      <4> QED
        BY <1>1, <4>1 DEF Local
    <3>3. row # None /\ row.app = AppOf[req[r].provider]
      BY <3>1, RowAssumption, ProviderAssumption DEF IdnRow, Maybe
    <3> HIDE DEF row
    <3>4. idns'[r] = row
      BY <1>1, <2>2 DEF TypeOK, IdnId
    <3>5. Suits(req[r].copy.provider, req[r].copy.app) /\ Suits(req[r].provider, req[r].copy.app)
      BY <1>1, <3>1 DEF OneApp
    <3>6. OneApp(r)'
      BY <3>1, <3>2, <3>3, <3>4, <3>5 DEF OneApp, Suits, IdnOf
    <3> QED
      BY <3>1, <3>6, PlainApps DEF Belongs
  <2> QED
    BY <1>5, <2>1, <2>2 DEF GoogleIdn, NewIdn
<1>6. CASE GoogleSrc(r)
  <2>1. CASE Return(r)
    BY <1>6, <2>1, ReturnBelongs, PlainApps DEF GoogleSrc, Belongs
  <2>2. CASE GoTo(r, "google.code")
    BY <1>6, <2>2, OnwardBelongs, PlainApps DEF GoogleSrc, At, Belongs
  <2> QED
    BY <1>6, <2>1, <2>2 DEF GoogleSrc
<1>7. CASE NewCode(r, "google.code")
  BY <1>7, CodeBelongs
<1> QED
  BY <1>2, <1>3, <1>4, <1>5, <1>6, <1>7 DEF GoogleNext

LEMMA TokenBelongs ==
  ASSUME ServerInv, AppInv, Foreign \subseteq Foreign', NEW r \in Request, TokenNext(r)
  PROVE  Belongs(r)
<1>1. req \in [Request -> Local] /\ req[r] \in Local /\ Locals(r) /\ TypeOK /\ OneApp(r)
  BY DEF ServerInv, TypeOK, Mine, AppInv
<1> USE DEF CopyStages, SignInStages, CompleteStages, CredStages, PasskeyStages, PasswordStages,
            GoogleStages, IdnStages
<1>2. ASSUME NEW c \in Request, NEW a \in App, TokenBegin(r, c, a) PROVE Belongs(r)
  <2>1. req'[r].pc = "token.expire" /\ req'[r].copy = codes[c]
    BY <1>1, <1>2 DEF TokenBegin, Begin, Fresh
  <2>2. IdnOf(codes[c].sub, codes[c].client, codes[c].provider) /\ UNCHANGED idns
    BY <1>2 DEF TokenBegin, Live, AppInv, RowsOfApp, tables
  <2>3. OneApp(r)'
    BY <2>1, <2>2 DEF OneApp, IdnOf
  <2> QED
    BY <1>2, <2>3, PlainApps DEF TokenBegin, tables, Belongs
<1>3. CASE TokenExpire(r)
  <2> DEFINE c == req[r].tok
  <2>1. /\ req[r].pc = "token.expire" /\ c \in Request /\ codes[c] # None /\ codes[c] \in CodeRow
        /\ UNCHANGED <<states, otps, atoks, idns>>
    BY <1>1, <1>3 DEF TokenExpire, At, Locals, TypeOK, Maybe
  <2>2. AppsOn(r)
    <3>1. CASE UNCHANGED codes
      BY <2>1, <3>1, PlainApps
    <3>2. CASE codes' = [codes EXCEPT ![c].spentBy = r]
      <4>1. /\ [codes[c] EXCEPT !.spentBy = r].sub = codes[c].sub
            /\ [codes[c] EXCEPT !.spentBy = r].client = codes[c].client
            /\ [codes[c] EXCEPT !.spentBy = r].provider = codes[c].provider
        BY <2>1 DEF CodeRow
      <4> QED
        BY <1>1, <2>1, <3>2, <4>1 DEF AppsOn, TypeOK
    <3> QED
      BY <1>3, <3>1, <3>2 DEF TokenExpire
  <2>3. CASE Return(r)
    BY <2>2, <2>3, ReturnBelongs DEF Belongs
  <2>4. CASE req[r].copy.client = req[r].client /\ GoTo(r, "token.insert")
    <3>1. /\ req'[r].pc = "token.insert" /\ req'[r].copy = req[r].copy
          /\ req'[r].client = req[r].client
      <4>1. req'[r] = [req[r] EXCEPT !.pc = "token.insert"]
        BY <1>1, <2>4 DEF GoTo
      <4> QED
        BY <1>1, <4>1 DEF Local
    <3>2. OneApp(r)'
      BY <1>1, <2>1, <2>4, <3>1 DEF OneApp, IdnOf
    <3> QED
      BY <2>2, <3>2 DEF Belongs
  <2> QED
    BY <1>3, <2>3, <2>4 DEF TokenExpire
<1>4. CASE TokenInsert(r)
  <2>1. req[r].pc = "token.insert" /\ req'[r].pc = "token.sign"
    BY <1>4, Onward DEF TokenInsert, At
  <2>2. OneApp(r)'
    BY <2>1, NoApp
  <2>3. AppsOn(r)
    BY <1>1, <1>4, <2>1 DEF TokenInsert, NewAuthToken, AppsOn, TypeOK
  <2> QED
    BY <2>2, <2>3 DEF Belongs
<1>5. CASE TokenSign(r)
  BY <1>5, ReturnBelongs, PlainApps DEF TokenSign, tables, Belongs
<1> QED
  BY <1>2, <1>3, <1>4, <1>5 DEF TokenNext

LEMMA RequestBelongs ==
  ASSUME ServerInv, PasskeyInv, AppInv, Foreign \subseteq Foreign', NEW r \in Request, Serve(r) \/ Fail(r)
  PROVE  Belongs(r)
<1>1. CASE Serve(r)
  BY <1>1, SignInBelongs, SignUpBelongs, VerifyBelongs, CredentialBelongs, PasskeyBelongs,
     PasswordBelongs, GoogleBelongs, TokenBelongs DEF Serve
<1>2. CASE Fail(r)
  BY <1>2, ReturnBelongs, PlainApps DEF Fail, tables, Belongs
<1> QED
  BY <1>1, <1>2

-------------------------------------------------------------------------------
\* What stays: the app of a state, the rows of identities, the foreign providers.
LEMMA AppsStay ==
  ASSUME ServerInv, ProofInv, PasskeyInv, AppInv, NEW r \in Request, Leaves(r), Tells(r), RowsOn(r)
  PROVE  /\ \A s \in StateId :
              states[s] # None => states'[s] # None /\ states'[s].app = states[s].app
         /\ \A i \in IdnId : idns[i] # None => idns'[i] = idns[i]
         /\ \A o \in Request : otps[o] # None => otps'[o].provider = otps[o].provider
         /\ Foreign \subseteq Foreign'
<1>1. ASSUME NEW s \in StateId, states[s] # None
      PROVE  states'[s] # None /\ states'[s].app = states[s].app
  BY <1>1 DEF Leaves, Tells, SaysOn, SameWords, ProofInv
<1>2. \A i \in IdnId : idns[i] # None => idns'[i] = idns[i]
  BY IdnsStay
<1>3. \A o \in Request :
        otps[o] # None =>
          /\ otps'[o] # None
          /\ otps'[o].provider = otps[o].provider /\ otps'[o].state = otps[o].state
          /\ otps[o].spentBy # None => otps'[o].spentBy # None
  BY DEF Tells, ProvesOn
<1>4. \A o \in Request :
        otps[o] # None => otps[o].state \in StateId /\ states[otps[o].state] # None
  BY DEF ServerInv, TypeOK, Maybe, OtpRow, AppInv, RowsOfApp
<1>5. ASSUME NEW p \in Provider, ForeignForm(p) PROVE ForeignForm(p)'
  <2>1. PICK o \in Request : /\ otps[o] # None /\ otps[o].spentBy # None /\ otps[o].provider = p
                            /\ AppOf[p] # states[otps[o].state].app
    BY <1>5 DEF ForeignForm
  <2> QED
    BY <1>1, <1>3, <1>4, <2>1 DEF ForeignForm
<1> QED
  BY <1>1, <1>2, <1>3, <1>5 DEF Foreign

\* The other requests: what they hold is as it was.
LEMMA OthersOneApp ==
  ASSUME ServerInv, ProofInv, PasskeyInv, AppInv, NEW r \in Request,
         Leaves(r), Tells(r), RowsOn(r), NEW q \in Request, q # r
  PROVE  OneApp(q)'
<1>1. req'[q] = req[q] /\ OneApp(q) /\ Locals(q) /\ Foreign \subseteq Foreign'
  BY AppsStay DEF Leaves, AppInv, ServerInv, Mine
<1>2. req[q].pc \in {"signup.otp", "verify.state"} =>
        states'[req[q].tok] # None /\ states'[req[q].tok].app = states[req[q].tok].app
  BY <1>1, AppsStay DEF OneApp, Locals
<1>3. req[q].pc = "verify.expire" => otps'[req[q].tok].provider = otps[req[q].tok].provider
  BY <1>1, AppsStay DEF Locals
<1>4. req[q].pc \in IdnStages => idns'[req[q].idn] = idns[req[q].idn]
  BY <1>1, AppsStay DEF OneApp, Locals, IdnOf
<1>5. req[q].pc \in {"token.expire", "token.insert"} => idns'[req[q].copy.sub] = idns[req[q].copy.sub]
  <2>1. req[q].pc \in {"token.expire", "token.insert"} => req[q].copy.sub \in IdnId
    BY <1>1 DEF Locals, CodeRow
  <2> QED
    BY <1>1, <2>1, AppsStay DEF OneApp, IdnOf
<1> QED
  BY <1>1, <1>2, <1>3, <1>4, <1>5 DEF OneApp, Suits, IdnOf

LEMMA OfAppStays ==
  ASSUME ServerInv, ProofInv, PasskeyInv, AppInv, NEW r \in Request,
         Leaves(r), Tells(r), RowsOn(r), AppsOn(r), NEW q \in Request
  PROVE  RowsOfApp(q)'
<1>1. TypeOK /\ OneApp(r) /\ RowsOfApp(q) /\ Locals(r)
  BY DEF AppInv, ServerInv, Mine
<1>2. ASSUME otps'[q] # None PROVE states'[otps'[q].state] # None
  <2>1. CASE otps[q] # None /\ otps'[q].state = otps[q].state
    <3>1. otps[q].state \in StateId
      BY <1>1, <2>1 DEF TypeOK, Maybe, OtpRow
    <3> QED
      BY <1>1, <2>1, <3>1, AppsStay DEF RowsOfApp
  <2>2. CASE req[r].pc = "signup.otp" /\ otps'[q].state = req[r].tok
    BY <1>1, <2>2, AppsStay DEF OneApp, Locals
  <2> QED
    BY <1>2, <2>1, <2>2 DEF AppsOn
<1>3. ASSUME codes'[q] # None PROVE IdnOf(codes[q].sub, codes[q].client, codes[q].provider)'
  <2>1. /\ codes'[q].sub \in IdnId /\ idns[codes'[q].sub] # None
        /\ idns[codes'[q].sub].app = codes'[q].client \/ codes'[q].provider \in Foreign
    <3>1. CASE /\ codes[q] # None /\ codes'[q].sub = codes[q].sub
               /\ codes'[q].client = codes[q].client /\ codes'[q].provider = codes[q].provider
      BY <1>1, <3>1 DEF TypeOK, Maybe, CodeRow, RowsOfApp, IdnOf
    <3>2. CASE /\ req[r].pc \in IdnStages /\ codes'[q].sub = req[r].idn
               /\ codes'[q].client = req[r].copy.app /\ codes'[q].provider = req[r].provider
      BY <1>1, <3>2 DEF OneApp, Locals, IdnOf
    <3> QED
      BY <1>3, <3>1, <3>2 DEF AppsOn
  <2> QED
    BY <2>1, AppsStay DEF IdnOf
<1>4. ASSUME atoks'[q] # None PROVE IdnOf(atoks[q].sub, atoks[q].app, atoks[q].provider)'
  <2>1. /\ atoks'[q].sub \in IdnId /\ idns[atoks'[q].sub] # None
        /\ idns[atoks'[q].sub].app = atoks'[q].app \/ atoks'[q].provider \in Foreign
    <3>1. CASE atoks'[q] = atoks[q]
      BY <1>1, <1>4, <3>1 DEF TypeOK, Maybe, TokenRow, RowsOfApp, IdnOf
    <3>2. CASE /\ req[r].pc = "token.insert" /\ atoks'[q].sub = req[r].copy.sub
               /\ atoks'[q].app = req[r].client /\ atoks'[q].provider = req[r].copy.provider
      <4>1. req[r].copy.sub \in IdnId /\ req[r].copy.client = req[r].client
        BY <1>1, <3>2 DEF OneApp, Locals, CodeRow
      <4> QED
        BY <1>1, <3>2, <4>1 DEF OneApp, IdnOf
    <3>3. q # r => atoks'[q] = atoks[q]
      BY DEF Leaves
    <3> QED
      BY <1>4, <3>1, <3>2, <3>3 DEF AppsOn
  <2> QED
    BY <2>1, AppsStay DEF IdnOf
<1> QED
  BY <1>2, <1>3, <1>4 DEF RowsOfApp

LEMMA AppStep ==
  ASSUME ServerInv, ProofInv, PasskeyInv, AppInv, NEW r \in Request,
         Leaves(r), Tells(r), RowsOn(r), Belongs(r)
  PROVE  AppInv'
<1>1. /\ AppsOn(r) /\ OneApp(r)' /\ OneApp(r) /\ Locals(r) /\ TypeOK
      /\ Foreign \subseteq Foreign'
  BY AppsStay DEF Belongs, AppInv, ServerInv, Mine
<1>2. ASSUME NEW s \in StateId, states'[s] # None
      PROVE  Suits(states[s].provider, states[s].app)'
  <2>1. states[s] # None /\ states'[s].app = states[s].app
    BY <1>1, <1>2, AppsStay DEF AppsOn
  <2>2. CASE states'[s].provider = states[s].provider
    BY <1>1, <2>1, <2>2 DEF AppInv, Suits
  <2>3. CASE s = req[r].tok /\ req[r].pc \in CopyStages /\ states'[s].provider = req[r].provider
    BY <1>1, <2>1, <2>3 DEF OneApp, ProofInv, Suits
  <2> QED
    BY <1>1, <1>2, <2>2, <2>3 DEF AppsOn
<1>3. ASSUME NEW src \in srcs' PROVE src.provider \in Provider =>
                                       \/ AppOf[src.provider] = idns'[src.idn].app
                                       \/ src.provider \in Foreign'
  <2>1. CASE \E old \in srcs : SameKey(old, src)
    <3>1. PICK old \in srcs : SameKey(old, src)
      BY <2>1
    <3>2. old.idn \in IdnId /\ idns[old.idn] # None /\ Suits(old.provider, idns[old.idn].app)
      BY <1>1 DEF TypeOK, SrcRow, PasskeyInv, AppInv
    <3>3. idns'[old.idn] = idns[old.idn]
      BY <3>2, AppsStay
    <3> QED
      BY <1>1, <3>1, <3>2, <3>3 DEF SameKey, Suits
  <2>2. CASE /\ req[r].pc \in {"cred.src", "google.src"}
             /\ src.idn = req[r].idn /\ src.provider = req[r].provider
    <3>1. /\ req[r].idn \in IdnId /\ IdnOf(req[r].idn, req[r].copy.app, req[r].provider)
          /\ Suits(req[r].provider, req[r].copy.app)
      BY <1>1, <2>2 DEF OneApp, Locals, IdnStages, CopyStages, CompleteStages, CredStages, GoogleStages
    <3>2. idns'[req[r].idn] = idns[req[r].idn]
      BY <3>1, AppsStay DEF IdnOf
    <3> QED
      BY <1>1, <2>2, <3>1, <3>2 DEF IdnOf, Suits
  <2> QED
    BY <2>1, <2>2 DEF RowsOn
<1>4. ASSUME NEW q \in Request PROVE OneApp(q)' /\ RowsOfApp(q)'
  BY <1>1, OthersOneApp, OfAppStays
<1> QED
  BY <1>2, <1>3, <1>4 DEF AppInv, Suits

LEMMA AppInit ==
  ASSUME Init
  PROVE  AppInv
<1>1. ASSUME NEW src \in srcs PROVE Suits(src.provider, idns[src.idn].app)
  <2>1. PICK x \in Seeded : src.idn = <<x[1], x[2]>> /\ src.provider = x[1]
    BY DEF Init
  <2>2. src.idn \in IdnId /\ <<x[1], x[2]>>[1] = x[1]
    BY <2>1, SeededAssumption DEF IdnId
  <2>3. idns[src.idn] = [app |-> AppOf[src.idn[1]], login |-> src.idn[2], via |-> "seed",
                         challenge |-> None]
    BY <2>1, <2>2 DEF Init
  <2> QED
    BY <2>1, <2>2, <2>3 DEF Suits
<1>2. /\ \A s \in StateId : states[s] = None
      /\ \A r \in Request : /\ req[r].pc = "idle"
                            /\ otps[r] = None /\ codes[r] = None /\ atoks[r] = None
  BY DEF Init, Fresh
<1> QED
  BY <1>1, <1>2 DEF AppInv, OneApp, RowsOfApp, CopyStages, SignInStages, CompleteStages, CredStages,
     PasskeyStages, PasswordStages, GoogleStages, IdnStages

LEMMA AuthorizeApps ==
  ASSUME ServerInv, AppInv, NEW s \in StateId, NEW a \in App, Authorize(s, a)
  PROVE  AppInv'
<1>1. /\ states[s] = None /\ states' = [states EXCEPT ![s] = NewAuthState(a)]
      /\ UNCHANGED <<otps, codes, atoks, idns, srcs, req>> /\ TypeOK
  BY DEF Authorize, ServerInv
<1>2. NewAuthState(a).provider \notin Provider
  BY NoneAssumption DEF NewAuthState
<1>3. /\ states'[s] = NewAuthState(a)
      /\ \A x \in StateId : x # s => states'[x] = states[x]
  BY <1>1 DEF TypeOK
<1>4. \A o \in Request :
        otps[o] # None =>
          /\ otps[o].state \in StateId
          /\ states[otps[o].state] # None /\ states'[otps[o].state] = states[otps[o].state]
  BY <1>1, <1>3 DEF AppInv, RowsOfApp, TypeOK, Maybe, OtpRow
<1>5. Foreign \subseteq Foreign'
  BY <1>1, <1>4 DEF Foreign, ForeignForm
<1>6. \A x \in StateId : states'[x] # None => Suits(states[x].provider, states[x].app)'
  BY <1>2, <1>3, <1>5 DEF AppInv, Suits
<1>7. \A src \in srcs : Suits(src.provider, idns[src.idn].app)'
  BY <1>1, <1>5 DEF AppInv, Suits
<1>8. ASSUME NEW r \in Request PROVE OneApp(r)' /\ RowsOfApp(r)'
  <2>1. OneApp(r) /\ RowsOfApp(r) /\ Locals(r)
    BY DEF AppInv, ServerInv, Mine
  <2>2. \A x \in StateId : states[x] # None => states'[x] = states[x]
    BY <1>1, <1>3
  <2>3. OneApp(r)'
    BY <1>1, <1>5, <2>1, <2>2 DEF OneApp, Locals, IdnOf, Suits
  <2>4. RowsOfApp(r)'
    BY <1>1, <1>4, <1>5, <2>1 DEF RowsOfApp, IdnOf
  <2> QED
    BY <2>3, <2>4
<1> QED
  BY <1>1, <1>6, <1>7, <1>8 DEF AppInv

\* The inductive invariant of the apps, relative to those before.
THEOREM AppInvariance == Spec => []AppInv
<1>1. Init => AppInv
  BY AppInit
<1>2. ServerInv /\ ChallengeInv /\ ProofInv /\ SourceInv /\ PasskeyInv /\ AppInv /\ [Next]_vars => AppInv'
  <2> SUFFICES ASSUME ServerInv, ChallengeInv, ProofInv, SourceInv, PasskeyInv, AppInv, [Next]_vars
               PROVE  AppInv'
    OBVIOUS
  <2>1. CASE UNCHANGED <<states, otps, codes, atoks, idns, srcs, req>>
    BY <2>1 DEF AppInv, OneApp, RowsOfApp, IdnOf, Suits, Foreign, ForeignForm
  <2>2. ASSUME NEW r \in Request, Serve(r) \/ Fail(r) PROVE AppInv'
    <3>1. Leaves(r) /\ Tells(r) /\ RowsOn(r)
      BY <2>2, RequestTells, RequestFits DEF Fits
    <3>2. Belongs(r)
      BY <2>2, <3>1, AppsStay, RequestBelongs
    <3> QED
      BY <3>1, <3>2, AppStep
  <2>3. ASSUME NEW s \in StateId, NEW a \in App, Authorize(s, a) PROVE AppInv'
    BY <2>3, AuthorizeApps
  <2> QED
    BY <2>1, <2>2, <2>3 DEF Next, Lapse, vars, tables
<1> QED
  BY <1>1, <1>2, ServerInvariance, ChallengeInvariance, SourceInvariance, PasskeyInvariance, PTL DEF Spec

\* No identity crosses apps, from sign-in to access token, for any number of
\* requests that mix the apps, but under a provider that a verified sign-up form
\* has named in a state of another app (sign-up.go compares the slug alone; cb.go
\* and providers.go compare the app of the provider with that of the state).
THEOREM SubjectIsOfApp == Spec => []SubjectOfApp
<1>1. AppInv => SubjectOfApp
  BY DEF AppInv, RowsOfApp, IdnOf, Foreign, SubjectOfApp
<1> QED
  BY <1>1, AppInvariance, PTL

===============================================================================
