----------------------------- MODULE FormatsProofs -----------------------------
(***************************************************************************)
(* Proofs about the bytes of a passkey, for credential ids, keys and       *)
(* extensions of any length, and data that is too short or too long by any *)
(* number of bytes; and about the assertions of clients, for any key files *)
(* in any order, and coordinates of any width.                             *)
(***************************************************************************)
EXTENDS WebAuthn, ClientAssertion, WellFoundedInduction, TLAPS

\* Where each step finds the offset: everything before it has been read, and is
\* there.
Placed ==
  /\ stage = "head" => read = 0
  /\ stage = "attested" => data.at /\ offset = 37 /\ read = 37 /\ read <= data.size
  /\ stage = "id" => data.at /\ offset = 55 /\ read = 55 /\ read <= data.size
  /\ stage = "key" =>
       /\ data.at /\ data.idLen <= 1023
       /\ offset = 55 + data.idLen /\ read = offset /\ read <= data.size
  /\ stage \in {"extensions", "end", "decoded"} =>
       /\ read <= data.size /\ offset <= data.size
       /\ ~data.at => offset = 37
       /\ data.at => offset = 55 + data.idLen + raw /\ data.keyLen <= raw /\ Decodable(data.key)
  /\ stage = "end" /\ data.ed => offset < data.size
  /\ stage = "decoded" => offset = data.size /\ ~data.ed
  /\ stage = "undecoded" => ~ByTheBook(data) \/ data.ed
  /\ stage = "idle" => read = 0

\* What a credential record holds once there is one.
Kept ==
  /\ ceremony = "get" \/ stage = "registered" => record \in Key
  /\ book => extra = 0 /\ record \in Key /\ record.whole
  /\ stage = "registered" => ~data.ed /\ data.size = 55 + data.idLen + raw /\ data.at
  /\ ceremony = "get" /\ book /\ Fits(record) /\ stage \in {"denied", "unavailable"} =>
       ~(data.up /\ data.uv)

DecodeInv == WebAuthnTypeOK /\ Placed /\ Kept /\ read <= data.size

\* It holds before anything is received.
LEMMA DecodeInitInv == WebAuthnInit => DecodeInv
<1> SUFFICES ASSUME WebAuthnInit PROVE DecodeInv
  OBVIOUS
<1>1. data \in Data /\ data.size = 0
  BY DEF WebAuthnInit, Data
<1>2. WebAuthnTypeOK
  BY <1>1 DEF WebAuthnInit, WebAuthnTypeOK, Stage
<1>3. Placed
  BY DEF WebAuthnInit, Placed
<1>4. Kept
  BY DEF WebAuthnInit, Kept
<1> QED
  BY <1>1, <1>2, <1>3, <1>4 DEF DecodeInv, WebAuthnInit

\* A request starts at the head of data whose lengths are numbers.
LEMMA ReceiveStep ==
  ASSUME DecodeInv, NEW kind \in {"create", "get"}, NEW d \in Data, Receive(kind, d),
         kind = "get" => record \in Key
  PROVE  DecodeInv'
<1>1. WebAuthnTypeOK'
  BY DEF Receive, DecodeInv, WebAuthnTypeOK, Stage
<1>2. Placed'
  BY DEF Receive, Placed
<1>3. Kept' /\ (read <= data.size)'
  BY DEF Receive, DecodeInv, Kept, Data
<1> QED
  BY <1>1, <1>2, <1>3 DEF DecodeInv

\* Registrations start a decoding.
LEMMA CreateStep == DecodeInv /\ Create => DecodeInv'
<1> SUFFICES ASSUME DecodeInv, Create PROVE DecodeInv'
  OBVIOUS
<1>1. PICK at \in BOOLEAN, ed \in BOOLEAN, uv \in BOOLEAN, idLen \in IdLength,
           keyLen \in KeyLength, extLen \in ExtLength, key \in Key \cup {Nothing}, by \in OffBy :
        LET d == [at |-> at, ed |-> ed, up |-> TRUE, uv |-> uv, idLen |-> idLen, key |-> key,
                  keyLen |-> IF key = Nothing THEN 1 ELSE keyLen, extLen |-> extLen, size |-> 0]
        IN  /\ Declared(d) + by \in Nat
            /\ Receive("create", [d EXCEPT !.size = Declared(d) + by])
  BY DEF Create
<1> DEFINE d == [at |-> at, ed |-> ed, up |-> TRUE, uv |-> uv, idLen |-> idLen, key |-> key,
                 keyLen |-> IF key = Nothing THEN 1 ELSE keyLen, extLen |-> extLen, size |-> 0]
<1>2. d \in Data
  BY LengthsAssumption DEF Data
<1>3. Declared(d) + by \in Nat /\ Receive("create", [d EXCEPT !.size = Declared(d) + by])
  BY <1>1
<1> HIDE DEF d
<1>4. [d EXCEPT !.size = Declared(d) + by] \in Data
  BY <1>2, <1>3 DEF Data
<1> QED
  BY <1>3, <1>4, ReceiveStep

\* Sign-ins start one once there is a record to sign in with.
LEMMA GetStep == DecodeInv /\ Get => DecodeInv'
<1> SUFFICES ASSUME DecodeInv, Get PROVE DecodeInv'
  OBVIOUS
<1>1. PICK ed \in BOOLEAN, up \in BOOLEAN, uv \in BOOLEAN, extLen \in ExtLength :
        LET d == [at |-> FALSE, ed |-> ed, up |-> up, uv |-> uv, idLen |-> 0, key |-> Nothing,
                  keyLen |-> 0, extLen |-> extLen, size |-> 0]
        IN  Receive("get", [d EXCEPT !.size = Declared(d)])
  BY DEF Get
<1> DEFINE d == [at |-> FALSE, ed |-> ed, up |-> up, uv |-> uv, idLen |-> 0, key |-> Nothing,
                 keyLen |-> 0, extLen |-> extLen, size |-> 0]
<1>2. d \in Data /\ Declared(d) \in Nat
  BY LengthsAssumption DEF Data, Declared, minAuthenticatorDataLength
<1>3. Receive("get", [d EXCEPT !.size = Declared(d)]) /\ record \in Key
  BY <1>1 DEF Get, DecodeInv, Kept
<1> HIDE DEF d
<1>4. [d EXCEPT !.size = Declared(d)] \in Data
  BY <1>2 DEF Data
<1> QED
  BY <1>3, <1>4, ReceiveStep

\* Each step of decodeAuthenticatorData reads what its test has shown to be there.
LEMMA DecodeStep == DecodeInv /\ Decode => DecodeInv'
<1> USE DEF minAuthenticatorDataLength, maxCredentialIdLength
<1> SUFFICES ASSUME DecodeInv, Decode PROVE DecodeInv'
  OBVIOUS
<1>1. /\ data \in Data /\ offset \in Nat /\ read \in Nat /\ raw \in Nat
      /\ data.idLen \in Nat /\ data.keyLen \in Nat /\ data.extLen \in Nat /\ data.size \in Nat
      /\ data.at \in BOOLEAN /\ data.ed \in BOOLEAN
      /\ UNCHANGED <<ceremony, data, record, extra, book>>
      /\ read <= data.size
  BY DEF DecodeInv, WebAuthnTypeOK, Data, Decode, Take, AuthHead, Attested, CredentialId, PublicKey,
         Extensions, End
<1>2. ASSUME stage \in {"head", "attested", "id", "key", "extensions", "end"},
             stage' \in {"attested", "id", "key", "extensions", "end", "decoded", "undecoded"},
             offset' \in Nat, read' \in Nat, raw' \in Nat, read' <= data.size, Placed'
      PROVE  DecodeInv'
  <2>1. WebAuthnTypeOK'
    BY <1>1, <1>2 DEF DecodeInv, WebAuthnTypeOK, Stage
  <2>2. Kept'
    BY <1>1, <1>2 DEF DecodeInv, Kept
  <2> QED
    BY <1>1, <1>2, <2>1, <2>2 DEF DecodeInv
<1>3. CASE AuthHead
  <2>1. Placed'
    BY <1>1, <1>3 DEF AuthHead, Take, Placed, DecodeInv, ByTheBook, Declared
  <2> QED
    BY <1>1, <1>2, <1>3, <2>1 DEF AuthHead, Take
<1>4. CASE Attested
  <2>1. Placed'
    BY <1>1, <1>4 DEF Attested, Take, Placed, DecodeInv, ByTheBook, Declared
  <2> QED
    BY <1>1, <1>2, <1>4, <2>1 DEF Attested, Take
<1>5. CASE CredentialId
  <2>1. Placed'
    BY <1>1, <1>5 DEF CredentialId, Take, Placed, DecodeInv, ByTheBook, Declared
  <2> QED
    BY <1>1, <1>2, <1>5, <2>1 DEF CredentialId, Take
<1>6. CASE PublicKey
  <2>1. stage = "key" /\ data.at /\ offset = 55 + data.idLen /\ read = offset /\ data.idLen <= 1023
    BY <1>6 DEF PublicKey, DecodeInv, Placed
  <2>2. CASE /\ offset + data.keyLen > data.size \/ ~Decodable(data.key)
             /\ stage' = "undecoded"
             /\ UNCHANGED <<offset, read, raw>>
    <3>1. ~ByTheBook(data)
      BY <1>1, <2>1, <2>2, NothingAssumption DEF ByTheBook, Declared, Decodable, Key, Kty, Data
    <3>2. Placed'
      BY <1>1, <2>2, <3>1 DEF Placed, ByTheBook, Declared
    <3> QED
      BY <1>1, <1>2, <2>1, <2>2, <3>2
  <2>3. CASE /\ offset + data.keyLen <= data.size
             /\ Decodable(data.key)
             /\ stage' = "extensions"
             /\ \E unread \in Unread(data.size - (offset + data.keyLen)) :
                  /\ raw' = data.size - unread - offset
                  /\ offset' = data.size - unread
                  /\ read' = data.size - unread
    <3>1. PICK unread \in 0 .. (data.size - (offset + data.keyLen)) :
                  /\ raw' = data.size - unread - offset
                  /\ offset' = data.size - unread
                  /\ read' = data.size - unread
      BY <2>3 DEF Unread
    <3>2. /\ raw' \in Nat /\ offset' \in Nat /\ read' \in Nat /\ read' <= data.size
          /\ offset' <= data.size /\ offset' = 55 + data.idLen + raw' /\ data.keyLen <= raw'
      BY <1>1, <2>1, <2>3, <3>1
    <3>3. Placed'
      BY <1>1, <2>1, <2>3, <3>2 DEF Placed, Decodable
    <3> QED
      BY <1>1, <1>2, <2>1, <2>3, <3>2, <3>3
  <2> QED
    BY <1>6, <2>2, <2>3 DEF PublicKey
<1>7. CASE Extensions
  <2>1. Placed'
    BY <1>1, <1>7 DEF Extensions, Placed, DecodeInv, ByTheBook, Declared, Decodable
  <2> QED
    BY <1>1, <1>2, <1>7, <2>1 DEF Extensions
<1>8. CASE End
  <2>1. Placed'
    BY <1>1, <1>8 DEF End, Placed, DecodeInv, ByTheBook, Declared, Decodable
  <2> QED
    BY <1>1, <1>2, <1>8, <2>1 DEF End
<1> QED
  BY <1>3, <1>4, <1>5, <1>6, <1>7, <1>8 DEF Decode

\* Data by the book that is decoded has stored its key, and no byte more.
LEMMA RegisterStep == DecodeInv /\ Register => DecodeInv'
<1> USE DEF minAuthenticatorDataLength, maxCredentialIdLength
<1> SUFFICES ASSUME DecodeInv, Register PROVE DecodeInv'
  OBVIOUS
<1>1. /\ data \in Data /\ offset \in Nat /\ read \in Nat /\ raw \in Nat
      /\ data.idLen \in Nat /\ data.keyLen \in Nat /\ data.extLen \in Nat /\ data.size \in Nat
      /\ data.key \in Key \cup {Nothing}
      /\ UNCHANGED <<ceremony, data, offset, read, raw>> /\ ceremony = "create" /\ stage = "decoded"
      /\ offset = data.size /\ ~data.ed /\ read <= data.size
      /\ data.at => offset = 55 + data.idLen + raw /\ data.keyLen <= raw
  BY DEF DecodeInv, WebAuthnTypeOK, Data, Register, Placed
<1>2. CASE stage' = "registered"
  <2>1. /\ data.at /\ data.key # Nothing /\ record' = data.key
        /\ extra' = raw - data.keyLen /\ book' = ByTheBook(data)
    BY <1>2 DEF Register
  <2>2. extra' \in Nat /\ record' \in Key /\ book' \in BOOLEAN
    BY <1>1, <2>1 DEF ByTheBook
  <2>3. ASSUME book' PROVE extra' = 0 /\ record'.whole
    <3>1. ByTheBook(data)
      BY <2>1, <2>3
    <3>2. data.size = 55 + data.idLen + data.keyLen
      BY <1>1, <2>1, <3>1 DEF ByTheBook, Declared
    <3>3. data.key.whole
      BY <2>1, <3>1 DEF ByTheBook
    <3>4. extra' = 0
      BY <1>1, <2>1, <3>2
    <3> QED
      BY <2>1, <3>3, <3>4
  <2>4. WebAuthnTypeOK'
    BY <1>1, <1>2, <2>2 DEF DecodeInv, WebAuthnTypeOK, Stage
  <2>5. Kept' /\ Placed'
    BY <1>1, <1>2, <2>1, <2>2, <2>3 DEF Kept, Placed
  <2> QED
    BY <1>1, <2>4, <2>5 DEF DecodeInv
<1>3. CASE stage' = "denied" /\ UNCHANGED <<record, extra, book>>
  <2>1. WebAuthnTypeOK'
    BY <1>1, <1>3 DEF DecodeInv, WebAuthnTypeOK, Stage
  <2>2. Kept' /\ Placed'
    BY <1>1, <1>3 DEF DecodeInv, Kept, Placed
  <2> QED
    BY <1>1, <2>1, <2>2 DEF DecodeInv
<1> QED
  BY <1>2, <1>3 DEF Register

\* A record kept by the book verifies, so that only the flags turn it away.
LEMMA SignInStep == DecodeInv /\ SignIn => DecodeInv'
<1> SUFFICES ASSUME DecodeInv, SignIn PROVE DecodeInv'
  OBVIOUS
<1>1. /\ UNCHANGED <<ceremony, data, offset, read, raw, record, extra, book>>
      /\ ceremony = "get" /\ stage = "decoded"
      /\ stage' \in {"denied", "unavailable", "signed in"}
  BY DEF SignIn
<1>2. ASSUME book, Fits(record), stage' \in {"denied", "unavailable"}, data.up /\ data.uv
      PROVE  FALSE
  <2>1. extra = 0 /\ record.whole
    BY <1>2 DEF DecodeInv, Kept
  <2>2. Verifies(record)
    BY <1>2, <2>1 DEF Verifies
  <2>3. ~(extra > 0)
    BY <2>1
  <2>4. stage' = "signed in"
    BY <1>2, <2>2, <2>3 DEF SignIn
  <2> QED
    BY <1>2, <2>4
<1>3. WebAuthnTypeOK'
  BY <1>1 DEF DecodeInv, WebAuthnTypeOK, Stage
<1>4. Kept' /\ Placed' /\ (read <= data.size)'
  BY <1>1, <1>2 DEF DecodeInv, Kept, Placed, Fits
<1> QED
  BY <1>3, <1>4 DEF DecodeInv

\* What every step of the two ceremonies keeps.
THEOREM DecodeInvariance == WebAuthnSpec => []DecodeInv
<1>1. DecodeInv /\ [WebAuthnNext]_webAuthnVars => DecodeInv'
  <2>1. ASSUME DecodeInv, UNCHANGED webAuthnVars PROVE DecodeInv'
    <3>1. UNCHANGED <<ceremony, stage, data, offset, read, raw, record, extra, book>>
      BY <2>1 DEF webAuthnVars
    <3> QED
      BY <2>1, <3>1 DEF DecodeInv, WebAuthnTypeOK, Placed, Kept, Fits
  <2> QED
    BY <2>1, CreateStep, GetStep, DecodeStep, RegisterStep, SignInStep DEF WebAuthnNext
<1> QED
  BY <1>1, DecodeInitInv, PTL DEF WebAuthnSpec

\* decodeAuthenticatorData never slices past the end of its data, for any lengths
\* the data declares.
THEOREM NeverPastTheEnd == WebAuthnSpec => []WithinData
<1>1. DecodeInv => WithinData
  BY DEF DecodeInv, WithinData
<1> QED
  BY <1>1, DecodeInvariance, PTL

\* Decoded data has no byte that is not accounted for.
THEOREM DecodedExactly == WebAuthnSpec => []EveryByteCounts
<1>1. DecodeInv => EveryByteCounts
  BY DEF DecodeInv, Placed, Kept, EveryByteCounts, WebAuthnTypeOK, Data, minAuthenticatorDataLength
<1> QED
  BY <1>1, DecodeInvariance, PTL

\* Data by the book, of any lengths and without extensions, is decoded, however
\* far ahead the decoder of the key reads.
THEOREM ByTheBookIsDecoded == WebAuthnSpec => []DecodedUnlessExtensions
<1>1. DecodeInv => DecodedUnlessExtensions
  BY DEF DecodeInv, Placed, DecodedUnlessExtensions
<1> QED
  BY <1>1, DecodeInvariance, PTL

\* A passkey registered by the book, with a key that fits its algorithm, signs in
\* (cbPasskey), but with an assertion without user presence or verification, with
\* one that is not by the book, and with one that has extensions.
THEOREM RegisteredPasskeySignsIn == WebAuthnSpec => []RegisteredSignsIn
<1>1. DecodeInv => RegisteredSignsIn
  BY DEF DecodeInv, Kept, Placed, RegisteredSignsIn
<1> QED
  BY <1>1, DecodeInvariance, PTL

-------------------------------------------------------------------------------
\* Client assertions.

\* The keys of an app are as mkjwks made them, whatever the operator calls them, and
\* so are those a request holds.
AppKeys(list) == list \in Seq(AppKey) /\ \A i \in DOMAIN list : list[i].file \in P256

AssertionInv ==
  /\ clock \in Nat
  /\ AppKeys(keys) /\ AppKeys(held)
  /\ verdict \in {"idle", "sent", "none", "accepted", "refused", "panic"}
  /\ verdict # "idle" => assertion \in Assertion /\ assertion.width <= 2 * Size

\* Every set of natural numbers has a least one, if it has any.
LEMMA Least ==
  ASSUME NEW S \in SUBSET Nat, S # {}
  PROVE  \E i \in S : \A j \in S : i <= j
<1> DEFINE Less == {x \in Nat \X Nat : x[1] < x[2]}
<1>1. IsWellFoundedOn(Less, Nat)
  <2>1. OpToRel(<, Nat) = Less
    BY DEF OpToRel
  <2> QED
    BY <2>1, NatLessThanWellFounded
<1>2. PICK i \in S : \A j \in S : <<j, i>> \notin Less
  <2> HIDE DEF Less
  <2> QED
    BY <1>1, WFMin
<1>3. ASSUME NEW j \in S PROVE i <= j
  <2>1. i \in Nat /\ j \in Nat
    OBVIOUS
  <2>2. <<j, i>>[1] = j /\ <<j, i>>[2] = i /\ <<j, i>> \in Nat \X Nat
    BY <2>1
  <2>3. ~(j < i)
    BY <1>2, <2>2
  <2> QED
    BY <2>1, <2>3
<1> QED
  BY <1>3

\* mkjwks prints the keys before the first it does not support.
LEMMA MkjwksKeys ==
  ASSUME NEW files \in Seq(File)
  PROVE  \E n \in 0 .. Len(files) :
           /\ Mkjwks(files) = [i \in 1 .. n |-> [kid |-> NoKid, file |-> files[i]]]
           /\ \A i \in 1 .. n : files[i] \in P256
<1> DEFINE unsupported == {i \in DOMAIN files : files[i] \notin P256}
<1>1. CASE unsupported = {}
  BY <1>1 DEF Mkjwks
<1>2. CASE unsupported # {}
  <2>1. unsupported \in SUBSET Nat
    OBVIOUS
  <2>2. Min(unsupported) \in unsupported /\ \A j \in unsupported : Min(unsupported) <= j
    <3> HIDE DEF unsupported
    <3> QED
      BY <1>2, <2>1, Least DEF Min
  <2>3. Min(unsupported) - 1 \in 0 .. Len(files)
    BY <2>2
  <2>4. ASSUME NEW i \in 1 .. Min(unsupported) - 1 PROVE files[i] \in P256
    <3>1. i \in DOMAIN files /\ Min(unsupported) \in Nat /\ ~(Min(unsupported) <= i)
      BY <2>2, <2>3
    <3>2. i \notin unsupported
      BY <2>2, <3>1
    <3> QED
      BY <3>1, <3>2
  <2> QED
    BY <1>2, <2>3, <2>4 DEF Mkjwks
<1> QED
  BY <1>1, <1>2

LEMMA AssertionInitInv == AssertionInit => AssertionInv
BY DEF AssertionInit, AssertionInv, AppKeys

LEMMA ConfigureStep == AssertionInv /\ Configure => AssertionInv'
<1> SUFFICES ASSUME AssertionInv, Configure PROVE AssertionInv'
  OBVIOUS
<1>1. PICK files \in FileList : \E names \in [DOMAIN Mkjwks(files) -> Kid \cup {NoKid}] :
        keys' = [i \in DOMAIN Mkjwks(files) |-> [kid |-> names[i], file |-> files[i]]]
  BY DEF Configure
<1>2. files \in Seq(File)
  BY FileAssumption
<1>3. PICK n \in 0 .. Len(files) :
        /\ Mkjwks(files) = [i \in 1 .. n |-> [kid |-> NoKid, file |-> files[i]]]
        /\ \A i \in 1 .. n : files[i] \in P256
  BY <1>2, MkjwksKeys
<1>4. PICK names \in [1 .. n -> Kid \cup {NoKid}] :
        keys' = [i \in 1 .. n |-> [kid |-> names[i], file |-> files[i]]]
  BY <1>1, <1>3
<1>5. \A i \in 1 .. n : keys'[i] \in AppKey /\ keys'[i].file \in P256
  BY <1>2, <1>3, <1>4 DEF AppKey
<1>6. AppKeys(keys')
  BY <1>4, <1>5 DEF AppKeys
<1> QED
  BY <1>6 DEF Configure, AssertionInv

LEMMA MakeStep ==
  ASSUME AssertionInv, NEW typ \in BOOLEAN, NEW alg \in {"ES256", "none", "other"},
         NEW width \in Nat, width <= 2 * Size, Make(typ, alg, width)
  PROVE  AssertionInv'
<1>1. PICK f \in File, kid \in Kid \cup {NoKid}, rightful \in BOOLEAN, ahead \in Skew :
        assertion' = [typ |-> typ, alg |-> alg, kid |-> kid, file |-> f, rightful |-> rightful,
                      iat |-> clock + ahead, exp |-> clock + ahead + Life, width |-> width]
  BY DEF Make
<1>2. clock + ahead \in Nat /\ clock + ahead + Life \in Nat
  BY LifeAssumption DEF AssertionInv
<1>3. assertion' \in Assertion /\ assertion'.width <= 2 * Size
  BY <1>1, <1>2 DEF Assertion
<1> QED
  BY <1>3 DEF Make, AssertionInv, AppKeys

LEMMA AssertionStep == AssertionInv /\ [AssertionNext]_assertionVars => AssertionInv'
<1> SUFFICES ASSUME AssertionInv, [AssertionNext]_assertionVars PROVE AssertionInv'
  OBVIOUS
<1>1. CASE Pass
  BY <1>1 DEF Pass, AssertionInv, AppKeys
<1>2. CASE Configure
  BY <1>2, ConfigureStep
<1>3. ASSUME NEW r \in Width, NEW s \in Width, NEW typ \in BOOLEAN,
             NEW alg \in {"ES256", "none", "other"},
             Make(typ, alg, Padded(r, s)) \/ Make(typ, alg, Unpadded(r, s))
      PROVE  AssertionInv'
  <2>1. /\ Padded(r, s) \in Nat /\ Padded(r, s) <= 2 * Size
        /\ Unpadded(r, s) \in Nat /\ Unpadded(r, s) <= 2 * Size
    BY SizeAssumption DEF Padded, Unpadded
  <2> QED
    BY <1>3, <2>1, MakeStep
<1>4. CASE RetrieveApp
  BY <1>4 DEF RetrieveApp, AssertionInv, AppKeys
<1>5. CASE Validate
  BY <1>5 DEF Validate, AssertionInv, AppKeys
<1>6. CASE UNCHANGED assertionVars
  BY <1>6 DEF assertionVars, AssertionInv, AppKeys
<1> QED
  BY <1>1, <1>2, <1>3, <1>4, <1>5, <1>6 DEF AssertionNext, MakeLibrary, Mkjwt

\* The inductive invariant of assertions and the keys of an app, for any key
\* files, command lines, names and clocks.
THEOREM AssertionInvariance == AssertionSpec => []AssertionInv
BY AssertionInitInv, AssertionStep, PTL DEF AssertionSpec

\* Only Validate gives a verdict, and only on an assertion that waits for one.
LEMMA OnlyValidateJudges ==
  ASSUME [AssertionNext]_assertionVars, verdict' # verdict, verdict' \in {"accepted", "refused"}
  PROVE  Validate
<1>1. Configure \/ Pass \/ UNCHANGED assertionVars => verdict' = verdict
  BY DEF Configure, Pass, assertionVars
<1>2. (MakeLibrary \/ Mkjwt => verdict' = "sent") /\ (RetrieveApp => verdict' = "none")
  BY DEF MakeLibrary, Mkjwt, Make, RetrieveApp
<1>3. "none" \notin {"accepted", "refused"} /\ "sent" \notin {"accepted", "refused"}
  OBVIOUS
<1> QED
  BY <1>1, <1>2, <1>3 DEF AssertionNext

\* The key that is found first, unless it hides the one that signed, is that one.
LEMMA KnownSigns ==
  ASSUME AssertionInv, KnownKey(assertion), ~Hidden(assertion), assertion.width = 2 * Size
  PROVE  SignedBy(assertion)
<1>1. DOMAIN held = 1 .. Len(held) /\ Len(held) \in Nat
  BY DEF AssertionInv, AppKeys
<1>2. Allowed(assertion) = KeysNamed(assertion)
  BY DEF Allowed, KeysNamed
<1>3. Allowed(assertion) \in SUBSET Nat /\ Allowed(assertion) # {}
  BY <1>1, <1>2 DEF Allowed, KnownKey
<1>4. PICK i \in Allowed(assertion) : \A j \in Allowed(assertion) : i <= j
  BY <1>3, Least
<1>5. PICK j \in Allowed(assertion) : held[j].file = assertion.file /\ ~(i < j)
  BY <1>2, <1>4 DEF Hidden
<1>6. i = j
  BY <1>3, <1>4, <1>5
<1>7. held[i].file = assertion.file /\ held[i].file \in P256
  BY <1>4, <1>5, <1>6 DEF Allowed, AssertionInv, AppKeys
<1> QED
  BY <1>4, <1>7 DEF SignedBy, EcPublicKey, ParseEcSig

\* What is accepted was signed with a key the app had when the request read it, for
\* this endpoint and client, and within its life (jwtValidate).
THEOREM AcceptedAssertionIsGood == AssertionSpec => AcceptedIsGood
<1>1. ASSUME AssertionInv, [AssertionNext]_assertionVars, verdict # "accepted", verdict' = "accepted"
      PROVE  Good(assertion)
  <2>1. Validate
    BY <1>1, OnlyValidateJudges
  <2>2. assertion.alg = "ES256" /\ SignedBy(assertion) /\ InTime(assertion) /\ assertion.rightful
    BY <1>1, <2>1 DEF Validate
  <2>3. KnownKey(assertion)
    BY <2>2 DEF SignedBy, Allowed, KeysNamed, KnownKey
  <2> QED
    BY <2>2, <2>3 DEF Good, InTime
<1>2. AssertionInv /\ [AssertionNext]_assertionVars =>
        [verdict # "accepted" /\ verdict' = "accepted" => Good(assertion)]_assertionVars
  BY <1>1
<1> QED
  BY <1>2, AssertionInvariance, PTL DEF AssertionSpec, AcceptedIsGood

\* A good assertion whose header says JWT, whose key is the first found under its name
\* and whose coordinates are padded is accepted, however many keys the app has and
\* however they are named (jwtValidate, ParseEcSig).
THEOREM GoodAssertionIsAccepted == AssertionSpec => AssertionRefusedForCause
<1> DEFINE Caused == \/ ~Good(assertion)
                     \/ ~assertion.typ \/ Hidden(assertion) \/ Short(assertion)
<1>1. ASSUME AssertionInv, [AssertionNext]_assertionVars, verdict = "none", verdict' = "refused"
      PROVE  Caused
  <2>1. Validate
    BY <1>1, OnlyValidateJudges
  <2> SUFFICES ASSUME Good(assertion), assertion.typ, ~Hidden(assertion), ~Short(assertion)
               PROVE  FALSE
    OBVIOUS
  <2>2. assertion.width = 2 * Size
    BY <1>1, SizeAssumption DEF AssertionInv, Assertion, Short
  <2>3. SignedBy(assertion)
    BY <1>1, <2>2, KnownSigns DEF Good
  <2> QED
    BY <1>1, <2>1, <2>3 DEF Validate, Good, InTime
<1>2. AssertionInv /\ [AssertionNext]_assertionVars =>
        [verdict = "none" /\ verdict' = "refused" => Caused]_assertionVars
  BY <1>1
<1> QED
  BY <1>2, AssertionInvariance, PTL DEF AssertionSpec, AssertionRefusedForCause

===============================================================================
