------------------------------- MODULE WebAuthn --------------------------------
(***************************************************************************)
(* The bytes of a passkey, from its registration to its first sign-in      *)
(* (auth/credentials.go, and cbPasskey in auth/cb.go): the authenticator   *)
(* data is decoded with one offset that every step moves on, the bytes of  *)
(* the public key are stored, and the sign-in decodes them again to verify *)
(* a signature.                                                            *)
(*                                                                         *)
(* A byte string is the record of what it declares about itself and of how *)
(* many bytes it has.  The challenge, the login and the signature counter  *)
(* of these two requests are SignUp's and Callbacks'.                      *)
(***************************************************************************)
EXTENDS Integers

CONSTANTS
  IdLength,   \* lengths of credential ids
  KeyLength,  \* lengths of well-formed public keys
  ExtLength,  \* lengths of extension data
  OffBy,      \* by how many bytes data may be short (below zero) or too long
  Nothing     \* no public key, no credential record

ASSUME LengthsAssumption ==
  /\ IdLength \subseteq Nat /\ KeyLength \subseteq Nat \ {0} /\ ExtLength \subseteq Nat \ {0}
  /\ OffBy \subseteq Int

\* COSE keys: how they are read (kty) and used (alg).  Of the algorithms the page
\* of the sign-up offers, ES256 goes with EC2 keys (on P-256), EdDSA with OKP keys
\* (of 32 bytes) and RS256 with RSA keys.
Kty == {"OKP", "EC2", "RSA", "other"}

Alg == {"ES256", "EdDSA", "RS256", "other"}

Fits(key) ==
  \/ key.kty = "EC2" /\ key.alg = "ES256"
  \/ key.kty = "OKP" /\ key.alg = "EdDSA"
  \/ key.kty = "RSA" /\ key.alg = "RS256"

\* whole: no parameter of its type is missing.  Nothing is the item null.
Key == [kty : Kty, alg : Alg, whole : BOOLEAN]

ASSUME NothingAssumption == Nothing \notin Key

\* at, ed: attested credential data, extension data included.  up, uv: user
\* present, user verified.
Data == [at : BOOLEAN, ed : BOOLEAN, up : BOOLEAN, uv : BOOLEAN, idLen : Nat,
         key : Key \cup {Nothing}, keyLen : Nat, extLen : Nat, size : Nat]

VARIABLES
  ceremony,  \* none yet, webauthn.create, webauthn.get
  stage,     \* the next step of the request, or how it was answered
  data,      \* the authenticator data it carries
  offset,    \* l of decodeAuthenticatorData
  read,      \* history: the end of the furthest slice taken of the data
  raw,       \* length of credentialPublicKeyRaw
  record,    \* the public key of the credential record
  extra,     \* bytes stored with it that are not the key's
  book       \* history: the data it came with was by the book

webAuthnVars == <<ceremony, stage, data, offset, read, raw, record, extra, book>>

Stage == {"idle", "head", "attested", "id", "key", "extensions", "end", "decoded",
          "undecoded", "denied", "unavailable", "registered", "signed in"}

minAuthenticatorDataLength == 32 + 1 + 4

maxCredentialIdLength == 1023

\* Bytes the data declares: what an authenticator that follows the book sends.
Declared(d) ==
  minAuthenticatorDataLength
    + (IF d.at THEN 16 + 2 + d.idLen + d.keyLen ELSE 0)
    + (IF d.ed THEN d.extLen ELSE 0)

ByTheBook(d) ==
  /\ d.size = Declared(d)
  /\ d.at => d.idLen <= maxCredentialIdLength /\ d.key # Nothing /\ d.key.kty # "other" /\ d.key.whole

WebAuthnInit ==
  /\ ceremony = "none"
  /\ stage = "idle"
  /\ data = [at |-> FALSE, ed |-> FALSE, up |-> FALSE, uv |-> FALSE, idLen |-> 0,
             key |-> Nothing, keyLen |-> 0, extLen |-> 0, size |-> 0]
  /\ offset = 0
  /\ read = 0
  /\ raw = 0
  /\ record = Nothing
  /\ extra = 0
  /\ book = FALSE

\* The authenticator, and whatever cuts or pads its data on the way.
Receive(kind, d) ==
  /\ ceremony' = kind
  /\ stage' = "head"
  /\ data' = d
  /\ offset' = 0
  /\ read' = 0
  /\ raw' = 0
  /\ UNCHANGED <<record, extra, book>>

Create ==
  /\ stage = "idle"
  /\ \E at, ed, uv \in BOOLEAN, idLen \in IdLength, keyLen \in KeyLength, extLen \in ExtLength,
        key \in Key \cup {Nothing}, by \in OffBy :
       LET d == [at |-> at, ed |-> ed, up |-> TRUE, uv |-> uv, idLen |-> idLen, key |-> key,
                 keyLen |-> IF key = Nothing THEN 1 ELSE keyLen, extLen |-> extLen, size |-> 0]
       IN  /\ Declared(d) + by \in Nat
           /\ Receive("create", [d EXCEPT !.size = Declared(d) + by])

\* Assertions carry no attested credential data.
Get ==
  /\ stage = "registered"
  /\ \E ed, up, uv \in BOOLEAN, extLen \in ExtLength :
       LET d == [at |-> FALSE, ed |-> ed, up |-> up, uv |-> uv, idLen |-> 0, key |-> Nothing,
                 keyLen |-> 0, extLen |-> extLen, size |-> 0]
       IN  Receive("get", [d EXCEPT !.size = Declared(d)])

-------------------------------------------------------------------------------
\* decodeAuthenticatorData.

\* The decoder is where s is; the data is read up to n; the offset becomes n.
Take(s, n, next) ==
  /\ stage = s
  /\ offset' = n
  /\ IF data.size < n THEN stage' = "undecoded" /\ UNCHANGED read
                      ELSE stage' = next /\ read' = n
  /\ UNCHANGED <<ceremony, data, raw, record, extra, book>>

\* Mutated form of AuthHead: data of exactly this length is short.
AuthHeadStrict ==
  \/ /\ data.size # minAuthenticatorDataLength
     /\ Take("head", minAuthenticatorDataLength, IF data.at THEN "attested" ELSE "extensions")
  \/ /\ stage = "head" /\ data.size = minAuthenticatorDataLength
     /\ stage' = "undecoded"
     /\ UNCHANGED <<ceremony, data, offset, read, raw, record, extra, book>>

AuthHead ==
  Take("head", minAuthenticatorDataLength, IF data.at THEN "attested" ELSE "extensions")

Attested == Take("attested", offset + 16 + 2, "id")

\* Mutated form of CredentialId: the bytes of the id are not counted first.
CredentialIdUnchecked ==
  /\ stage = "id"
  /\ data.idLen <= maxCredentialIdLength
  /\ offset' = offset + data.idLen
  /\ read' = offset + data.idLen
  /\ stage' = "key"
  /\ UNCHANGED <<ceremony, data, raw, record, extra, book>>

CredentialId ==
  \/ /\ data.idLen <= maxCredentialIdLength
     /\ Take("id", offset + data.idLen, "key")
  \/ /\ stage = "id"
     /\ data.idLen > maxCredentialIdLength
     /\ stage' = "undecoded"
     /\ UNCHANGED <<ceremony, data, offset, read, raw, record, extra, book>>

\* UnmarshalCBOR: every field of its key type, and RSA keys with any.
Decodable(key) ==
  IF key = Nothing THEN TRUE ELSE key.kty = "RSA" \/ (key.kty \in {"OKP", "EC2"} /\ key.whole)

\* What is left in the reader when the item has been read: the decoder takes its
\* input in blocks, which may reach beyond the item.
Unread(rest) == 0 .. rest

\* Mutated form of PublicKey: the slice that is stored begins at the id.
PublicKeyWithId ==
  /\ stage = "key"
  /\ offset + data.keyLen <= data.size
  /\ Decodable(data.key)
  /\ stage' = "extensions"
  /\ raw' = data.idLen + data.keyLen
  /\ offset' = offset + data.keyLen
  /\ read' = offset + data.keyLen
  /\ UNCHANGED <<ceremony, data, record, extra, book>>

PublicKey ==
  /\ stage = "key"
  /\ \/ /\ offset + data.keyLen <= data.size
        /\ Decodable(data.key)
        /\ stage' = "extensions"
        /\ \E unread \in Unread(data.size - (offset + data.keyLen)) :
             /\ raw' = data.size - unread - offset
             /\ offset' = data.size - unread
             /\ read' = data.size - unread
     \/ /\ offset + data.keyLen > data.size \/ ~Decodable(data.key)
        /\ stage' = "undecoded"
        /\ UNCHANGED <<offset, read, raw>>
  /\ UNCHANGED <<ceremony, data, record, extra, book>>

\* The slice kept as extensions; the offset stays where they begin.
Extensions ==
  /\ stage = "extensions"
  /\ IF data.ed /\ data.size <= offset
     THEN stage' = "undecoded" /\ UNCHANGED read
     ELSE stage' = "end" /\ read' = IF data.ed THEN data.size ELSE read
  /\ UNCHANGED <<ceremony, data, offset, raw, record, extra, book>>

\* Mutated form of End: bytes that are left over do not matter.
EndAnywhere ==
  /\ stage = "end"
  /\ stage' = "decoded"
  /\ UNCHANGED <<ceremony, data, offset, read, raw, record, extra, book>>

End ==
  /\ stage = "end"
  /\ stage' = IF data.size = offset THEN "decoded" ELSE "undecoded"
  /\ UNCHANGED <<ceremony, data, offset, read, raw, record, extra, book>>

-------------------------------------------------------------------------------
\* What the two handlers do with decoded data.

Supported(key) == key.alg # "other"

\* credentialsHandler, steps 15 to 20 and 27.  (Step 14, the rp id, is as in Verify.)
Register ==
  /\ ceremony = "create"
  /\ stage = "decoded"
  /\ \/ /\ data.uv /\ data.at /\ data.key # Nothing
        /\ Supported(data.key)
        /\ record' = data.key
        /\ extra' = raw - data.keyLen
        /\ book' = ByTheBook(data)
        /\ stage' = "registered"
     \/ /\ data.uv /\ data.at /\ data.key # Nothing => ~Supported(data.key)
        /\ stage' = "denied"
        /\ UNCHANGED <<record, extra, book>>
  /\ UNCHANGED <<ceremony, data, offset, read, raw>>

\* verifyAssertionSignature: the algorithm alone decides which fields of the key
\* are used, and a key of another type, or short of a field, has them empty.
Verifies(key) == Fits(key) /\ key.whole

\* cbPasskey, steps 15 to 21, of a signature made with the key that was registered.
SignIn ==
  /\ ceremony = "get"
  /\ stage = "decoded"
  /\ stage' = IF ~(data.up /\ data.uv) THEN "denied"
              ELSE IF extra > 0 THEN "unavailable"
              ELSE IF Verifies(record) THEN "signed in" ELSE "denied"
  /\ UNCHANGED <<ceremony, data, offset, read, raw, record, extra, book>>

Decode == AuthHead \/ Attested \/ CredentialId \/ PublicKey \/ Extensions \/ End

WebAuthnNext == Create \/ Get \/ Decode \/ Register \/ SignIn

WebAuthnSpec == WebAuthnInit /\ [][WebAuthnNext]_webAuthnVars

-------------------------------------------------------------------------------
WebAuthnTypeOK ==
  /\ ceremony \in {"none", "create", "get"}
  /\ stage \in Stage
  /\ data \in Data
  /\ offset \in Nat /\ read \in Nat /\ raw \in Nat
  /\ record \in Key \cup {Nothing} /\ extra \in Nat /\ book \in BOOLEAN

\* No slice is taken of bytes that are not there, whatever lengths the data
\* declares: each is tested before it is used (a slice out of range is a panic).
WithinData == read <= data.size

\* Data is decoded only if every byte is accounted for: it has no extensions, and
\* either it ends with the head or what follows the id is stored as the key.
EveryByteCounts ==
  stage \in {"decoded", "registered"} =>
    /\ ~data.ed
    /\ data.size = minAuthenticatorDataLength + (IF data.at THEN 16 + 2 + data.idLen + raw ELSE 0)

\* What an authenticator sends by the book is decoded, except that data with
\* extensions never is: the offset is not moved past them, so that they count as
\* bytes left over (or as missing, when the key's decoder has read ahead).
DecodedUnlessExtensions == stage = "undecoded" => ~ByTheBook(data) \/ data.ed

\* The same without the exception, as the flag ("Extension data included") and
\* the refusal of data whose extensions are missing have it.
Decoded == stage = "undecoded" => ~ByTheBook(data)

\* A passkey that was registered, with data by the book and a key of the type its
\* algorithm is for, signs in: an assertion made with it is turned away only if the
\* user is not present and verified, or if its data is not decoded, which is so when
\* it has extensions or is not by the book.
RegisteredSignsIn ==
  ceremony = "get" /\ book /\ Fits(record) /\ stage \in {"undecoded", "denied", "unavailable"} =>
    \/ ~(data.up /\ data.uv)
    \/ stage = "undecoded" /\ (data.ed \/ ~ByTheBook(data))

===============================================================================
