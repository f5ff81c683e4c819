---------------------------- MODULE ClientAssertion -----------------------------
(***************************************************************************)
(* How a client proves who it is at POST /token: the operator makes the    *)
(* keys of its app with cmd/mkjwks, the client makes an assertion, with    *)
(* cmd/mkjwt or with a library, and jwtValidate (oidc/token.go) decides,   *)
(* some time later.                                                        *)
(*                                                                         *)
(* Of a signature only the widths of its coordinates are kept: the integers *)
(* r and s, below 2^(8 * Size), may need fewer than Size bytes.            *)
(***************************************************************************)
EXTENDS Integers, Sequences, FiniteSetsExt

CONSTANTS
  File,     \* key files
  P256,     \* those of curve P-256
  FileList, \* command lines of mkjwks
  Kid,      \* names of keys
  Size,     \* bytes of a coordinate: 32 in the code
  Width,    \* bytes that r and s of a signature need
  Life,     \* exp - iat of an assertion
  Skew,     \* how far the client's clock may be ahead
  MaxClock, \* bound on the clock
  NoKid     \* the empty kid

ASSUME FileAssumption == P256 \subseteq File /\ FileList \subseteq Seq(File)
ASSUME KidAssumption == NoKid \notin Kid
ASSUME SizeAssumption == Size \in Nat \ {0} /\ Width \subseteq 1 .. Size
ASSUME LifeAssumption == Life \in Nat /\ Skew \subseteq Nat /\ MaxClock \in Nat

VARIABLES
  clock,     \* the server's clock
  keys,      \* attrs.Keys of the app
  held,      \* attrs.Keys as POST /token has read them
  assertion, \* the client's assertion, once there is one
  verdict    \* what jwtValidate says of it, once there is one to judge

assertionVars == <<clock, keys, held, assertion, verdict>>

AppKey == [kid : Kid \cup {NoKid}, file : File]

\* typ: the header says JWT.  rightful: audience, issuer and subject are the
\* endpoint and the client.
Assertion ==
  [typ : BOOLEAN, alg : {"ES256", "none", "other"}, kid : Kid \cup {NoKid}, file : File,
   rightful : BOOLEAN, iat : Nat, exp : Nat, width : Nat]

NoAssertion ==
  [typ |-> FALSE, alg |-> "none", kid |-> NoKid, file |-> CHOOSE f \in File : TRUE,
   rightful |-> FALSE, iat |-> 0, exp |-> 0, width |-> 0]

AssertionInit ==
  /\ clock = 0
  /\ keys = << >>
  /\ held = << >>
  /\ assertion = NoAssertion
  /\ verdict = "idle"

Pass ==
  /\ clock < MaxClock
  /\ clock' = clock + 1
  /\ UNCHANGED <<keys, held, assertion, verdict>>

-------------------------------------------------------------------------------
\* cmd/mkjwks: a key of another curve ends the list, with those after it.
Mkjwks(files) ==
  LET unsupported == {i \in DOMAIN files : files[i] \notin P256}
      n == IF unsupported = {} THEN Len(files)
           ELSE Min(unsupported) - 1
  IN  [i \in 1 .. n |-> [kid |-> NoKid, file |-> files[i]]]

\* The operator stores what mkjwks printed, which names no key, and may name some of
\* the keys, or several alike.
Configure ==
  /\ \E files \in FileList :
       \E names \in [DOMAIN Mkjwks(files) -> Kid \cup {NoKid}] :
         keys' = [i \in DOMAIN Mkjwks(files) |-> [kid |-> names[i], file |-> files[i]]]
  /\ UNCHANGED <<clock, held, assertion, verdict>>

\* Bytes of r and s: FillBytes pads both, Bytes neither.
Padded(r, s) == 2 * Size

Unpadded(r, s) == r + s

\* The client signs with file f, and may name any key in the header.  One assertion
\* is enough: validation leaves nothing behind.
Make(typ, alg, width) ==
  /\ verdict = "idle"
  /\ \E f \in File, kid \in Kid \cup {NoKid}, rightful \in BOOLEAN, ahead \in Skew :
       assertion' = [typ |-> typ, alg |-> alg, kid |-> kid, file |-> f, rightful |-> rightful,
                     iat |-> clock + ahead, exp |-> clock + ahead + Life, width |-> width]
  /\ verdict' = "sent"
  /\ UNCHANGED <<clock, keys, held>>

\* A library of the client's, which writes signatures as EcKey.Sign does; not all of
\* them write typ, which is optional.
MakeLibrary ==
  \E r, s \in Width, typ \in BOOLEAN, alg \in {"ES256", "none", "other"} :
    Make(typ, alg, Padded(r, s))

Mkjwt == \E r, s \in Width : Make(TRUE, "ES256", Unpadded(r, s))

-------------------------------------------------------------------------------
\* POST /token: the app is read, then its keys judge the assertion.

RetrieveApp ==
  /\ verdict = "sent"
  /\ held' = keys
  /\ verdict' = "none"
  /\ UNCHANGED <<clock, keys, assertion>>

\* Mutated form of Allowed: a token without kid is for a key without kid.
AllowedExact(a) == {i \in DOMAIN held : a.kid = held[i].kid}

\* The keys that the kid allows; a token without kid allows all.
Allowed(a) == {i \in DOMAIN held : a.kid = NoKid \/ a.kid = held[i].kid}

\* A public key can be made of the parameters.
EcPublicKey(key) == key.file \in P256

\* Both coordinates are there in full.
ParseEcSig(width) == width = 2 * Size

\* The first key allowed is taken, and must be the one that signed.
SignedBy(a) ==
  \E i \in Allowed(a) :
    /\ \A j \in Allowed(a) : i <= j
    /\ EcPublicKey(held[i])
    /\ ParseEcSig(a.width)
    /\ held[i].file = a.file

\* Mutated form of InTime: the assertion may be used before it was made.
InTimeEarly(a) == clock <= a.exp

\* jwtValidateClaims: exp and iat are both good at their instants.  (The same
\* comparison is made for nbf, which neither maker of assertions here writes.)
InTime(a) == a.iat <= clock /\ clock <= a.exp

\* jwtValidate.  A token that says "none" has three parts, and the fourth is asked
\* for: the handler panics, which ends the request.
Validate ==
  /\ verdict = "none"
  /\ LET good == /\ assertion.alg = "ES256"
                 /\ SignedBy(assertion)
                 /\ InTime(assertion) /\ assertion.rightful
     IN verdict' = IF ~assertion.typ THEN "refused"
                   ELSE IF assertion.alg = "none" THEN "panic"
                   ELSE IF good THEN "accepted" ELSE "refused"
  /\ UNCHANGED <<clock, keys, held, assertion>>

AssertionNext == Pass \/ Configure \/ MakeLibrary \/ Mkjwt \/ RetrieveApp \/ Validate

AssertionSpec == AssertionInit /\ [][AssertionNext]_assertionVars

-------------------------------------------------------------------------------
\* The keys the app has under the name an assertion gives, or all, if it gives none.
KeysNamed(a) == {i \in DOMAIN held : a.kid \in {NoKid, held[i].kid}}

KnownKey(a) == \E i \in KeysNamed(a) : held[i].file = a.file

Good(a) ==
  /\ a.alg = "ES256" /\ a.rightful
  /\ KnownKey(a)
  /\ a.iat <= clock /\ clock <= a.exp

\* An earlier key of the app goes by the same name; without a name, any earlier key.
Hidden(a) ==
  \E i \in KeysNamed(a) : \A j \in KeysNamed(a) : held[j].file = a.file => i < j

Short(a) == a.width < 2 * Size

\* An assertion is accepted only if it was signed, with a key the app had when the
\* request read it, for this endpoint and client, and within its life by the server's
\* clock: keys may be replaced, and time passes, while an assertion is on its way.
AcceptedIsGood == [][verdict # "accepted" /\ verdict' = "accepted" => Good(assertion)]_assertionVars

\* A good assertion is refused only if its header does not say JWT, if another key
\* of the app is found first, or if a coordinate of its signature begins with a zero
\* byte and its signer did not pad it.
AssertionRefusedForCause ==
  [][verdict = "none" /\ verdict' = "refused" =>
       \/ ~Good(assertion)
       \/ ~assertion.typ \/ Hidden(assertion) \/ Short(assertion)]_assertionVars

\* The same without the last exception: mkjwt is there to make assertions, and the
\* test of jwtValidate requires that one made as mkjwt does is accepted.
GoodIsAccepted ==
  [][verdict = "none" /\ verdict' = "refused" =>
       ~Good(assertion) \/ ~assertion.typ \/ Hidden(assertion)]_assertionVars

===============================================================================
