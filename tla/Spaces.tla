-------------------------------- MODULE Spaces --------------------------------
(***************************************************************************)
(* The gRPC services: Check of an access token (internal/srv/authn.go) and *)
(* Create, which makes a space and gives it to the identity that asks for  *)
(* it (internal/srv/spaces.go, internal/db/spaces.go).                     *)
(*                                                                         *)
(* Create runs three statements after the lookup of the signing key, and   *)
(* no transaction: the identity is read by its access token, the space is  *)
(* inserted, and the identity's attributes are replaced if its revision is *)
(* still the one that was read.  The tokens and keys are AccessTokens'.    *)
(***************************************************************************)
EXTENDS AccessTokens

CONSTANTS
  Slug,     \* names of spaces; the space a call makes is named by the call
  FirstRev  \* what rand.Int32 may draw for the revision of a new identity

ASSUME SlugAssumption == None \notin Slug
ASSUME RevAssumption == FirstRev \subseteq Nat

VARIABLES
  idns,    \* the idns table: space id, status and revision of each identity
  spaces,  \* the spaces table: the slug of each space
  call     \* the local state of each Create

spaceVars == <<idns, spaces, call>>

vars == <<tokenVars, spaceVars>>

\* Statuses in their order; below pending an identity is shut out.
Status == {"suspended", "pending", "active"}

IdnRow == [space : Request \cup {None}, status : Status, rev : Nat]

ASSUME IdnRowAssumption == None \notin IdnRow

\* copy: the identity as RetrieveIdnByAuthToken read it.
Calls == [pc : {"idle", "check", "insert", "assign", "done", "failed"},
          copy : IdnRow \cup {None}, slug : Slug \cup {None}]

Init ==
  /\ TokenInit
  /\ idns \in [Idn -> [space : {None}, status : Status, rev : FirstRev]]
  /\ spaces = [r \in Request |-> None]
  /\ call = [r \in Request |-> [pc |-> "idle", copy |-> None, slug |-> None]]

GoTo(r, pc) == call' = [call EXCEPT ![r].pc = pc]

-------------------------------------------------------------------------------
\* The caller of Create, as its row is in the statement that finds it.
Authenticate(r, slug) ==
  /\ Identify(r)
  /\ job'[r].pc = "known"
  /\ call' = [call EXCEPT ![r] = [pc |-> "check", copy |-> idns[SubjectOf(job[r].tok)],
                                 slug |-> slug]]
  /\ UNCHANGED <<idns, spaces>>

\* "forbidden due to identity status", then "quota exceeded".
Check(r) ==
  LET idn == call[r].copy IN
  /\ call[r].pc = "check"
  /\ GoTo(r, IF idn.status = "suspended" \/ idn.space # None THEN "done" ELSE "insert")
  /\ UNCHANGED <<tokenVars, idns, spaces>>

\* NewSpace: "spaces.unique" refuses a slug that is taken.
InsertSpace(r) ==
  LET slug == call[r].slug IN
  /\ call[r].pc = "insert"
  /\ \/ /\ \A o \in Request : spaces[o] # slug
        /\ spaces' = [spaces EXCEPT ![r] = slug]
        /\ GoTo(r, "assign")
     \/ /\ \E o \in Request : spaces[o] = slug
        /\ GoTo(r, "done")
        /\ UNCHANGED spaces
  /\ UNCHANGED <<tokenVars, idns>>

\* Mutated form of Assigned: the slug stands in for the id.
AssignedSlug(r) ==
  [space |-> call[r].slug,
   status |-> IF call[r].copy.status = "pending" THEN "active" ELSE call[r].copy.status,
   rev |-> call[r].copy.rev + 1]

\* Mutated form of Assigned: the identity is not activated.
AssignedPending(r) ==
  [space |-> r, status |-> call[r].copy.status, rev |-> call[r].copy.rev + 1]

\* The identity as the call would leave it.
Assigned(r) ==
  [space |-> r,
   status |-> IF call[r].copy.status = "pending" THEN "active" ELSE call[r].copy.status,
   rev |-> call[r].copy.rev + 1]

\* Mutated form of Assign: the update does not ask for the revision it read.
AssignBlind(r) ==
  /\ call[r].pc = "assign"
  /\ idns' = [idns EXCEPT ![job[r].sub] = Assigned(r)]
  /\ GoTo(r, "done")
  /\ UNCHANGED <<tokenVars, spaces>>

\* idn.SetAttrs.  A revision of zero is not stored (omitempty), and the row without
\* one matches nobody.  When the update is refused the space just made stays.
Assign(r) ==
  LET i == job[r].sub
      match == idns[i].rev = call[r].copy.rev /\ idns[i].rev # 0
  IN
  /\ call[r].pc = "assign"
  /\ \/ match /\ idns' = [idns EXCEPT ![i] = Assigned(r)]
     \/ ~match /\ UNCHANGED idns
  /\ GoTo(r, "done")
  /\ UNCHANGED <<tokenVars, spaces>>

\* The client goes away, a statement fails, the process is killed.
Fail(r) ==
  /\ Failing
  /\ call[r].pc \in {"check", "insert", "assign"}
  /\ GoTo(r, "failed")
  /\ UNCHANGED <<tokenVars, idns, spaces>>

Create(r) ==
  \/ \E slug \in Slug : Authenticate(r, slug)
  \/ Check(r)
  \/ InsertSpace(r)
  \/ Assign(r)

\* Everything else: tokens are issued and checked, and the callers of Check learn
\* the identity and no more.
Next ==
  \/ TokenNext /\ UNCHANGED spaceVars
  \/ \E r \in Request : Create(r) \/ Fail(r)

Spec == Init /\ [][Next]_vars

-------------------------------------------------------------------------------
TypeOK ==
  /\ TokenTypeOK
  /\ idns \in [Idn -> IdnRow]
  /\ spaces \in [Request -> Slug \cup {None}]
  /\ call \in [Request -> Calls]

\* The quota is one space for an identity: the space it has is never replaced
\* by another, though calls that all passed the test race (the test reads a
\* copy; only the revision in the update keeps them apart).
SpaceKept ==
  [][\A i \in Idn : idns[i].space # None => idns'[i].space = idns[i].space]_vars

\* A space an identity has exists and was made by a call with a token that was
\* given out for this identity (so it is nobody else's), and an identity that has
\* one is not left pending.
SpaceOwned ==
  \A i \in Idn :
    LET s == idns[i].space IN
    s # None => /\ spaces[s] # None
                /\ given[job[s].tok].sub = i
                /\ idns[i].status = "active"

\* A finished call that made a space left it without an owner only if its caller
\* owns another one by now, or can never own one, because the revision drawn for it
\* was zero: the quota holds, at the price of a name that is taken for good.  (After
\* a failure between the two statements nobody may own it.)
OwnedUnlessRacedOrZero ==
  \A r \in Request :
    spaces[r] # None /\ call[r].pc = "done" =>
      idns[job[r].sub].space \in Request \/ idns[job[r].sub].rev = 0

===============================================================================
