------------------------------ MODULE Revisions -------------------------------
(***************************************************************************)
(* Optimistic locking of the attrs column: the four SetAttrs methods of    *)
(* internal/db (auth states, identities, and the two of identity sources)  *)
(* replace all attributes of a row, provided that its _rev is still the    *)
(* one the caller read.                                                    *)
(*                                                                         *)
(* _rev is an int32 that starts at random and wraps, kept in a JSON object *)
(* under omitempty: a zero is not stored, and a row without _rev compares  *)
(* equal to nothing, while reading it gives zero.  The other modules count *)
(* revisions in Nat; this one is where the integer is checked.             *)
(***************************************************************************)
EXTENDS Integers

CONSTANTS
  Proc,       \* requests with an object of the row
  Half,       \* the integer is in -Half .. Half - 1: 2^31 in the code
  MaxWrites,  \* bound on committed updates
  NoRev       \* the null that attrs['_rev'] is in a row without it

ASSUME HalfAssumption == Half \in Nat \ {0}
ASSUME MaxWritesAssumption == MaxWrites \in Nat
ASSUME NoRevAssumption == NoRev \notin Int

VARIABLES
  rev,     \* attrs['_rev'] of the row
  writes,  \* history: updates committed so far; names the value of the row
  pc,      \* how far each request has come
  own,     \* the revision in the request's object
  basis    \* history: the value of the row the request's object shows

vars == <<rev, writes, pc, own, basis>>

\* No object yet; an object as read or written; SetAttrs gave ErrConflict, or
\* ErrUnknown because the revision it returned could not be scanned.
Stage == {"start", "ready", "conflict", "unknown"}

Int32 == -Half .. Half - 1

\* Mutated form of Wrap: the object's revision is wider than the column's.
WrapNever(n) == n

\* Two's complement, for a value one above a revision at most.
Wrap(n) == IF n < Half THEN n ELSE n - 2 * Half

\* Marshal and unmarshal of `json:"_rev,omitempty"`.
Stored(n) == IF n = 0 THEN NoRev ELSE n

Loaded(v) == IF v = NoRev THEN 0 ELSE v

\* rand.Int32() is never negative.
Init ==
  /\ rev \in {Stored(n) : n \in 0 .. Half - 1}
  /\ writes = 0
  /\ pc = [p \in Proc |-> "start"]
  /\ own = [p \in Proc |-> 0]
  /\ basis = [p \in Proc |-> 0]

Retrieve(p) ==
  /\ pc[p] = "start"
  /\ own' = [own EXCEPT ![p] = Loaded(rev)]
  /\ basis' = [basis EXCEPT ![p] = writes]
  /\ pc' = [pc EXCEPT ![p] = "ready"]
  /\ UNCHANGED <<rev, writes>>

\* Mutated form of SetAttrs: the update does not ask for the revision it read.
SetAttrsBlind(p) ==
  LET next == Wrap(own[p] + 1) IN
  /\ pc[p] = "ready"
  /\ writes < MaxWrites
  /\ rev' = Stored(next)
  /\ writes' = writes + 1
  /\ own' = [own EXCEPT ![p] = next]
  /\ basis' = [basis EXCEPT ![p] = writes + 1]
  /\ UNCHANGED pc

\* Mutated form of SetAttrs: the object keeps the revision it had.
SetAttrsForgets(p) ==
  LET next == Wrap(own[p] + 1) IN
  /\ pc[p] = "ready"
  /\ \/ /\ rev = own[p]
        /\ writes < MaxWrites
        /\ rev' = Stored(next)
        /\ writes' = writes + 1
        /\ basis' = [basis EXCEPT ![p] = writes + 1]
        /\ UNCHANGED <<own, pc>>
     \/ /\ rev # own[p]
        /\ pc' = [pc EXCEPT ![p] = "conflict"]
        /\ UNCHANGED <<rev, writes, own, basis>>

\* update ... where _rev = $2 returning _rev.  The update commits even when the
\* new revision is zero, not stored, and so cannot be scanned: the caller sees
\* ErrUnknown and its object stays as it was.  After a success the object holds
\* what was written, and may be used again.
SetAttrs(p) ==
  LET next == Wrap(own[p] + 1) IN
  /\ pc[p] = "ready"
  /\ \/ /\ rev = own[p]
        /\ writes < MaxWrites
        /\ rev' = Stored(next)
        /\ writes' = writes + 1
        /\ \/ /\ next # 0
              /\ own' = [own EXCEPT ![p] = next]
              /\ basis' = [basis EXCEPT ![p] = writes + 1]
              /\ pc' = [pc EXCEPT ![p] = "ready"]
           \/ /\ next = 0
              /\ pc' = [pc EXCEPT ![p] = "unknown"]
              /\ UNCHANGED <<own, basis>>
     \/ /\ rev # own[p]
        /\ pc' = [pc EXCEPT ![p] = "conflict"]
        /\ UNCHANGED <<rev, writes, own, basis>>

Next == \E p \in Proc : Retrieve(p) \/ SetAttrs(p)

Spec == Init /\ [][Next]_vars

-------------------------------------------------------------------------------
TypeOK ==
  /\ rev \in (Int32 \ {0}) \cup {NoRev}
  /\ writes \in 0 .. MaxWrites
  /\ pc \in [Proc -> Stage]
  /\ own \in [Proc -> Int32]
  /\ basis \in [Proc -> 0 .. MaxWrites]

\* No update is lost: one that commits replaces the very value its caller had
\* read, never one written since.  The integer wraps, yet a stale object never
\* matches again: before it comes round the revision passes zero, and a row
\* without a revision can no longer be written.  (Were zero stored, this would
\* hold only while fewer than 2 * Half updates fall between a read and the write
\* that relies on it.)
NoLostUpdate ==
  [][\A p \in Proc :
       writes' # writes /\ <<own[p], pc[p]>>' # <<own[p], pc[p]>> => basis[p] = writes]_vars

\* A refusal (ErrConflict, "data conflict") means that somebody else has written
\* the row since it was read, or that the row has no revision: a zero is not
\* stored, and nothing equals the null that stands for it.  An object that was
\* just written may be written again, through the wrap too.
ConflictMeansChangeOrZero ==
  \A p \in Proc : pc[p] = "conflict" => basis[p] < writes \/ own[p] = 0

===============================================================================
