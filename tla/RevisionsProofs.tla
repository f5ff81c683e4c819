---------------------------- MODULE RevisionsProofs ----------------------------
(***************************************************************************)
(* Proofs about optimistic locking, for an integer of any width, any number *)
(* of requests and any bound on the updates.                               *)
(***************************************************************************)
EXTENDS Revisions, TLAPS

\* How far revision n is on the way from zero up, through the wrap, to zero.
Pos(n) == IF n >= 0 THEN n ELSE n + 2 * Half

\* An object is as many updates behind the row as its revision is behind the
\* row's, while the row has one; and once it has none, an object that shows a
\* revision was read before.
InStep(p) ==
  /\ basis[p] <= writes
  /\ pc[p] = "ready" =>
       IF rev # NoRev
       THEN own[p] # 0 /\ Pos(own[p]) + writes = Pos(rev) + basis[p]
       ELSE own[p] = 0 \/ basis[p] < writes
  /\ pc[p] = "conflict" => basis[p] < writes \/ own[p] = 0

RevInv == TypeOK /\ \A p \in Proc : InStep(p)

\* One step up moves one position on, unless it ends at zero.
LEMMA WrapMoves ==
  ASSUME NEW n \in Int32
  PROVE  /\ Wrap(n + 1) \in Int32
         /\ Wrap(n + 1) # 0 /\ n # 0 => Pos(Wrap(n + 1)) = Pos(n) + 1
BY HalfAssumption DEF Int32, Wrap, Pos

\* Different revisions are at different positions.
LEMMA PosInjective ==
  ASSUME NEW m \in Int32, NEW n \in Int32, Pos(m) = Pos(n)
  PROVE  m = n
BY HalfAssumption DEF Int32, Pos

\* It holds of the rows as they are when the writers start.
LEMMA RevInitInv == Init => RevInv
<1> USE HalfAssumption, MaxWritesAssumption, NoRevAssumption
<1> SUFFICES ASSUME Init PROVE RevInv
  OBVIOUS
<1>1. rev \in (Int32 \ {0}) \cup {NoRev}
  BY DEF Init, Stored, Int32
<1>2. 0 \in Int32 /\ 0 \in 0 .. MaxWrites
  BY DEF Int32
<1> QED
  BY <1>1, <1>2 DEF Init, Stage, TypeOK, InStep, RevInv

\* Reading the row starts a request in step with it.
LEMMA RetrieveStep ==
  ASSUME RevInv, NEW p \in Proc, Retrieve(p)
  PROVE  RevInv'
<1> USE HalfAssumption, MaxWritesAssumption, NoRevAssumption
<1>1. /\ own'[p] = Loaded(rev) /\ basis'[p] = writes /\ pc'[p] = "ready"
      /\ \A q \in Proc : q # p => own'[q] = own[q] /\ basis'[q] = basis[q] /\ pc'[q] = pc[q]
      /\ rev' = rev /\ writes' = writes
  BY DEF Retrieve, RevInv, TypeOK
<1>2. Loaded(rev) \in Int32 /\ writes \in Nat
  BY DEF Loaded, Int32, RevInv, TypeOK
<1>3. TypeOK'
  BY <1>2 DEF Retrieve, Stage, RevInv, TypeOK
<1>4. InStep(p)'
  <2>1. CASE rev = NoRev
    BY <1>1, <1>2, <2>1 DEF Loaded, InStep
  <2>2. CASE rev # NoRev
    <3>1. Loaded(rev) = rev /\ rev # 0 /\ Pos(rev) \in Int
      BY <2>2 DEF Loaded, Pos, Int32, RevInv, TypeOK
    <3> QED
      BY <1>1, <1>2, <2>2, <3>1 DEF InStep, Pos
  <2> QED
    BY <2>1, <2>2
<1>5. ASSUME NEW q \in Proc, q # p PROVE InStep(q)'
  <2>1. InStep(q)
    BY DEF RevInv
  <2> QED
    BY <1>1, <1>5, <2>1 DEF InStep, Pos
<1> QED
  BY <1>3, <1>4, <1>5 DEF RevInv

\* The update is made on the very value its caller read.
LEMMA SetAttrsBasis ==
  ASSUME RevInv, NEW p \in Proc, pc[p] = "ready", rev = own[p]
  PROVE  basis[p] = writes /\ rev \in Int32 \ {0}
<1>1. own[p] \in Int32 /\ rev # NoRev /\ basis[p] \in Nat /\ writes \in Nat
  BY NoRevAssumption, MaxWritesAssumption, HalfAssumption DEF Int32, RevInv, TypeOK
<1>2. Pos(rev) \in Int
  BY <1>1, HalfAssumption DEF Pos, Int32
<1>3. Pos(own[p]) + writes = Pos(rev) + basis[p] /\ own[p] # 0
  BY <1>1 DEF RevInv, InStep
<1> QED
  BY <1>1, <1>2, <1>3

\* SetAttrs keeps it, whether the row is updated or a conflict is reported.
LEMMA SetAttrsStep ==
  ASSUME RevInv, NEW p \in Proc, SetAttrs(p)
  PROVE  RevInv'
<1> USE HalfAssumption, MaxWritesAssumption, NoRevAssumption
<1> DEFINE next == Wrap(own[p] + 1)
<1>1. /\ own \in [Proc -> Int32] /\ basis \in [Proc -> 0 .. MaxWrites] /\ pc \in [Proc -> Stage]
      /\ writes \in 0 .. MaxWrites /\ pc[p] = "ready"
      /\ rev \in (Int32 \ {0}) \cup {NoRev}
  BY DEF SetAttrs, RevInv, TypeOK
<1>2. next \in Int32
  BY <1>1, WrapMoves
<1>3. ASSUME rev = own[p], writes < MaxWrites, rev' = Stored(next), writes' = writes + 1
      PROVE  /\ \A q \in Proc :
                   (own'[q] = own[q] /\ basis'[q] = basis[q] /\ pc'[q] = pc[q]) => InStep(q)'
             /\ rev' \in (Int32 \ {0}) \cup {NoRev} /\ writes' \in 0 .. MaxWrites
  <2>1. basis[p] = writes /\ rev \in Int32 \ {0}
    BY <1>1, <1>3, SetAttrsBasis
  <2>2. next # 0 => Pos(next) = Pos(rev) + 1
    BY <1>3, <2>1, WrapMoves
  <2>3. ASSUME NEW q \in Proc, own'[q] = own[q], basis'[q] = basis[q], pc'[q] = pc[q]
        PROVE  InStep(q)'
    <3>1. InStep(q) /\ basis[q] \in Nat /\ own[q] \in Int32 /\ rev # NoRev
      BY <1>1, <2>1 DEF RevInv, Int32
    <3>2. Pos(own[q]) \in Int /\ Pos(rev) \in Int /\ Pos(own[q])' = Pos(own[q])
      BY <1>1, <2>1, <2>3 DEF Pos, Int32
    <3>3. CASE next = 0
      BY <1>1, <1>3, <2>3, <3>1, <3>2, <3>3 DEF Stored, InStep
    <3>4. CASE next # 0
      <4>1. rev' = next /\ rev' # NoRev /\ Pos(rev)' = Pos(rev) + 1
        BY <1>2, <1>3, <2>2, <3>4 DEF Stored, Pos, Int32
      <4> QED
        BY <1>1, <1>3, <2>3, <3>1, <3>2, <4>1 DEF InStep
    <3> QED
      BY <3>3, <3>4
  <2>4. rev' \in (Int32 \ {0}) \cup {NoRev} /\ writes' \in 0 .. MaxWrites
    BY <1>1, <1>2, <1>3 DEF Stored
  <2> QED
    BY <2>3, <2>4
<1>4. CASE /\ rev = own[p] /\ writes < MaxWrites /\ rev' = Stored(next) /\ writes' = writes + 1
           /\ next # 0
           /\ own' = [own EXCEPT ![p] = next]
           /\ basis' = [basis EXCEPT ![p] = writes + 1]
           /\ pc' = [pc EXCEPT ![p] = "ready"]
  <2>1. /\ own'[p] = next /\ basis'[p] = writes + 1 /\ pc'[p] = "ready" /\ rev' = next
        /\ \A q \in Proc : q # p => own'[q] = own[q] /\ basis'[q] = basis[q] /\ pc'[q] = pc[q]
    BY <1>1, <1>4 DEF Stored
  <2>2. InStep(p)'
    <3>1. Pos(own[p])' = Pos(rev)' /\ Pos(rev)' \in Int /\ rev' # NoRev
      BY <1>2, <2>1 DEF Pos, Int32
    <3> QED
      BY <1>1, <1>4, <2>1, <3>1 DEF InStep
  <2>3. TypeOK'
    BY <1>1, <1>2, <1>3, <1>4 DEF TypeOK, Stage
  <2> QED
    BY <1>3, <1>4, <2>1, <2>2, <2>3 DEF RevInv
<1>5. CASE /\ rev = own[p] /\ writes < MaxWrites /\ rev' = Stored(next) /\ writes' = writes + 1
           /\ pc' = [pc EXCEPT ![p] = "unknown"]
           /\ UNCHANGED <<own, basis>>
  <2>1. /\ pc'[p] = "unknown"
        /\ \A q \in Proc : q # p => own'[q] = own[q] /\ basis'[q] = basis[q] /\ pc'[q] = pc[q]
    BY <1>1, <1>5
  <2>2. InStep(p)'
    BY <1>1, <1>5, <2>1 DEF RevInv, InStep
  <2>3. TypeOK'
    BY <1>1, <1>3, <1>5 DEF TypeOK, Stage
  <2> QED
    BY <1>3, <1>5, <2>1, <2>2, <2>3 DEF RevInv
<1>6. CASE /\ rev # own[p]
           /\ pc' = [pc EXCEPT ![p] = "conflict"]
           /\ UNCHANGED <<rev, writes, own, basis>>
  <2>1. InStep(p) /\ own[p] \in Int32 /\ basis[p] \in Nat /\ writes \in Nat
    BY <1>1 DEF RevInv
  <2>2. basis[p] < writes \/ own[p] = 0
    <3>1. CASE rev = NoRev
      BY <1>1, <2>1, <3>1 DEF InStep
    <3>2. CASE rev # NoRev
      <4>1. rev \in Int32 /\ Pos(rev) # Pos(own[p])
        BY <1>1, <1>6, <2>1, <3>2, PosInjective
      <4>2. Pos(rev) \in Int /\ Pos(own[p]) \in Int
        BY <2>1, <4>1 DEF Pos, Int32
      <4> QED
        BY <1>1, <2>1, <3>2, <4>1, <4>2 DEF InStep
    <3> QED
      BY <3>1, <3>2
  <2>3. InStep(p)'
    BY <1>1, <1>6, <2>1, <2>2 DEF InStep
  <2>4. ASSUME NEW q \in Proc, q # p PROVE InStep(q)'
    <3>1. InStep(q) /\ pc'[q] = pc[q]
      BY <1>1, <1>6, <2>4 DEF RevInv
    <3> QED
      BY <1>6, <3>1 DEF InStep, Pos
  <2>5. TypeOK'
    BY <1>1, <1>6 DEF TypeOK, Stage
  <2> QED
    BY <2>3, <2>4, <2>5 DEF RevInv
<1> QED
  BY <1>4, <1>5, <1>6 DEF SetAttrs

\* Every other step keeps it too.
LEMMA RevStepInv == RevInv /\ [Next]_vars => RevInv'
<1>1. ASSUME RevInv, UNCHANGED vars PROVE RevInv'
  <2>1. UNCHANGED <<rev, writes, pc, own, basis>>
    BY <1>1 DEF vars
  <2> QED
    BY <1>1, <2>1 DEF RevInv, TypeOK, InStep, Pos
<1> QED
  BY <1>1, RetrieveStep, SetAttrsStep DEF Next

\* The row and the objects stay in step.
THEOREM RevisionsInvariance == Spec => []RevInv
BY RevInitInv, RevStepInv, PTL DEF Spec

\* The revision of the row, and of every object of it, stays in its integer.
THEOREM RevisionsTypeCorrect == Spec => []TypeOK
<1>1. RevInv => TypeOK
  BY DEF RevInv
<1> QED
  BY <1>1, RevisionsInvariance, PTL

\* No SetAttrs overwrites an update its caller has not seen, whatever the width of
\* the revision and however often it wraps.
THEOREM RevisionsNoLostUpdate == Spec => NoLostUpdate
<1>1. RevInv /\ [Next]_vars =>
        [\A p \in Proc :
           writes' # writes /\ <<own[p], pc[p]>>' # <<own[p], pc[p]>> => basis[p] = writes]_vars
  <2> SUFFICES ASSUME RevInv, Next, NEW p \in Proc, writes' # writes,
                      <<own[p], pc[p]>>' # <<own[p], pc[p]>>
               PROVE  basis[p] = writes
    OBVIOUS
  <2>1. PICK q \in Proc : SetAttrs(q)
    BY DEF Next, Retrieve
  <2>2. q = p
    BY <2>1 DEF SetAttrs, RevInv, TypeOK
  <2> QED
    BY <2>1, <2>2, SetAttrsBasis DEF SetAttrs
<1> QED
  BY <1>1, RevisionsInvariance, PTL DEF Spec, NoLostUpdate

\* ErrConflict is never given for a row that has a revision and has not changed.
THEOREM RevisionsConflictMeansChange == Spec => []ConflictMeansChangeOrZero
<1>1. RevInv => ConflictMeansChangeOrZero
  BY DEF RevInv, InStep, ConflictMeansChangeOrZero
<1> QED
  BY <1>1, RevisionsInvariance, PTL

===============================================================================
