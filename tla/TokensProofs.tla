----------------------------- MODULE TokensProofs -----------------------------
(***************************************************************************)
(* Proofs about the tokens table, for any number of tokens and requests    *)
(* and any lifetime: Custody is inductive with the type invariant, it      *)
(* implies that a token has one winner and that no conflict is spurious,   *)
(* and it carries the refinement of SingleUse.                             *)
(***************************************************************************)
EXTENDS Tokens, TLAPS

\* The inductive invariant: types, and what each request's copy says of its row.
IInv == TypeOK /\ Custody

\* The invariant holds of an empty table.
LEMMA InitIInv == Init => IInv
  BY NobodyAssumption
  DEF Init, IInv, TypeOK, Custody, Copy, NoCopy, Stage, Zero, Absent

\* A request that holds a token, or was refused or has spent one, has a copy
\* with a real identifier.
LEMMA HolderHasId ==
  ASSUME IInv, NEW p \in Proc, pc[p] \in {"live", "spent", "conflict"}
  PROVE  copy[p] \in [id : Id, exp : Nat] /\ exp[copy[p].id] \in Nat
  BY DEF IInv, Custody, Zero

\* Every step keeps the types: an instant in the table or in a copy is the zero
\* time or one that insert computed (tokens.go).
LEMMA TypeStep == IInv /\ [Next]_vars => TypeOK'
<1> SUFFICES ASSUME IInv, [Next]_vars PROVE TypeOK'
  OBVIOUS
<1> USE TtlAssumption, NobodyAssumption DEF Stage, Absent, Zero
<1>1. CASE Tick
  BY <1>1 DEF Tick, IInv, TypeOK
<1>2. ASSUME NEW i \in Id, Insert(i) PROVE TypeOK'
  BY <1>2 DEF Insert, IInv, TypeOK
<1>3. ASSUME NEW p \in Proc, NEW i \in Id, Retrieve(p, i) PROVE TypeOK'
  <2>1. [id |-> i, exp |-> exp[i]] \in Copy
    BY <1>3 DEF Retrieve, Copy, IInv, TypeOK
  <2> QED
    BY <1>3, <2>1 DEF Retrieve, IInv, TypeOK
<1>4. ASSUME NEW p \in Proc, Expire(p) PROVE TypeOK'
  <2>1. copy[p] \in [id : Id, exp : Nat]
    BY <1>4, HolderHasId DEF Expire
  <2>2. [copy[p] EXCEPT !.exp = Zero] \in Copy
    BY <2>1 DEF Copy
  <2> QED
    BY <1>4, <2>1, <2>2 DEF Expire, IInv, TypeOK
<1>5. ASSUME NEW p \in Proc, End(p) PROVE TypeOK'
  BY <1>5 DEF End, IInv, TypeOK
<1>6. CASE UNCHANGED vars
  BY <1>6 DEF vars, IInv, TypeOK
<1> QED
  BY <1>1, <1>2, <1>3, <1>4, <1>5, <1>6 DEF Next

\* Every step keeps custody.  The interesting case is Expire by a request p
\* while others hold the same token: the row they read becomes Zero, and each
\* of them is not p.
LEMMA CustodyStep == IInv /\ [Next]_vars => Custody'
<1> SUFFICES ASSUME IInv, [Next]_vars PROVE Custody'
  OBVIOUS
<1> USE TtlAssumption, NobodyAssumption DEF Absent, Zero
<1>1. CASE Tick
  BY <1>1 DEF Tick, IInv, Custody
<1>2. ASSUME NEW i \in Id, Insert(i) PROVE Custody'
  <2>1. now + Ttl \in Nat \ {0}
    BY DEF IInv, TypeOK
  <2>2. spentBy[i] \notin Proc
    BY <1>2 DEF Insert, IInv, Custody
  <2>3. \A p \in Proc : pc[p] \in {"live", "conflict"} => copy[p].id # i
    BY <1>2, HolderHasId DEF Insert
  <2>4. exp' = [exp EXCEPT ![i] = now + Ttl] /\ UNCHANGED <<pc, copy, spentBy>>
    BY <1>2 DEF Insert
  <2>5. \A j \in Id : exp'[j] = Zero <=> spentBy'[j] \in Proc
    BY <2>1, <2>2, <2>4 DEF IInv, TypeOK, Custody
  <2>6. \A p \in Proc : pc[p] \in {"live", "conflict"} => exp'[copy[p].id] = exp[copy[p].id]
    BY <2>3, <2>4, HolderHasId DEF IInv, TypeOK
  <2> QED
    BY <2>4, <2>5, <2>6 DEF IInv, Custody
<1>3. ASSUME NEW p \in Proc, NEW i \in Id, Retrieve(p, i) PROVE Custody'
  <2>1. pc'[p] = "live" => exp[i] \in Nat \ {Zero} /\ spentBy[i] \notin Proc
    BY <1>3 DEF Retrieve, Expired, IInv, TypeOK, Stage, Custody
  <2>2. pc'[p] \in {"live", "ended"} /\ copy'[p] = [id |-> i, exp |-> exp[i]]
    BY <1>3 DEF Retrieve, IInv, TypeOK
  <2>3. \A q \in Proc : q # p => pc'[q] = pc[q] /\ copy'[q] = copy[q]
    BY <1>3 DEF Retrieve, IInv, TypeOK
  <2>4. UNCHANGED <<exp, spentBy>>
    BY <1>3 DEF Retrieve
  <2> QED
    BY <2>1, <2>2, <2>3, <2>4 DEF IInv, Custody
<1>4. ASSUME NEW p \in Proc, Expire(p) PROVE Custody'
  <2> DEFINE i == copy[p].id
  <2>1. /\ pc[p] \in {"live", "spent", "conflict"}
        /\ copy[p] \in [id : Id, exp : Nat]
        /\ exp[i] \in Nat
    BY <1>4, HolderHasId DEF Expire
  <2>2. CASE copy[p].exp = Zero
    <3>1. pc' = pc /\ UNCHANGED <<exp, copy, spentBy>>
      BY <1>4, <2>1, <2>2 DEF Expire, IInv, TypeOK, Custody
    <3> QED
      BY <3>1 DEF IInv, Custody
  <2>3. CASE copy[p].exp # Zero /\ exp[i] = copy[p].exp
    <3>1. /\ exp' = [exp EXCEPT ![i] = Zero]
          /\ spentBy' = [spentBy EXCEPT ![i] = p]
          /\ pc'[p] = "spent"
          /\ copy'[p] = [id |-> i, exp |-> Zero]
      BY <1>4, <2>1, <2>3 DEF Expire, IInv, TypeOK
    <3>2. \A q \in Proc : q # p => pc'[q] = pc[q] /\ copy'[q] = copy[q]
      BY <1>4, <2>3 DEF Expire, IInv, TypeOK
    <3>3. \A q \in Proc : pc[q] \in {"spent", "conflict"} => copy[q].id # i
      BY <2>3 DEF IInv, Custody
    <3>4. \A j \in Id : exp'[j] = Zero <=> spentBy'[j] \in Proc
      BY <2>1, <3>1 DEF IInv, TypeOK, Custody
    <3> QED
      BY <2>1, <3>1, <3>2, <3>3, <3>4, HolderHasId DEF IInv, TypeOK, Custody
  <2>4. CASE copy[p].exp # Zero /\ exp[i] # copy[p].exp
    <3>1. pc' = [pc EXCEPT ![p] = "conflict"] /\ UNCHANGED <<exp, copy, spentBy>>
      BY <1>4, <2>1, <2>4 DEF Expire
    <3>2. pc[p] \in {"live", "conflict"} /\ exp[i] = Zero
      BY <2>1, <2>4 DEF IInv, Custody
    <3> QED
      BY <3>1, <3>2 DEF IInv, TypeOK, Custody
  <2> QED
    BY <2>2, <2>3, <2>4
<1>5. ASSUME NEW p \in Proc, End(p) PROVE Custody'
  BY <1>5 DEF End, IInv, TypeOK, Custody
<1>6. CASE UNCHANGED vars
  BY <1>6 DEF vars, IInv, Custody
<1> QED
  BY <1>1, <1>2, <1>3, <1>4, <1>5, <1>6 DEF Next

\* Types and custody hold in every reachable state.
THEOREM IInvInvariant == Spec => []IInv
<1>1. IInv /\ [Next]_vars => IInv'
  BY TypeStep, CustodyStep DEF IInv
<1> QED
  BY InitIInv, <1>1, PTL DEF Spec

-------------------------------------------------------------------------------
\* The table holds an instant or no row, and each copy an identifier with an
\* instant (tokens.go), whatever the lifetime and however many requests race.
THEOREM TypeCorrect == Spec => []TypeOK
<1>1. IInv => TypeOK
  BY DEF IInv
<1> QED
  BY <1>1, IInvInvariant, PTL

\* What a request concludes from its own copy of a row holds in every state
\* (each handler of internal/srv works on the object it read at its start).
THEOREM CopiesAgree == Spec => []Custody
<1>1. IInv => Custody
  BY DEF IInv
<1> QED
  BY <1>1, IInvInvariant, PTL

\* Expire returns nil to one request per token, whatever the lifetime and
\* however many requests race (tokens.go, Expire).
THEOREM OneWinner == Spec => []AtMostOneWinner
<1>1. IInv => AtMostOneWinner
  BY DEF IInv, Custody, AtMostOneWinner
<1> QED
  BY <1>1, IInvInvariant, PTL

\* A refused request was beaten by another one, never by rounding or by its own
\* earlier attempt (tokens.go, ErrConflict).
THEOREM NoSpuriousConflict == Spec => []ConflictHasWinner
<1>1. IInv => ConflictHasWinner
  <2> SUFFICES ASSUME IInv, NEW p \in Proc, pc[p] = "conflict"
               PROVE  exp[copy[p].id] = Zero /\ spentBy[copy[p].id] \in Proc \ {p}
    BY DEF ConflictHasWinner
  <2>1. copy[p].id \in Id /\ exp[copy[p].id] = Zero /\ spentBy[copy[p].id] # p
    BY DEF IInv, Custody
  <2> QED
    BY <2>1 DEF IInv, Custody
<1> QED
  BY <1>1, IInvInvariant, PTL

-------------------------------------------------------------------------------
\* An empty table is an initial state of SingleUse.
LEMMA InitRefines == Init => Use!Init
  BY DEF Init, Use!Init, Issued, Lapsed, Seen, Absent

\* Every statement of the table is a step of SingleUse or none: the clock and
\* Insert are Lapse and Issue, a read that passes the test is See, a successful
\* update is Spend, and a refusal or the end of the request is Forget.
LEMMA StepRefines == IInv /\ [Next]_vars => [Use!Next]_(Use!vars)
<1> SUFFICES ASSUME IInv, [Next]_vars PROVE Use!Next \/ UNCHANGED Use!vars
  OBVIOUS
<1> USE DEF Absent, Zero, Issued, Lapsed, Seen
<1>1. CASE Tick
  <2> DEFINE L == {i \in Issued : exp[i] < now'}
  <2>1. now \in Nat /\ now' = now + 1 /\ UNCHANGED <<exp, pc, copy, spentBy>>
    BY <1>1 DEF Tick, IInv, TypeOK
  <2>2. Lapsed' = Lapsed \cup L
    BY <2>1 DEF IInv, TypeOK
  <2>3. \E K \in SUBSET Issued : Lapsed' = Lapsed \cup K
    BY <2>2
  <2>4. UNCHANGED <<Issued, Seen, spentBy>>
    BY <2>1
  <2> QED
    BY <2>3, <2>4 DEF Use!Next, Use!Lapse
<1>2. ASSUME NEW i \in Id, Insert(i) PROVE Use!Next
  <2>1. /\ exp[i] = Absent
        /\ exp' = [exp EXCEPT ![i] = now + Ttl]
        /\ UNCHANGED <<now, pc, copy, spentBy>>
        /\ now + Ttl \in Nat
        /\ ~(now + Ttl < now)
    BY <1>2, TtlAssumption DEF Insert, IInv, TypeOK
  <2>2. i \notin Issued /\ Issued' = Issued \cup {i}
    BY <2>1 DEF IInv, TypeOK
  <2>3. Lapsed' = Lapsed
    BY <2>1 DEF IInv, TypeOK
  <2>4. Seen' = Seen
    BY <2>1
  <2>5. Use!Issue(i)
    BY <2>1, <2>2, <2>3, <2>4 DEF Use!Issue
  <2> QED
    BY <2>5 DEF Use!Next
<1>3. ASSUME NEW p \in Proc, NEW i \in Id, Retrieve(p, i) PROVE Use!Next \/ UNCHANGED Use!vars
  <2>1. /\ UNCHANGED <<exp, now, spentBy>>
        /\ pc[p] = "start"
        /\ exp[i] # Absent
        /\ copy'[p].id = i
        /\ pc'[p] = IF exp[i] < now THEN "ended" ELSE "live"
        /\ \A q \in Proc : q # p => pc'[q] = pc[q] /\ copy'[q] = copy[q]
    BY <1>3 DEF Retrieve, Expired, IInv, TypeOK
  <2>2. UNCHANGED <<Issued, Lapsed, spentBy>>
    BY <2>1
  <2>3. CASE exp[i] < now
    <3>1. Seen' = Seen
      BY <2>1, <2>3
    <3> QED
      BY <2>2, <3>1 DEF Use!vars
  <2>4. CASE ~(exp[i] < now)
    <3>1. Seen' = Seen \cup {<<i, p>>}
      BY <2>1, <2>4
    <3>2. i \in Issued \ Lapsed
      BY <2>1, <2>4
    <3>3. Use!See(i, p)
      BY <2>2, <3>1, <3>2 DEF Use!See
    <3> QED
      BY <3>3 DEF Use!Next
  <2> QED
    BY <2>3, <2>4
<1>4. ASSUME NEW p \in Proc, Expire(p) PROVE Use!Next \/ UNCHANGED Use!vars
  <2> DEFINE i == copy[p].id
  <2>1. /\ pc[p] \in {"live", "spent", "conflict"}
        /\ copy[p] \in [id : Id, exp : Nat]
        /\ exp[i] \in Nat
        /\ now \in Nat \ {0}
    BY <1>4, HolderHasId DEF Expire, IInv, TypeOK
  <2>2. CASE copy[p].exp = Zero
    <3>1. UNCHANGED vars
      BY <1>4, <2>1, <2>2 DEF Expire, vars, IInv, TypeOK, Custody
    <3> QED
      BY <3>1 DEF vars, Use!vars
  <2>3. CASE copy[p].exp # Zero /\ exp[i] = copy[p].exp
    <3>1. /\ exp' = [exp EXCEPT ![i] = 0]
          /\ spentBy' = [spentBy EXCEPT ![i] = p]
          /\ pc' = [pc EXCEPT ![p] = "spent"]
          /\ copy' = [copy EXCEPT ![p].exp = 0]
          /\ now' = now
      BY <1>4, <2>1, <2>3 DEF Expire
    <3>2. pc[p] = "live" /\ <<i, p>> \in Seen
      BY <2>1, <2>3 DEF IInv, Custody
    <3>3. Issued' = Issued
      BY <2>1, <3>1 DEF IInv, TypeOK
    <3>4. Lapsed' = Lapsed \cup {i}
      BY <2>1, <3>1 DEF IInv, TypeOK
    <3>5. Seen' = Seen \ {<<i, p>>}
      <4>1. \A q \in Proc : q # p => pc'[q] = pc[q] /\ copy'[q] = copy[q]
        BY <3>1 DEF IInv, TypeOK
      <4>2. pc'[p] = "spent"
        BY <3>1 DEF IInv, TypeOK
      <4> QED
        BY <3>2, <4>1, <4>2
    <3>6. spentBy[i] = Nobody
      BY <2>1, <2>3 DEF IInv, TypeOK, Custody
    <3>7. Use!Spend(i, p)
      BY <3>1, <3>2, <3>3, <3>4, <3>5, <3>6 DEF Use!Spend
    <3> QED
      BY <2>1, <3>7 DEF Use!Next
  <2>4. CASE copy[p].exp # Zero /\ exp[i] # copy[p].exp
    <3>1. pc' = [pc EXCEPT ![p] = "conflict"] /\ UNCHANGED <<exp, now, copy, spentBy>>
      BY <1>4, <2>1, <2>4 DEF Expire
    <3>2. pc'[p] = "conflict" /\ \A q \in Proc : q # p => pc'[q] = pc[q]
      BY <3>1 DEF IInv, TypeOK
    <3>3. Seen' = Seen \ {<<i, p>>}
      BY <2>1, <3>1, <3>2
    <3>4. Use!Forget(i, p)
      BY <3>1, <3>3 DEF Use!Forget
    <3> QED
      BY <2>1, <3>4 DEF Use!Next
  <2> QED
    BY <2>2, <2>3, <2>4
<1>5. ASSUME NEW p \in Proc, End(p) PROVE Use!Next
  <2> DEFINE i == copy[p].id
  <2>1. /\ pc[p] = "live"
        /\ pc' = [pc EXCEPT ![p] = "ended"]
        /\ UNCHANGED <<exp, now, copy, spentBy>>
    BY <1>5 DEF End
  <2>2. i \in Id
    BY <2>1, HolderHasId
  <2>3. pc'[p] = "ended" /\ \A q \in Proc : q # p => pc'[q] = pc[q]
    BY <2>1 DEF IInv, TypeOK
  <2>4. Seen' = Seen \ {<<i, p>>}
    BY <2>1, <2>2, <2>3
  <2>5. Use!Forget(i, p)
    BY <2>1, <2>4 DEF Use!Forget
  <2> QED
    BY <2>2, <2>5 DEF Use!Next
<1>6. CASE UNCHANGED vars
  BY <1>6 DEF vars, Use!vars
<1> QED
  BY <1>1, <1>2, <1>3, <1>4, <1>5, <1>6 DEF Next

\* The tokens table, with its clock and its compare-and-set, keeps the promise
\* of a single-use token for every number of tokens and requests (tokens.go).
THEOREM TableIsSingleUse == Spec => ImplementsSingleUse
<1>1. Init => Use!Init
  BY InitRefines
<1>2. IInv /\ [Next]_vars => [Use!Next]_(Use!vars)
  BY StepRefines
<1> QED
  BY <1>1, <1>2, IInvInvariant, PTL DEF Spec, ImplementsSingleUse, Use!Spec

===============================================================================
