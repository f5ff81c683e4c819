-------------------------------- MODULE Tokens --------------------------------
(***************************************************************************)
(* The tokens table (internal/db/tokens.go) under the statements requests  *)
(* run against it: insert, retrieve, the expiry test on the caller's own   *)
(* copy, and Expire, a compare-and-set on the expiry instant.  Auth        *)
(* states, sign-up one-time codes and auth codes are rows of this one      *)
(* table, told apart by the prefix of their identifiers.                   *)
(*                                                                         *)
(* One action is one SQL statement with the tests on the local copy that   *)
(* follow it; each statement is a transaction of its own.  Time is counted *)
(* in the microseconds of the column: insert cuts the object's instant to  *)
(* them, and the driver cuts every parameter.                              *)
(* AuthServer replaces the clock by "an issued token may lapse at any      *)
(* moment"; this module is where the real comparison is checked.           *)
(***************************************************************************)
EXTENDS Integers

CONSTANTS
  Id,       \* token identifiers; rands() never repeats one
  Proc,     \* requests being served; each works with one token
  Ttl,      \* lifetime given to a token at creation
  MaxTime,  \* bound of the clock, for TLC
  Nobody    \* no request

ASSUME TtlAssumption == Ttl \in Nat
ASSUME MaxTimeAssumption == MaxTime \in Nat
ASSUME NobodyAssumption == Nobody \notin Proc

VARIABLES
  exp,      \* the exp column: an instant, Zero, or Absent when there is no row
  now,      \* the clock of server and database
  pc,       \* how far each request has come
  copy,     \* the request's token object: its identifier and its own exp
  spentBy   \* history: the request whose update set exp to Zero, or Nobody

vars == <<exp, now, pc, copy, spentBy>>

\* time.Time{}: what Expire stores.  The clock is always past it.
Zero == 0

Absent == -1

\* No token object yet; an object that passed the expiry test; Expire returned
\* nil; Expire returned ErrConflict; the request ended (an early return, a lost
\* connection, a crash).
Stage == {"start", "live", "spent", "conflict", "ended"}

NoCopy == [id |-> Nobody, exp |-> Absent]

Copy == [id : Id, exp : Nat] \cup {NoCopy}

Init ==
  /\ exp = [i \in Id |-> Absent]
  /\ now = 1
  /\ pc = [p \in Proc |-> "start"]
  /\ copy = [p \in Proc |-> NoCopy]
  /\ spentBy = [i \in Id |-> Nobody]

Tick ==
  /\ now < MaxTime
  /\ now' = now + 1
  /\ UNCHANGED <<exp, pc, copy, spentBy>>

Insert(i) ==
  /\ exp[i] = Absent
  /\ exp' = [exp EXCEPT ![i] = now + Ttl]
  /\ UNCHANGED <<now, pc, copy, spentBy>>

-------------------------------------------------------------------------------
\* Mutated form of Expired: only a token that was spent counts as expired.
ExpiredOnlyIfZero(e) == e = Zero

\* A token is still good at the very instant it expires.
Expired(e) == e < now

\* Mutated form of Retrieve: the object keeps the instant in a coarser unit.
RetrieveRounded(p, i) ==
  /\ pc[p] = "start"
  /\ exp[i] # Absent
  /\ copy' = [copy EXCEPT ![p] = [id |-> i, exp |-> exp[i] - (exp[i] % 2)]]
  /\ pc' = [pc EXCEPT ![p] = IF Expired(exp[i]) THEN "ended" ELSE "live"]
  /\ UNCHANGED <<exp, now, spentBy>>

\* The row is read into a local object, whose Expired every caller tests at
\* once.  Reading and testing are one step: the clock only advances, so a test
\* passed later would have been passed at the read, and one failed later is
\* the request ending there.
Retrieve(p, i) ==
  /\ pc[p] = "start"
  /\ exp[i] # Absent
  /\ copy' = [copy EXCEPT ![p] = [id |-> i, exp |-> exp[i]]]
  /\ pc' = [pc EXCEPT ![p] = IF Expired(exp[i]) THEN "ended" ELSE "live"]
  /\ UNCHANGED <<exp, now, spentBy>>

\* Mutated form of Expire: update ... where id = $1, without the comparison.
ExpireUnconditionally(p) ==
  LET i == copy[p].id IN
  /\ pc[p] \in {"live", "spent"}
  /\ exp' = [exp EXCEPT ![i] = Zero]
  /\ copy' = [copy EXCEPT ![p].exp = Zero]
  /\ pc' = [pc EXCEPT ![p] = "spent"]
  /\ spentBy' = [spentBy EXCEPT ![i] = p]
  /\ UNCHANGED now

\* Mutated form of Expire: a refused object is marked as expired all the same,
\* so a second attempt returns nil without a statement.
ExpireMarksLoser(p) ==
  LET i == copy[p].id IN
  /\ pc[p] \in {"live", "spent", "conflict"}
  /\ copy' = [copy EXCEPT ![p].exp = Zero]
  /\ \/ /\ copy[p].exp = Zero
        /\ pc' = [pc EXCEPT ![p] = "spent"]
        /\ UNCHANGED <<exp, spentBy>>
     \/ /\ copy[p].exp # Zero
        /\ exp[i] = copy[p].exp
        /\ exp' = [exp EXCEPT ![i] = Zero]
        /\ pc' = [pc EXCEPT ![p] = "spent"]
        /\ spentBy' = [spentBy EXCEPT ![i] = p]
     \/ /\ copy[p].exp # Zero
        /\ exp[i] # copy[p].exp
        /\ pc' = [pc EXCEPT ![p] = "conflict"]
        /\ UNCHANGED <<exp, spentBy>>
  /\ UNCHANGED now

\* The compare-and-set: update ... set exp = Zero where id = $1 and exp = $2,
\* which must have touched one row.  The object's own exp changes only when it
\* did; an object that is already Zero returns nil without a statement, so a
\* second Expire by the winner is harmless and one by a loser loses again.
Expire(p) ==
  LET i == copy[p].id IN
  /\ pc[p] \in {"live", "spent", "conflict"}
  /\ \/ /\ copy[p].exp = Zero
        /\ pc' = [pc EXCEPT ![p] = "spent"]
        /\ UNCHANGED <<exp, copy, spentBy>>
     \/ /\ copy[p].exp # Zero
        /\ exp[i] = copy[p].exp
        /\ exp' = [exp EXCEPT ![i] = Zero]
        /\ copy' = [copy EXCEPT ![p].exp = Zero]
        /\ pc' = [pc EXCEPT ![p] = "spent"]
        /\ spentBy' = [spentBy EXCEPT ![i] = p]
     \/ /\ copy[p].exp # Zero
        /\ exp[i] # copy[p].exp
        /\ pc' = [pc EXCEPT ![p] = "conflict"]
        /\ UNCHANGED <<exp, copy, spentBy>>
  /\ UNCHANGED now

\* The request ends where it stands: an error, a closed connection, a crash.
End(p) ==
  /\ pc[p] = "live"
  /\ pc' = [pc EXCEPT ![p] = "ended"]
  /\ UNCHANGED <<exp, now, copy, spentBy>>

Next ==
  \/ Tick
  \/ \E i \in Id : Insert(i)
  \/ \E p \in Proc, i \in Id : Retrieve(p, i)
  \/ \E p \in Proc : Expire(p) \/ End(p)

Spec == Init /\ [][Next]_vars

-------------------------------------------------------------------------------
TypeOK ==
  /\ exp \in [Id -> Nat \cup {Absent}]
  /\ now \in Nat \ {0}
  /\ pc \in [Proc -> Stage]
  /\ copy \in [Proc -> Copy]
  /\ spentBy \in [Id -> Proc \cup {Nobody}]

\* Of all requests that hold the same token, at most one gets nil from Expire
\* (tokens.go: RowsAffected must be 1), so what follows a successful Expire
\* happens once per token.
AtMostOneWinner ==
  \A p, q \in Proc :
    /\ pc[p] = "spent"
    /\ pc[q] = "spent"
    /\ copy[p].id = copy[q].id
    => p = q

\* ErrConflict is never spurious: whoever is refused was beaten by a request
\* that did spend the token.  A compare-and-set on a value the loser rounded
\* differently from the column would refuse everybody.
ConflictHasWinner ==
  \A p \in Proc :
    pc[p] = "conflict" => /\ exp[copy[p].id] = Zero
                          /\ spentBy[copy[p].id] \in Proc \ {p}

\* What a request may conclude from its own copy, though other requests write
\* the row: while it holds a live token the row is as it read it or spent by
\* somebody else; once refused, spent by somebody else; once Expire returned
\* nil, spent by this request.  A row reads Zero exactly when it was spent.
Custody ==
  /\ \A i \in Id : exp[i] = Zero <=> spentBy[i] \in Proc
  /\ \A p \in Proc :
       LET i == copy[p].id IN
       /\ pc[p] \in {"live", "conflict"} =>
            /\ copy[p] \in [id : Id, exp : Nat \ {Zero}]
            /\ exp[i] \in {copy[p].exp, Zero}
            /\ spentBy[i] # p
       /\ pc[p] = "conflict" => exp[i] = Zero
       /\ pc[p] = "spent" => copy[p] \in [id : Id, exp : {Zero}] /\ spentBy[i] = p

\* The abstract view: a token is issued when it has a row, lapsed when the
\* instant in its row has passed (the zero time of a spent token always has),
\* seen by the requests that passed the expiry test and have yet to spend it.
Issued == {i \in Id : exp[i] # Absent}

Lapsed == {i \in Issued : exp[i] < now}

Seen == {x \in Id \X Proc : pc[x[2]] = "live" /\ copy[x[2]].id = x[1]}

Use == INSTANCE SingleUse WITH
         Token <- Id, User <- Proc, issued <- Issued, lapsed <- Lapsed, seen <- Seen

\* The table with its clock keeps the promise of SingleUse.
ImplementsSingleUse == Use!Spec
===============================================================================
