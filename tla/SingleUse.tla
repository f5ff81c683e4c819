------------------------------ MODULE SingleUse ------------------------------
(***************************************************************************)
(* What a single-use token promises to its users, whatever stores it.  A   *)
(* token is issued once, may lapse (its expiry instant passes), and is     *)
(* spent by at most one user, who saw it before it lapsed; from then on it *)
(* reads as lapsed.  Spending may come after the lapse: every handler      *)
(* first looks and only later spends, so a token seen in its last instant  *)
(* can be spent just after it.                                             *)
(*                                                                         *)
(* Tokens (the tokens table with its clock) and AuthServer (its auth       *)
(* states, one-time codes and auth codes) implement this specification.    *)
(***************************************************************************)

CONSTANTS
  Token,    \* identifiers of tokens
  User,     \* whoever may try to spend one (a request being served)
  Nobody    \* not a user

VARIABLES
  issued,   \* tokens that exist
  lapsed,   \* tokens that read as expired: their instant has passed, or they are spent
  seen,     \* pairs <<t, u>>: u has read t before it lapsed, and may try to spend it
  spentBy   \* who has spent each token, or Nobody

vars == <<issued, lapsed, seen, spentBy>>

Init ==
  /\ issued = {}
  /\ lapsed = {}
  /\ seen = {}
  /\ spentBy = [t \in Token |-> Nobody]

Issue(t) ==
  /\ t \notin issued
  /\ issued' = issued \cup {t}
  /\ UNCHANGED <<lapsed, seen, spentBy>>

\* The clock passes the expiry instants of the tokens in L at once.
Lapse(L) ==
  /\ UNCHANGED <<issued, seen, spentBy>>
  /\ lapsed' = lapsed \cup L

See(t, u) ==
  /\ t \in issued \ lapsed
  /\ seen' = seen \cup {<<t, u>>}
  /\ UNCHANGED <<issued, lapsed, spentBy>>

\* u gives up on t: it was refused, it has failed, or it has no use for it.
Forget(t, u) ==
  /\ seen' = seen \ {<<t, u>>}
  /\ UNCHANGED <<issued, lapsed, spentBy>>

Spend(t, u) ==
  /\ <<t, u>> \in seen
  /\ spentBy[t] = Nobody
  /\ spentBy' = [spentBy EXCEPT ![t] = u]
  /\ lapsed' = lapsed \cup {t}
  /\ seen' = seen \ {<<t, u>>}
  /\ UNCHANGED issued

Next ==
  \/ \E t \in Token : Issue(t)
  \/ \E L \in SUBSET issued : Lapse(L)
  \/ \E t \in Token, u \in User : See(t, u) \/ Forget(t, u) \/ Spend(t, u)

Spec == Init /\ [][Next]_vars

==============================================================================
