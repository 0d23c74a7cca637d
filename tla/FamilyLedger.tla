---------------------------- MODULE FamilyLedger ----------------------------
(***************************************************************************)
(* What the engine promises about sessions, with no store, no clock and no *)
(* calls in flight: a family has at most one exchangeable token, a token   *)
(* is exchanged for exactly one other, and a closed family is closed.      *)
(***************************************************************************)
CONSTANTS Selectors, Families

VARIABLES
  head,      \* per family: the tokens in callers' hands that can be exchanged
  granted,   \* every token ever handed out
  credit,    \* families that may be granted a token without giving one up
  closed     \* families that were revoked

ledgerVars == <<head, granted, credit, closed>>

LedgerInit ==
  /\ head = [f \in Families |-> {}]
  /\ granted = {}
  /\ credit = Families
  /\ closed = {}

\* A token never handed out before becomes the one exchangeable token.
Grant(f) ==
  \E t \in Selectors \ granted :
    /\ head' = [head EXCEPT ![f] = {t}]
    /\ granted' = granted \cup {t}

\* Login, and the last step of a retry inside the grace window.
Open(f) ==
  /\ f \in credit \ closed
  /\ head[f] = {}
  /\ Grant(f)
  /\ credit' = credit \ {f}
  /\ UNCHANGED closed

Exchange(f) ==
  /\ f \notin closed
  /\ head[f] # {}
  /\ Grant(f)
  /\ UNCHANGED <<credit, closed>>

\* A retry takes the unused successor back; one token is owed for it.
Withdraw(f) ==
  /\ head[f] # {}
  /\ head' = [head EXCEPT ![f] = {}]
  /\ credit' = credit \cup {f}
  /\ UNCHANGED <<granted, closed>>

\* The call that was owed a token died or lost its race.
Forfeit(f) ==
  /\ credit' = credit \ {f}
  /\ UNCHANGED <<head, granted, closed>>

Emptied(F) == [f \in Families |-> IF f \in F THEN {} ELSE head[f]]

\* Rows past the absolute deadline are collected.
Lapse(F) ==
  /\ head' = Emptied(F)
  /\ UNCHANGED <<granted, credit, closed>>

Close(F) ==
  /\ head' = Emptied(F)
  /\ closed' = closed \cup F
  /\ UNCHANGED <<granted, credit>>

LedgerNext ==
  \/ \E f \in Families : Open(f) \/ Exchange(f) \/ Withdraw(f) \/ Forfeit(f)
  \/ \E F \in SUBSET Families : Lapse(F) \/ Close(F)

LedgerSpec == LedgerInit /\ [][LedgerNext]_ledgerVars
=============================================================================
