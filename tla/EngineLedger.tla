---------------------------- MODULE EngineLedger ----------------------------
(* The engine implements the ledger: the refinement mapping. *)
EXTENDS NebulaEngine

\* A family may still be opened by its login, or a retry that has consumed the
\* successor is about to replace it.
Credited(f) ==
  \/ charter[f] = None
  \/ \E c \in Calls :
       \/ pc[c] = "issue" /\ arg[c].familyId = f
       \/ Retrying(c) /\ rec[c].familyId = f

Ledger == INSTANCE FamilyLedger WITH
  head   <- [f \in Families |-> Heads(f)],
  credit <- {f \in Families : Credited(f)},
  closed <- dead

\* One token for one token: through races, grace retries, deaths, collection
\* and revocations, every step of the engine changes the exchangeable tokens
\* the way some step of the ledger does.  A grace retry gives exactly one new
\* token for the one it consumed, an exchanged or withdrawn token is never
\* exchangeable again, and a revoked family never has a token again.
LedgerKept == Ledger!LedgerSpec

=============================================================================
