----------------------------- MODULE MCSqlStore -----------------------------
(* Small instances of SqlStore for TLC. *)
EXTENDS SqlStore, TLC

CONSTANTS k1, old

OnePepper == [e \in Engines |-> {k1}]
OneActive == [e \in Engines |-> k1]

Symmetry == Permutations(Calls) \cup Permutations(Selectors)
=============================================================================
