-------------------------- MODULE MCSweepingStore --------------------------
(* Small instances of SweepingStore for TLC. *)
EXTENDS SweepingStore, TLC

CONSTANTS k1, old

OnePepper == [e \in Engines |-> {k1}]
OneActive == [e \in Engines |-> k1]

Symmetry == Permutations(Calls) \cup Permutations(Selectors)
=============================================================================
