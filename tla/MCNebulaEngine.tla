--------------------------- MODULE MCNebulaEngine ---------------------------
(* Small instances of NebulaEngine and its ledger for TLC. *)
EXTENDS EngineLedger, TLC

CONSTANTS k1, k2, old, new

\* One deployed configuration.
OnePepper == [e \in Engines |-> {k1}]
OneActive == [e \in Engines |-> k1]

\* A rolling pepper rotation: the old configuration still mints under k1 and
\* already knows k2, the new one mints under k2 and still knows k1.
RollingPeppers == [e \in Engines |-> {k1, k2}]
RollingActive  == [e \in Engines |-> IF e = old THEN k1 ELSE k2]

\* The rotation finished too early: the new configuration dropped k1.
RetiredPeppers == [e \in Engines |-> IF e = old THEN {k1, k2} ELSE {k2}]

Symmetry == Permutations(Calls) \cup Permutations(Selectors)
              \cup Permutations(Devices) \cup Permutations(Users)
              \cup Permutations(Families)
=============================================================================
