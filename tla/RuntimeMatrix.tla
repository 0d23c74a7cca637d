--------------------------- MODULE RuntimeMatrix ----------------------------
(***************************************************************************)
(* scripts/check-runtime-matrix.mjs and the floor check of                 *)
(* scripts/docker-test.mjs: the version each package manifest claims, the  *)
(* versions .github/runtime-matrix.json tests, the table in SUPPORT.md and *)
(* the images of the harness move by separate edits, and the two gates     *)
(* hold them to each other.  One runtime of each kind the code tells       *)
(* apart: "go" (a floor), "elixir" (pairs with an OTP) and "dotnet" (the   *)
(* whole set must match).                                                  *)
(***************************************************************************)
EXTENDS Integers, Sequences, FiniteSets, FiniteSetsExt

CONSTANTS
  Versions,         \* Versions[k]: the versions of runtime k, tuples of numbers
  Otps,             \* OTP versions
  NaN,              \* what Number() makes of a channel name
  MaxMatrixEdits,   \* bound: edits
  MaxListed,        \* bound: entries of one list of the matrix
  Undeclared

ASSUME MatrixAssumption ==
  /\ DOMAIN Versions = {"go", "elixir", "dotnet"}
  /\ \A S \in {Versions[k] : k \in DOMAIN Versions} \cup {Otps} :
       IsFiniteSet(S) /\ S # {} /\ \A v \in S : v \in Seq(Nat)
  /\ NaN \notin Nat
  /\ MaxMatrixEdits \in Nat /\ MaxListed \in Nat

Keys == DOMAIN Versions

\* "stable", as cmp splits it; and what String(undefined) becomes.
Channel   == <<NaN>>
Undefined == <<NaN>>

VARIABLES
  manifest,      \* floors and target frameworks the packages declare
  matrix,        \* .github/runtime-matrix.json
  support,       \* rows of the generated block of SUPPORT.md, Undeclared without one
  xfloor,        \* x-floor of each harness service
  matrixEdits

matrixVars == <<manifest, matrix, support, xfloor, matrixEdits>>

-----------------------------------------------------------------------------
(* cmp                                                                      *)

Component(v, i) == IF i <= Len(v) THEN v[i] ELSE 0

\* A difference with NaN is NaN, which is not a difference to `if (d)`.
Differ(a, b, i) ==
  /\ Component(a, i) # Component(b, i)
  /\ Component(a, i) # NaN /\ Component(b, i) # NaN

CmpUpTo(a, b, n) ==
  LET D == {i \in 1..n : Differ(a, b, i)}
  IN  IF D = {} THEN 0
      ELSE IF Component(a, Min(D)) < Component(b, Min(D)) THEN -1 ELSE 1

\* Fault: only the components both have are compared.
CmpShared(a, b) == CmpUpTo(a, b, Min({Len(a), Len(b)}))

Cmp(a, b) == CmpUpTo(a, b, Max({Len(a), Len(b)}))

Numeric(S) == {v \in S : v[1] # NaN}

\* sort(cmp)[0]; nothing to take is undefined.
Lowest(S) == IF S = {} THEN Undefined ELSE CHOOSE v \in S : \A w \in S : Cmp(v, w) <= 0

-----------------------------------------------------------------------------
(* check-runtime-matrix.mjs                                                 *)

Elixirs == {p[1] : p \in matrix["elixir"]}
OtpsOf  == {p[2] : p \in matrix["elixir"]}

GoOk ==
  /\ matrix["go"] # {}
  /\ manifest.floor["go"] # Undeclared
  /\ Numeric(matrix["go"]) # {}
  /\ Cmp(Lowest(Numeric(matrix["go"])), manifest.floor["go"]) = 0

ElixirOk ==
  /\ matrix["elixir"] # {}
  /\ manifest.floor["elixir"] # Undeclared
  /\ Cmp(Lowest(Numeric(Elixirs)), manifest.floor["elixir"]) = 0
  /\ manifest.otp # Undeclared => Cmp(Lowest(OtpsOf), manifest.otp) = 0

DotnetOk ==
  /\ matrix["dotnet"] # {}
  /\ manifest.targets # {}
  /\ manifest.targets = matrix["dotnet"]
  /\ manifest.targets \subseteq manifest.testTargets

\* The table holds a row for each runtime the loop reached the end of.
HasRow(k) ==
  /\ matrix[k] # {}
  /\ k = "go"     => manifest.floor["go"] # Undeclared
  /\ k = "dotnet" => manifest.targets # {}

Row(k) ==
  [tested |-> matrix[k],
   floor  |-> CASE k = "go"     -> manifest.floor["go"]
                [] k = "elixir" -> <<manifest.floor["elixir"], manifest.otp>>
                [] OTHER        -> manifest.targets]

Table == [k \in {r \in Keys : HasRow(r)} |-> Row(k)]

MatrixCheck == GoOk /\ ElixirOk /\ DotnetOk /\ support = Table

-----------------------------------------------------------------------------
(* docker-test.mjs                                                          *)

\* A pair counts by its Elixir.
Flattened(k) == IF k = "elixir" THEN Elixirs ELSE matrix[k]

DeclaredFloor(k) ==
  IF Numeric(Flattened(k)) = {} THEN Undeclared ELSE Lowest(Numeric(Flattened(k)))

FloorCheck ==
  \A k \in Keys : DeclaredFloor(k) # Undeclared /\ Cmp(DeclaredFloor(k), xfloor[k]) = 0

-----------------------------------------------------------------------------
(* Edits, each of one file.                                                 *)

MatrixEdit ==
  /\ matrixEdits < MaxMatrixEdits
  /\ matrixEdits' = matrixEdits + 1

SetFloor(k, v) ==
  /\ MatrixEdit
  /\ manifest' = [manifest EXCEPT !.floor[k] = v]
  /\ UNCHANGED <<matrix, support, xfloor>>

SetOtp(v) ==
  /\ MatrixEdit
  /\ manifest' = [manifest EXCEPT !.otp = v]
  /\ UNCHANGED <<matrix, support, xfloor>>

Retarget(targets, testTargets) ==
  /\ MatrixEdit
  /\ manifest' = [manifest EXCEPT !.targets = targets, !.testTargets = testTargets]
  /\ UNCHANGED <<matrix, support, xfloor>>

Relist(k, S) ==
  /\ MatrixEdit
  /\ matrix' = [matrix EXCEPT ![k] = S]
  /\ UNCHANGED <<manifest, support, xfloor>>

Repin(k, v) ==
  /\ MatrixEdit
  /\ xfloor' = [xfloor EXCEPT ![k] = v]
  /\ UNCHANGED <<manifest, matrix, support>>

\* --write replaces a stale block, whatever else is wrong.
WriteSupport ==
  /\ support # Undeclared
  /\ support # Table
  /\ support' = Table
  /\ UNCHANGED <<manifest, matrix, xfloor, matrixEdits>>

DropBlock ==
  /\ MatrixEdit
  /\ support' = Undeclared
  /\ UNCHANGED <<manifest, matrix, xfloor>>

FirstOf(k) == Lowest(Versions[k])

MatrixInit ==
  /\ manifest = [floor |-> [k \in {"go", "elixir"} |-> FirstOf(k)], otp |-> Lowest(Otps),
                 targets |-> {FirstOf("dotnet")}, testTargets |-> {FirstOf("dotnet")}]
  /\ matrix = [k \in Keys |-> CASE k = "go"     -> {FirstOf("go"), Channel}
                                [] k = "elixir" -> {<<FirstOf("elixir"), Lowest(Otps)>>}
                                [] OTHER        -> {FirstOf("dotnet")}]
  /\ support = [k \in Keys |-> Row(k)]
  /\ xfloor = [k \in Keys |-> FirstOf(k)]
  /\ matrixEdits = 0

Listings(k) == IF k = "elixir" THEN (Versions["elixir"] \cup {Channel}) \X Otps
               ELSE IF k = "go" THEN Versions["go"] \cup {Channel} ELSE Versions["dotnet"]

MatrixNext ==
  \/ \E k \in {"go", "elixir"} : \E v \in Versions[k] \cup {Undeclared} : SetFloor(k, v)
  \/ \E v \in Otps \cup {Undeclared} : SetOtp(v)
  \/ \E T, U \in SUBSET Versions["dotnet"] : Retarget(T, U)
  \/ \E k \in Keys : \E S \in SUBSET Listings(k) : Cardinality(S) <= MaxListed /\ Relist(k, S)
  \/ \E k \in Keys : \E v \in Versions[k] : Repin(k, v)
  \/ WriteSupport
  \/ DropBlock

-----------------------------------------------------------------------------
(* Properties                                                               *)

\* Two spellings of one version: the same but for trailing zeros.
SameVersion(a, b) == \A i \in 1..Max({Len(a), Len(b)}) : Component(a, i) = Component(b, i)

\* a is older than b.
Older(a, b) ==
  \E i \in 1..Max({Len(a), Len(b)}) :
    /\ Component(a, i) < Component(b, i)
    /\ \A j \in 1..(i - 1) : Component(a, j) = Component(b, j)

\* "A runtime is supported when CI exercises it": when both gates accept the
\* tree, the floor a manifest claims is a version CI tests, nothing older is
\* tested, the harness image is at that floor, and SUPPORT.md says so; the
\* targeted .NET frameworks are all compiled and tested, and the lowest OTP
\* tested is the one the Elixir package insists on.
SupportEarned ==
  MatrixCheck /\ FloorCheck =>
    /\ \A k \in {"go", "elixir"} :
         /\ \E v \in Numeric(Flattened(k)) : SameVersion(v, manifest.floor[k])
         /\ \A v \in Numeric(Flattened(k)) : ~ Older(v, manifest.floor[k])
         /\ SameVersion(xfloor[k], manifest.floor[k])
    /\ support["go"].floor = manifest.floor["go"]
    /\ \A t \in manifest.targets : t \in matrix["dotnet"] /\ t \in manifest.testTargets
    /\ \E t \in manifest.targets : SameVersion(xfloor["dotnet"], t)
    /\ manifest.otp # Undeclared => \A v \in OtpsOf : ~ Older(v, manifest.otp)
=============================================================================
