------------------------------- MODULE MCGates -------------------------------
(* The three gates side by side: a behaviour is a behaviour of one of them.  *)
EXTENDS VectorGate, ComposeHarness, RuntimeMatrix

VARIABLE gate
CONSTANTS ts, go, tsCmd, goCmd, goTest, install, tsName, goName

GateCommand  == [p \in Packages |-> IF p = ts THEN tsCmd ELSE goCmd]
GateStepName == [p \in Packages |-> IF p = ts THEN tsName ELSE goName]
\* goTest is the beginning of goCmd, install a word of the name of a step.
GateIncludes == {<<t, t>> : t \in Texts} \cup {<<goTest, goCmd>>, <<install, tsName>>}
GateVersions == [go     |-> {<<1, 9>>, <<1, 25>>, <<1, 25, 0>>, <<1>>},
                 elixir |-> {<<1, 18>>, <<2, 0>>},
                 dotnet |-> {<<10, 0>>, <<12, 0>>}]
GateOtps     == {<<25>>, <<27>>}

GateInit == gate \in {"vectors", "harness", "matrix"} /\ VectorInit /\ HarnessInit /\ MatrixInit

GateNext ==
  /\ UNCHANGED gate
  /\ \/ gate = "vectors" /\ VectorNext  /\ UNCHANGED <<harnessVars, matrixVars>>
     \/ gate = "harness" /\ HarnessNext /\ UNCHANGED <<vectorVars, matrixVars>>
     \/ gate = "matrix"  /\ MatrixNext  /\ UNCHANGED <<vectorVars, harnessVars>>

GateSpec == GateInit /\ [][GateNext]_<<gate, vectorVars, harnessVars, matrixVars>>
==============================================================================
