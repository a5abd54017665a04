---------------------------- MODULE MCStepUpGate ----------------------------
(* Two assertions about i1, one of which the verifier's clock dates a tick *)
(* ahead; one of them, and garbage, submitted for i2 or i1 as well.        *)
(* Requests are interchangeable: no definition names one.                  *)
EXTENDS StepUpGate, TLC

CONSTANTS i1, i2, a1, a2, r1, r2, r3

BoundToOf == (a1 :> i1) @@ (a2 :> i1)
IssuedAtOf == (a1 :> 0) @@ (a2 :> 1)
SubmissionsOf == {<<a1, i1>>, <<a2, i1>>, <<a1, i2>>, <<Garbage, i1>>}
AnyRequest == Permutations(Requests)
=============================================================================
