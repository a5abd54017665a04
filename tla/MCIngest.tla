------------------------------ MODULE MCIngest ------------------------------
(* Every payload is about the one identity; one key comes with both        *)
(* payloads, the other with one of them, and one event comes without.      *)
(* Calls of a kind are interchangeable: no definition names one.                *)
EXTENDS Ingest, TLC

CONSTANTS r1, r2, r3, d1, d2, k1, k2, e1, e2, i1

AboutOf == [e \in Events |-> i1]
SubmissionsOf == {<<k1, e1>>, <<k1, e2>>, <<k2, e1>>, <<NoIdemKey, e1>>}
AnyCall == Permutations(Requests) \cup Permutations(Erasures)
=============================================================================
