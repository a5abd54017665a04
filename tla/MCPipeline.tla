----------------------------- MODULE MCPipeline -----------------------------
(* Both events are about one identity; the second partition stays empty    *)
(* unless an event loses its way.  A message is delivered at most once for *)
(* each owner of its partition, which bounds the calls.                    *)
EXTENDS Pipeline, TLC

CONSTANTS p1, p2, e1, e2, i1, q1, q2

AllOneIdentity == [e \in Events |-> i1]
AllOnePartition == [i \in Identities |-> q1]
OneEach == (q1 :> p1) @@ (q2 :> p2)

EnoughCalls ==
  1 .. (Cardinality(Events) + MaxErrors) * MaxCopies * (1 + MaxMoves)

(* One payload has a negative zero in it. *)
JsonbOf == [c \in EnoughCalls |-> IF c = 2 THEN -c ELSE c]
=============================================================================
