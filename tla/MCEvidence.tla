----------------------------- MODULE MCEvidence -----------------------------
(* r1 and r2 are about k1 and carry the same behavioural assertion under   *)
(* two attestations of its device; r4 is about k2 on that device, with the *)
(* attestation of r1 and a similarity that is no number; r3 is a step-up   *)
(* outcome of k1.  What r2 carries is issued a tick ahead of the clock.    *)
EXTENDS Evidence, TLC

CONSTANTS r1, r2, r3, r4, k1, k2, d1

KeyOfRequests == [r \in Requests |-> IF r = r4 THEN k2 ELSE k1]
DeviceOfRequests == [r \in Requests |-> IF r = r3 THEN NoDevice ELSE d1]

Attested(issued, nonce) == Attestation(d1, INTEGRITY_PASS, issued, 1, nonce)

Attestations ==
  (r1 :> Attested(0, "n1")) @@ (r2 :> Attested(1, "n2")) @@ (r3 :> NoToken) @@ (r4 :> Attested(0, "n1"))
Assertions ==
  (r1 :> Similarity(d1, k1, 12, 0, 1, "n1")) @@ (r2 :> Similarity(d1, k1, 12, 0, 1, "n1"))
    @@ (r3 :> NoToken) @@ (r4 :> Similarity(d1, k2, NaN, 0, 1, "n2"))

AttestationOfRequests == [r \in Requests |-> Attestations[r]]
AssertionOfRequests == [r \in Requests |-> Assertions[r]]
=============================================================================
