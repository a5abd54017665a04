---------------------------- MODULE MCStateStore ----------------------------
(* Requests r1, r2 (and r3) are about the same identity, r4 about another  *)
(* one on the same device; r3 is a step-up outcome and registers none.     *)
EXTENDS StateStore, TLC

CONSTANTS r1, r2, r3, r4, k1, k2, d1

TwoIdentities == (r1 :> k1) @@ (r2 :> k1) @@ (r3 :> k1) @@ (r4 :> k2)
OneDevice == (r1 :> d1) @@ (r2 :> d1) @@ (r3 :> NoDevice) @@ (r4 :> d1)

KeyOfRequests == [r \in Requests |-> TwoIdentities[r]]
DeviceOfRequests == [r \in Requests |-> OneDevice[r]]

(* FairSpec on Redis, where Commit, the write to memory, is never enabled; *)
(* MCEvidence runs the store in memory.                                    *)
RedisProceed(r) ==
  \/ Begin(r) \/ Acquire(r) \/ AcquireTimeout(r) \/ LockCallLost(r)
  \/ Load(r) \/ DeviceAdd(r) \/ DeviceCount(r) \/ LinkBreaks(r)
  \/ Watch(r) \/ Exec(r) \/ ExecLost(r) \/ ExecReplyLost(r)
  \/ Release(r) \/ ReleaseNotOwned(r)

RedisNext ==
  \/ \E r \in Requests : RedisProceed(r)
  \/ \E k \in Keys : LeaseExpires(k)

RedisSpec ==
  /\ Init /\ [][RedisNext]_vars
  /\ \A r \in Requests : WF_vars(RedisProceed(r))
=============================================================================
