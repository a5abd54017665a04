-------------------------- MODULE StateStore_proofs --------------------------
(***************************************************************************)
(* Proofs about the state store, for any number of requests, identities,   *)
(* devices and retries, and for both stores; and then about what an        *)
(* assessment on it believes of its client: the single-use nonces, the     *)
(* similarities and the discount of a first contact, for any number of     *)
(* threads, tokens and ticks.                                              *)
(***************************************************************************)
EXTENDS Evidence, FiniteSetTheorems, TLAPS

LEMMA KeyIsKey == \A r \in Requests : KeyOf[r] \in Keys
BY KeyOfAssumption

LEMMA DeviceIsDevice ==
  \A r \in Requests : DeviceOf[r] # NoDevice => DeviceOf[r] \in Devices
BY DeviceOfAssumption

-----------------------------------------------------------------------------
(* Type correctness.  It needs what the loop knows when it starts over: a  *)
(* try is left, and that only an assessment gets to device_add.             *)
TryLeft == \A r \in Requests : pc[r] \in {"idle", "lock"} => tries[r] < Retries

AddsADevice == \A r \in Requests : pc[r] \in {"add", "count"} => DeviceOf[r] # NoDevice

(* What device_count returns is a number: sets only grow one by one.       *)
FiniteMembers == \A d \in Devices : IsFiniteSet(members[d])

TypeInv == TypeOK /\ TryLeft /\ AddsADevice /\ FiniteMembers

LEMMA UpdatedIsRecord ==
  ASSUME TypeOK, NEW r \in Requests
  PROVE  Updated(r) \in Record
BY DEF TypeOK, Record, Updated

LEMMA InitTyped == Init => TypeInv
BY KeyIsKey, RetriesAssumption, FS_EmptySet
DEF Init, TypeInv, TypeOK, TryLeft, AddsADevice, FiniteMembers, Record, NoRecord, Steps, Outcomes

LEMMA StepTyped == TypeInv /\ [Next]_vars => TypeInv'
<1> SUFFICES ASSUME TypeInv, [Next]_vars PROVE TypeInv'
  OBVIOUS
<1> USE KeyIsKey DEF TypeInv, Goto
<1>1. ASSUME NEW r \in Requests, Begin(r) PROVE TypeInv'
  BY <1>1 DEF Begin, TypeOK, TryLeft, AddsADevice, FiniteMembers, local, Steps
<1>2. ASSUME NEW r \in Requests, Acquire(r) PROVE TypeInv'
  BY <1>2, RetriesAssumption
  DEF Acquire, TypeOK, TryLeft, AddsADevice, FiniteMembers, Steps, Holding
<1>3. ASSUME NEW r \in Requests, AcquireTimeout(r) PROVE TypeInv'
  BY <1>3 DEF AcquireTimeout, TypeOK, TryLeft, AddsADevice, FiniteMembers, local, Steps
<1>4. ASSUME NEW k \in Keys, LeaseExpires(k) PROVE TypeInv'
  BY <1>4 DEF LeaseExpires, TypeOK, TryLeft, AddsADevice, FiniteMembers, local
<1>5. ASSUME NEW r \in Requests, Load(r) PROVE TypeInv'
  BY <1>5 DEF Load, TypeOK, TryLeft, AddsADevice, FiniteMembers, Steps, Holding
<1>6. ASSUME NEW r \in Requests, DeviceAdd(r) PROVE TypeInv'
  <2>1. DeviceOf[r] \in Devices /\ KeyOf[r] \in Keys
    BY <1>6, DeviceIsDevice DEF DeviceAdd, AddsADevice
  <2>2. /\ members' \in [Devices -> SUBSET Keys]
        /\ members'[DeviceOf[r]] = members[DeviceOf[r]] \cup {KeyOf[r]}
        /\ \A d \in Devices : members'[d] = members[d] \/ d = DeviceOf[r]
    BY <1>6, <2>1 DEF DeviceAdd, TypeOK
  <2>3. FiniteMembers'
    <3>1. IsFiniteSet(members[DeviceOf[r]] \cup {KeyOf[r]})
      BY <2>1, FS_AddElement DEF FiniteMembers
    <3> QED
      BY <2>2, <3>1 DEF FiniteMembers
  <2>4. Cardinality(members'[DeviceOf[r]]) \in Nat
    BY <2>1, <2>3, FS_CardinalityType DEF FiniteMembers
  <2>5. count' \in [Requests -> Nat]
    BY <1>6, <2>4 DEF DeviceAdd, TypeOK
  <2> QED
    BY <1>6, <2>2, <2>3, <2>5 DEF DeviceAdd, TypeOK, TryLeft, AddsADevice, Steps, Holding
<1>7. ASSUME NEW r \in Requests, DeviceCount(r) PROVE TypeInv'
  <2>1. DeviceOf[r] \in Devices
    BY <1>7, DeviceIsDevice DEF DeviceCount, AddsADevice
  <2>2. Cardinality(members[DeviceOf[r]]) \in Nat
    BY <2>1, FS_CardinalityType DEF FiniteMembers
  <2> QED
    BY <1>7, <2>2
    DEF DeviceCount, TypeOK, TryLeft, AddsADevice, FiniteMembers, Steps, Holding
<1>8. ASSUME NEW r \in Requests, LinkBreaks(r) PROVE TypeInv'
  BY <1>8 DEF LinkBreaks, LinkFails, TypeOK, TryLeft, AddsADevice, FiniteMembers, Steps, Holding, Outcomes
<1>9. ASSUME NEW r \in Requests, Commit(r) PROVE TypeInv'
  BY <1>9, UpdatedIsRecord
  DEF Commit, Conclude, TypeOK, TryLeft, AddsADevice, FiniteMembers, Steps, Holding, Outcomes
<1>10. ASSUME NEW r \in Requests, Watch(r) PROVE TypeInv'
  BY <1>10 DEF Watch, Conclude, LinkFails, TypeOK, TryLeft, AddsADevice, FiniteMembers, Steps, Holding, Outcomes
<1>11. ASSUME NEW r \in Requests, Exec(r) PROVE TypeInv'
  BY <1>11, UpdatedIsRecord
  DEF Exec, Conclude, TypeOK, TryLeft, AddsADevice, FiniteMembers, Steps, Holding, Outcomes
<1>12. ASSUME NEW r \in Requests, ExecLost(r) PROVE TypeInv'
  BY <1>12 DEF ExecLost, Conclude, LinkFails, TypeOK, TryLeft, AddsADevice, FiniteMembers, Steps, Holding, Outcomes
<1>13. ASSUME NEW r \in Requests, ExecReplyLost(r) PROVE TypeInv'
  BY <1>13, UpdatedIsRecord
  DEF ExecReplyLost, Conclude, LinkFails, TypeOK, TryLeft, AddsADevice, FiniteMembers, Steps, Holding, Outcomes
<1>14. ASSUME NEW r \in Requests, Release(r) PROVE TypeInv'
  BY <1>14, RetriesAssumption
  DEF Release, AfterRelease, TypeOK, TryLeft, AddsADevice, FiniteMembers, local, Steps, Holding
<1>15. ASSUME NEW r \in Requests, ReleaseNotOwned(r) PROVE TypeInv'
  BY <1>15 DEF ReleaseNotOwned, TypeOK, TryLeft, AddsADevice, FiniteMembers, local, Steps
<1>16. ASSUME NEW r \in Requests, LockCallLost(r) PROVE TypeInv'
  BY <1>16 DEF LockCallLost, LinkFails, TypeOK, TryLeft, AddsADevice, FiniteMembers, Steps
<1>17. CASE UNCHANGED vars
  BY <1>17 DEF vars, TypeOK, TryLeft, AddsADevice, FiniteMembers
<1> QED
  BY <1>1, <1>2, <1>3, <1>4, <1>5, <1>6, <1>7, <1>8, <1>9, <1>10, <1>11,
     <1>12, <1>13, <1>14, <1>15, <1>16, <1>17 DEF Next, Proceed

(* TypeOK in every state; in particular no request enters the critical     *)
(* section more often than Retries times.                                  *)
THEOREM TypeCorrect == Spec => []TypeOK
<1>1. TypeInv => TypeOK
  BY DEF TypeInv
<1> QED
  BY <1>1, InitTyped, StepTyped, PTL DEF Spec

-----------------------------------------------------------------------------
(* NoLostUpdate.  A commit writes the loaded record plus its own update,   *)
(* and the store only accepts it on the version that was loaded, so it is  *)
(* enough that an equal version means an equal record: no other request    *)
(* can have brought the store back to a version it already had.            *)
SnapshotsBehind ==
  \A r \in Requests :
    /\ snap[r].version <= store[KeyOf[r]].version
    /\ snap[r].version = store[KeyOf[r]].version => snap[r] = store[KeyOf[r]]

(* What commit does to the store, in either implementation. *)
Writes(r) ==
  /\ Unchanged(r)
  /\ store' = [store EXCEPT ![KeyOf[r]] = Updated(r)]
  /\ UNCHANGED snap

Loads(r) ==
  /\ store' = store
  /\ snap' = [snap EXCEPT ![r] = store[KeyOf[r]]]

LEMMA StoreSteps ==
  ASSUME [Next]_vars
  PROVE  \/ UNCHANGED <<store, snap>>
         \/ \E r \in Requests : Writes(r) \/ Loads(r)
BY DEF Next, Proceed, Begin, Acquire, AcquireTimeout, LockCallLost, LeaseExpires, Load, DeviceAdd,
       DeviceCount, LinkBreaks, Commit, Watch, Exec, ExecLost, ExecReplyLost,
       Release, ReleaseNotOwned, Writes, Loads, vars, local

LEMMA WriteAppends ==
  ASSUME TypeOK, SnapshotsBehind, NEW r \in Requests, Writes(r)
  PROVE  /\ store'[KeyOf[r]].version = store[KeyOf[r]].version + 1
         /\ store'[KeyOf[r]].log = Append(store[KeyOf[r]].log, r)
         /\ \A k \in Keys \ {KeyOf[r]} : store'[k] = store[k]
BY KeyIsKey DEF Writes, Unchanged, Updated, SnapshotsBehind, TypeOK

LEMMA SnapshotsStayBehind ==
  TypeOK /\ SnapshotsBehind /\ [Next]_vars => SnapshotsBehind'
<1> SUFFICES ASSUME TypeOK, SnapshotsBehind, [Next]_vars PROVE SnapshotsBehind'
  OBVIOUS
<1>1. \A q \in Requests : snap[q].version \in Nat /\ store[KeyOf[q]].version \in Nat
  BY KeyIsKey DEF TypeOK, Record
<1>2. ASSUME NEW r \in Requests, Writes(r) PROVE SnapshotsBehind'
  <2> SUFFICES ASSUME NEW q \in Requests
               PROVE  /\ snap'[q].version <= store'[KeyOf[q]].version
                      /\ snap'[q].version = store'[KeyOf[q]].version
                           => snap'[q] = store'[KeyOf[q]]
    BY DEF SnapshotsBehind
  <2>1. snap'[q] = snap[q]
    BY <1>2 DEF Writes
  <2>2. CASE KeyOf[q] = KeyOf[r]
    <3>1. store'[KeyOf[q]].version = store[KeyOf[q]].version + 1
      BY <1>2, <2>2, WriteAppends
    <3> QED
      BY <1>1, <2>1, <3>1 DEF SnapshotsBehind
  <2>3. CASE KeyOf[q] # KeyOf[r]
    <3>1. store'[KeyOf[q]] = store[KeyOf[q]]
      BY <1>2, <2>3, WriteAppends, KeyIsKey
    <3> QED
      BY <2>1, <3>1 DEF SnapshotsBehind
  <2> QED
    BY <2>2, <2>3
<1>3. ASSUME NEW r \in Requests, Loads(r) PROVE SnapshotsBehind'
  <2> SUFFICES ASSUME NEW q \in Requests
               PROVE  /\ snap'[q].version <= store'[KeyOf[q]].version
                      /\ snap'[q].version = store'[KeyOf[q]].version
                           => snap'[q] = store'[KeyOf[q]]
    BY DEF SnapshotsBehind
  <2>1. store' = store /\ snap'[q] = IF q = r THEN store[KeyOf[r]] ELSE snap[q]
    BY <1>3 DEF Loads, TypeOK
  <2> QED
    BY <1>1, <2>1 DEF SnapshotsBehind
<1>4. CASE UNCHANGED <<store, snap>>
  BY <1>4 DEF SnapshotsBehind
<1> QED
  BY <1>2, <1>3, <1>4, StoreSteps

(* However leases end and replies get lost, a write appends exactly one    *)
(* update to the record as it is at that instant.                          *)
THEOREM UpdatesAreNeverLost == Spec => NoLostUpdate
<1>1. Init => SnapshotsBehind
  BY KeyIsKey DEF Init, SnapshotsBehind, NoRecord
<1>2. TypeOK /\ SnapshotsBehind /\ [Next]_vars
      => [\A k \in Keys :
            \/ store'[k] = store[k]
            \/ \E r \in Requests :
                 /\ KeyOf[r] = k
                 /\ store'[k].log = Append(store[k].log, r)
                 /\ store'[k].version = store[k].version + 1]_vars
  <2> SUFFICES ASSUME TypeOK, SnapshotsBehind, [Next]_vars, NEW k \in Keys
               PROVE  \/ store'[k] = store[k]
                      \/ \E r \in Requests :
                           /\ KeyOf[r] = k
                           /\ store'[k].log = Append(store[k].log, r)
                           /\ store'[k].version = store[k].version + 1
    OBVIOUS
  <2>1. ASSUME NEW r \in Requests, Writes(r), KeyOf[r] = k
        PROVE  /\ store'[k].log = Append(store[k].log, r)
               /\ store'[k].version = store[k].version + 1
    BY <2>1, WriteAppends
  <2>2. ASSUME NEW r \in Requests, Writes(r), KeyOf[r] # k PROVE store'[k] = store[k]
    BY <2>2, WriteAppends
  <2> QED
    BY <2>1, <2>2, StoreSteps DEF Loads
<1> QED
  BY <1>1, <1>2, TypeCorrect, SnapshotsStayBehind, PTL DEF Spec, NoLostUpdate

-----------------------------------------------------------------------------
(* The in-memory store.  Whoever is in the critical section holds the      *)
(* lock, so what it loaded stays current until it commits, every commit    *)
(* succeeds, and a request takes effect in its only pass of the loop.      *)
HolderInside == \A r \in Requests : pc[r] \in Holding => holder[KeyOf[r]] = r

SnapshotsCurrent ==
  \A r \in Requests : pc[r] \in {"add", "commit"} => snap[r] = store[KeyOf[r]]

Occurs(s, x) == \E i \in 1 .. Len(s) : s[i] = x

InLog(r) == Occurs(store[KeyOf[r]].log, r)

Effect ==
  \A r \in Requests :
    /\ outcome[r] \in {"none", "ok"}
    /\ (outcome[r] = "ok") <=> InLog(r)
    /\ pc[r] \in {"idle", "lock", "load", "add", "commit"} => outcome[r] = "none"
    /\ pc[r] \in {"release", "done"} => outcome[r] = "ok"
    /\ pc[r] \notin {"count", "exec", "failed"}

MemoryInv == HolderInside /\ SnapshotsCurrent /\ Effect

LEMMA AppendHas ==
  ASSUME NEW S, NEW s \in Seq(S), NEW e \in S, NEW x
  PROVE  Occurs(Append(s, e), x) <=> (x = e \/ Occurs(s, x))
<1>1. Len(Append(s, e)) = Len(s) + 1 /\ Len(s) \in Nat
  OBVIOUS
<1>2. \A i \in 1 .. Len(s) + 1 : Append(s, e)[i] = IF i = Len(s) + 1 THEN e ELSE s[i]
  OBVIOUS
<1> QED
  BY <1>1, <1>2 DEF Occurs

LEMMA InitMemory == Init => MemoryInv
BY KeyIsKey DEF Init, MemoryInv, HolderInside, SnapshotsCurrent, Effect, InLog, Occurs, NoRecord, Holding

LEMMA StepMemory == ~Shared /\ TypeInv /\ MemoryInv /\ [Next]_vars => MemoryInv'
<1> SUFFICES ASSUME ~Shared, TypeInv, MemoryInv, [Next]_vars PROVE MemoryInv'
  OBVIOUS
<1> USE KeyIsKey DEF TypeInv, TypeOK, MemoryInv, Goto
<1>1. ASSUME NEW r \in Requests, Begin(r) PROVE MemoryInv'
  BY <1>1 DEF Begin, HolderInside, SnapshotsCurrent, Effect, InLog, local, Holding
<1>2. ASSUME NEW r \in Requests, Acquire(r) PROVE MemoryInv'
  BY <1>2, NobodyAssumption DEF Acquire, HolderInside, SnapshotsCurrent, Effect, InLog, Holding
<1>3. ASSUME NEW r \in Requests, Load(r) PROVE MemoryInv'
  BY <1>3 DEF Load, HolderInside, SnapshotsCurrent, Effect, InLog, Holding
<1>4. ASSUME NEW r \in Requests, DeviceAdd(r) PROVE MemoryInv'
  BY <1>4 DEF DeviceAdd, HolderInside, SnapshotsCurrent, Effect, InLog, Holding
<1>5. ASSUME NEW r \in Requests, Commit(r) PROVE MemoryInv'
  <2>1. Unchanged(r) /\ holder[KeyOf[r]] = r
    BY <1>5 DEF Commit, Unchanged, SnapshotsCurrent, HolderInside, Holding
  <2>2. HolderInside'
    BY <1>5 DEF Commit, HolderInside, Holding
  <2>3. SnapshotsCurrent'
    BY <1>5, <2>1, <2>2 DEF Commit, HolderInside, SnapshotsCurrent, Holding
  <2>4. ASSUME NEW q \in Requests PROVE InLog(q)' <=> (q = r \/ InLog(q))
    <3>1. CASE KeyOf[q] = KeyOf[r]
      <4>1. snap[r] = store[KeyOf[r]] /\ store'[KeyOf[r]] = Updated(r)
        BY <1>5, <2>1 DEF Commit, SnapshotsCurrent
      <4>2. store'[KeyOf[q]].log = Append(store[KeyOf[q]].log, r)
        BY <3>1, <4>1 DEF Updated
      <4>3. store[KeyOf[q]] \in Record
        OBVIOUS
      <4>4. store[KeyOf[q]].log \in Seq(Requests)
        BY <4>3 DEF Record
      <4>5. Occurs(Append(store[KeyOf[q]].log, r), q)
              <=> (q = r \/ Occurs(store[KeyOf[q]].log, q))
        BY <4>4, AppendHas
      <4> QED
        BY <4>2, <4>5 DEF InLog
    <3>2. CASE KeyOf[q] # KeyOf[r]
      BY <1>5, <2>1, <3>2 DEF Commit, InLog
    <3> QED
      BY <3>1, <3>2
  <2>5. Effect'
    BY <1>5, <2>1, <2>4 DEF Commit, Conclude, Effect
  <2> QED
    BY <2>2, <2>3, <2>5
<1>6. ASSUME NEW r \in Requests, Release(r) PROVE MemoryInv'
  BY <1>6 DEF Release, AfterRelease, HolderInside, SnapshotsCurrent, Effect, InLog, local, Holding
<1>7. ASSUME NEW r \in Requests,
             \/ DeviceCount(r) \/ Exec(r) \/ ExecLost(r) \/ ExecReplyLost(r)
             \/ ReleaseNotOwned(r)
      PROVE  FALSE
  BY <1>7 DEF DeviceCount, Exec, ExecLost, ExecReplyLost, ReleaseNotOwned, Owns,
              Effect, HolderInside, Holding
<1>8. CASE UNCHANGED vars
  BY <1>8 DEF vars, HolderInside, SnapshotsCurrent, Effect, InLog, Holding
<1> QED
  BY <1>1, <1>2, <1>3, <1>4, <1>5, <1>6, <1>7, <1>8
  DEF Next, Proceed, AcquireTimeout, LockCallLost, LeaseExpires, LinkBreaks, Watch

LEMMA MemoryInvariant == ASSUME ~Shared PROVE Spec => [](TypeInv /\ MemoryInv)
BY InitTyped, StepTyped, InitMemory, StepMemory, PTL DEF Spec

(* OneAtATime: an identity's lock admits one request (InMemoryStateStore). *)
THEOREM MutualExclusion == Spec => []OneAtATime
<1>1. CASE Shared
  <2>1. OneAtATime
    BY <1>1 DEF OneAtATime
  <2> QED
    BY <2>1, PTL
<1>2. CASE ~Shared
  <2>1. MemoryInv => OneAtATime
    BY DEF MemoryInv, OneAtATime, HolderInside
  <2> QED
    BY <1>2, <2>1, MemoryInvariant, PTL
<1> QED
  BY <1>1, <1>2

(* The in-memory store implements AtomicUpdates (its safety part): every   *)
(* update takes effect at one instant, once, before its request returns.   *)
THEOREM MemoryImplementsAtomicUpdates == ASSUME ~Shared PROVE Spec => Abs!AbsSafety
<1>1. Init => Abs!AbsInit
  BY KeyIsKey DEF Init, Abs!AbsInit, NoRecord
<1>2. TypeInv /\ MemoryInv /\ [Next]_vars => [Abs!AbsNext]_(Abs!absVars)
  <2> SUFFICES ASSUME TypeInv, MemoryInv, [Next]_vars
               PROVE  [Abs!AbsNext]_(Abs!absVars)
    OBVIOUS
  <2> USE KeyIsKey DEF TypeInv, TypeOK, MemoryInv, Goto
  <2>1. ASSUME NEW r \in Requests, Commit(r) PROVE Abs!TakeEffect(r)
    <3>1. pc[r] = "commit" /\ pc' = [pc EXCEPT ![r] = "release"] /\ ~InLog(r)
      BY <2>1 DEF Commit, Effect
    <3>2. store' = [store EXCEPT ![KeyOf[r]] = Updated(r)] /\ snap[r] = store[KeyOf[r]]
      BY <2>1 DEF Commit, Unchanged, SnapshotsCurrent
    <3>3. ~Abs!TookEffect(r)
      BY <3>1 DEF Abs!TookEffect, InLog, Occurs
    <3>4. [k \in Keys |-> store'[k].log]
            = [[k \in Keys |-> store[k].log] EXCEPT ![KeyOf[r]] = Append(@, r)]
      BY <3>2 DEF Updated
    <3>5. {q \in Requests : pc'[q] = "done"} = {q \in Requests : pc[q] = "done"}
      BY <3>1
    <3> QED
      BY <3>1, <3>3, <3>4, <3>5 DEF Abs!TakeEffect
  <2>2. ASSUME NEW r \in Requests, Release(r) PROVE Abs!Return(r)
    <3>1. /\ pc[r] = "release" /\ outcome[r] = "ok" /\ InLog(r)
          /\ pc' = [pc EXCEPT ![r] = "done"] /\ store' = store
      BY <2>2 DEF Release, AfterRelease, Effect
    <3>2. Abs!TookEffect(r)
      BY <3>1 DEF Abs!TookEffect, InLog, Occurs
    <3>3. {q \in Requests : pc'[q] = "done"} = {q \in Requests : pc[q] = "done"} \cup {r}
      BY <3>1
    <3> QED
      BY <3>1, <3>2, <3>3 DEF Abs!Return
  <2>3. ASSUME NEW r \in Requests, Begin(r) \/ Acquire(r) \/ Load(r) \/ DeviceAdd(r)
        PROVE  UNCHANGED Abs!absVars
    <3>1. store' = store /\ \A q \in Requests : pc'[q] = "done" <=> pc[q] = "done"
      BY <2>3 DEF Begin, Acquire, Load, DeviceAdd
    <3> QED
      BY <3>1 DEF Abs!absVars
  <2>4. ASSUME NEW r \in Requests,
               \/ DeviceCount(r) \/ Exec(r) \/ ExecLost(r) \/ ExecReplyLost(r)
               \/ ReleaseNotOwned(r)
        PROVE  FALSE
    BY <2>4 DEF DeviceCount, Exec, ExecLost, ExecReplyLost, ReleaseNotOwned, Owns,
                Effect, HolderInside, Holding
  <2>5. CASE UNCHANGED vars
    BY <2>5 DEF vars, Abs!absVars
  <2> QED
    BY <2>1, <2>2, <2>3, <2>4, <2>5
    DEF Next, Proceed, AcquireTimeout, LockCallLost, LeaseExpires, LinkBreaks, Watch, Abs!AbsNext
<1> QED
  BY <1>1, <1>2, MemoryInvariant, PTL DEF Spec, Abs!AbsSafety

-----------------------------------------------------------------------------
(* EveryWriteAccountedFor.  A request at work in the loop has no confirmed *)
(* write, since a confirmed one ends the loop; so each write is the first  *)
(* that is confirmed, or one more whose reply was lost.                    *)
Working == {"idle", "lock", "load", "add", "count", "commit", "exec"}

UnconfirmedAtWork == \A r \in Requests : pc[r] \in Working => outcome[r] # "ok"

(* The steps, as far as writes and their confirmation are concerned. *)
Confirms(r) ==
  /\ Writes(r) /\ outcome' = [outcome EXCEPT ![r] = "ok"]
  /\ UNCHANGED <<echoes, lost>>

WritesUnheard(r) ==
  /\ Writes(r) /\ outcome' = [outcome EXCEPT ![r] = "broken"]
  /\ echoes' = [echoes EXCEPT ![r] = @ + 1] /\ lost' = lost \cup {r}

Conflicts(r) ==
  /\ pc[r] \in {"commit", "exec"} /\ ~Unchanged(r)
  /\ outcome' = [outcome EXCEPT ![r] = "conflict"]
  /\ UNCHANGED <<store, snap, echoes, lost>>

Breaks(r) ==
  /\ outcome' = [outcome EXCEPT ![r] = "broken"] \/ outcome' = [outcome EXCEPT ![r] = "error"]
  /\ lost' = lost \cup {r}
  /\ UNCHANGED <<store, snap, echoes>>

Concludes(r) ==
  /\ Goto(r, "commit", "release") \/ Goto(r, "exec", "release")
     \/ \E from \in {"load", "add", "count"} : Goto(r, from, "release")
  /\ Confirms(r) \/ WritesUnheard(r) \/ Conflicts(r) \/ Breaks(r)
  /\ UNCHANGED <<members, tries, count>>

Watched(r) == Goto(r, "commit", "exec") /\ UNCHANGED <<store, members, local>>

LEMMA CommitSteps ==
  ASSUME NEW r \in Requests,
         \/ Commit(r) \/ Watch(r) \/ LinkBreaks(r)
         \/ Exec(r) \/ ExecLost(r) \/ ExecReplyLost(r)
  PROVE  Concludes(r) \/ Watched(r)
<1> USE DEF Concludes, Conclude, Writes, Confirms, WritesUnheard, Conflicts, Breaks, LinkFails, Goto
<1>1. CASE Commit(r)
  BY <1>1 DEF Commit
<1>2. CASE Watch(r)
  BY <1>2 DEF Watch, Watched, local
<1>3. CASE LinkBreaks(r)
  BY <1>3 DEF LinkBreaks
<1>4. CASE Exec(r)
  BY <1>4 DEF Exec
<1>5. CASE ExecLost(r)
  BY <1>5 DEF ExecLost
<1>6. CASE ExecReplyLost(r)
  BY <1>6 DEF ExecReplyLost
<1> QED
  BY <1>1, <1>2, <1>3, <1>4, <1>5, <1>6

LEMMA OutcomeSteps ==
  ASSUME [Next]_vars
  PROVE  \/ UNCHANGED <<store, outcome, echoes>> /\ lost \subseteq lost'
         \/ \E r \in Requests : Concludes(r)
BY CommitSteps
DEF Next, Proceed, Begin, Acquire, AcquireTimeout, LockCallLost, LinkFails, LeaseExpires, Load,
    DeviceAdd, DeviceCount, Release, ReleaseNotOwned, Watched, vars, local

LEMMA ConcludesFromWork ==
  ASSUME NEW r \in Requests, Concludes(r), TypeOK
  PROVE  /\ pc[r] \in Working \ {"idle", "lock"} /\ pc'[r] = "release"
         /\ \A q \in Requests \ {r} : pc'[q] = pc[q] /\ outcome'[q] = outcome[q]
BY DEF Concludes, Confirms, WritesUnheard, Conflicts, Breaks, Goto, Working, TypeOK

LEMMA StepUnconfirmed == TypeOK /\ UnconfirmedAtWork /\ [Next]_vars => UnconfirmedAtWork'
<1> SUFFICES ASSUME TypeOK, UnconfirmedAtWork, [Next]_vars, NEW q \in Requests,
                    pc'[q] \in Working
             PROVE  outcome'[q] # "ok"
  BY DEF UnconfirmedAtWork
<1>1. CASE \E r \in Requests : Concludes(r)
  BY <1>1, ConcludesFromWork DEF UnconfirmedAtWork, Working
<1>2. CASE outcome' = outcome
  <2>1. pc[q] \in Working \/ outcome[q] # "ok"
    BY <1>2 DEF Next, Proceed, Begin, Acquire, AcquireTimeout, LockCallLost, LeaseExpires, Load, DeviceAdd,
       DeviceCount, LinkBreaks, Commit, Watch, Exec, ExecLost, ExecReplyLost, Conclude,
       Release, AfterRelease, ReleaseNotOwned, Goto, Working, vars, TypeOK
  <2> QED
    BY <1>2, <2>1 DEF UnconfirmedAtWork
<1> QED
  BY <1>1, <1>2, OutcomeSteps

LEMMA TimesFinite ==
  ASSUME NEW s \in Seq(Requests), NEW x
  PROVE  IsFiniteSet({i \in DOMAIN s : s[i] = x}) /\ Times(s, x) \in Nat
<1>1. DOMAIN s = 1 .. Len(s) /\ Len(s) \in Nat
  OBVIOUS
<1>2. IsFiniteSet(1 .. Len(s))
  BY <1>1, FS_Interval
<1>3. {i \in DOMAIN s : s[i] = x} \in SUBSET (1 .. Len(s))
  BY <1>1
<1> QED
  BY <1>2, <1>3, FS_Subset, FS_CardinalityType DEF Times

LEMMA TimesAppend ==
  ASSUME NEW s \in Seq(Requests), NEW e \in Requests, NEW x
  PROVE  Times(Append(s, e), x) = Times(s, x) + (IF x = e THEN 1 ELSE 0)
<1> DEFINE At == {i \in DOMAIN s : s[i] = x}
<1>1. /\ Len(s) \in Nat /\ DOMAIN s = 1 .. Len(s)
      /\ DOMAIN Append(s, e) = 1 .. Len(s) + 1
  OBVIOUS
<1>2. \A i \in 1 .. Len(s) + 1 : Append(s, e)[i] = IF i = Len(s) + 1 THEN e ELSE s[i]
  OBVIOUS
<1>3. IsFiniteSet(At) /\ Cardinality(At) \in Nat
  BY TimesFinite DEF Times
<1>4. CASE x = e
  <2>1. {i \in DOMAIN Append(s, e) : Append(s, e)[i] = x} = At \cup {Len(s) + 1}
    BY <1>1, <1>2, <1>4
  <2>2. Len(s) + 1 \notin At
    BY <1>1
  <2>3. Cardinality(At \cup {Len(s) + 1}) = Cardinality(At) + 1
    BY <1>3, <2>2, FS_AddElement
  <2>4. Times(Append(s, e), x) = Times(s, x) + 1
    BY <2>1, <2>3 DEF Times
  <2> QED
    BY <1>4, <2>4
<1>5. CASE x # e
  <2>1. {i \in DOMAIN Append(s, e) : Append(s, e)[i] = x} = At
    BY <1>1, <1>2, <1>5
  <2>2. Times(Append(s, e), x) = Times(s, x) /\ Times(s, x) \in Nat
    BY <1>3, <2>1 DEF Times
  <2> QED
    BY <1>5, <2>2
<1> QED
  BY <1>4, <1>5

LEMMA LogIsSeq == TypeOK => \A k \in Keys : store[k].log \in Seq(Requests) /\ store[k].version \in Nat
BY DEF TypeOK, Record

LEMMA WriteCounts ==
  ASSUME TypeOK, SnapshotsBehind, NEW r \in Requests, Writes(r), NEW q \in Requests
  PROVE  Times(store'[KeyOf[q]].log, q)
           = Times(store[KeyOf[q]].log, q) + (IF q = r THEN 1 ELSE 0)
<1>1. store[KeyOf[q]].log \in Seq(Requests)
  BY LogIsSeq, KeyIsKey
<1>2. CASE KeyOf[q] = KeyOf[r]
  <2>1. store'[KeyOf[q]].log = Append(store[KeyOf[q]].log, r)
    BY <1>2, WriteAppends
  <2> QED
    BY <1>1, <2>1, TimesAppend
<1>3. CASE KeyOf[q] # KeyOf[r]
  <2>1. store'[KeyOf[q]] = store[KeyOf[q]] /\ q # r
    BY <1>3, WriteAppends, KeyIsKey
  <2>2. Times(store[KeyOf[q]].log, q) \in Nat
    BY <1>1, TimesFinite
  <2> QED
    BY <2>1, <2>2
<1> QED
  BY <1>2, <1>3

LEMMA StepAccounted ==
  TypeOK /\ SnapshotsBehind /\ UnconfirmedAtWork /\ EveryWriteAccountedFor /\ [Next]_vars
    => EveryWriteAccountedFor'
<1> SUFFICES ASSUME TypeOK, SnapshotsBehind, UnconfirmedAtWork, EveryWriteAccountedFor,
                    [Next]_vars, NEW q \in Requests
             PROVE  Times(store'[KeyOf[q]].log, q)
                      = echoes'[q] + (IF outcome'[q] = "ok" THEN 1 ELSE 0)
  BY DEF EveryWriteAccountedFor
<1>1. /\ Times(store[KeyOf[q]].log, q) = echoes[q] + (IF outcome[q] = "ok" THEN 1 ELSE 0)
      /\ echoes[q] \in Nat
  BY DEF EveryWriteAccountedFor, TypeOK
<1>2. CASE UNCHANGED <<store, outcome, echoes>>
  BY <1>1, <1>2
<1>3. ASSUME NEW r \in Requests, Concludes(r)
      PROVE  Times(store'[KeyOf[q]].log, q)
               = echoes'[q] + (IF outcome'[q] = "ok" THEN 1 ELSE 0)
  <2>1. outcome[r] # "ok"
    BY <1>3, ConcludesFromWork DEF UnconfirmedAtWork
  <2>2. CASE Confirms(r)
    <3>1. /\ Times(store'[KeyOf[q]].log, q)
               = Times(store[KeyOf[q]].log, q) + (IF q = r THEN 1 ELSE 0)
          /\ echoes' = echoes /\ outcome'[q] = IF q = r THEN "ok" ELSE outcome[q]
      BY <2>2, WriteCounts DEF Confirms, TypeOK
    <3> QED
      BY <1>1, <2>1, <3>1
  <2>3. CASE WritesUnheard(r)
    <3>1. /\ Times(store'[KeyOf[q]].log, q)
               = Times(store[KeyOf[q]].log, q) + (IF q = r THEN 1 ELSE 0)
          /\ echoes'[q] = echoes[q] + (IF q = r THEN 1 ELSE 0)
          /\ outcome'[q] = IF q = r THEN "broken" ELSE outcome[q]
      BY <1>1, <2>3, WriteCounts DEF WritesUnheard, TypeOK
    <3> QED
      BY <1>1, <2>1, <3>1
  <2>4. CASE Conflicts(r) \/ Breaks(r)
    <3>1. /\ store' = store /\ echoes' = echoes
          /\ outcome'[q] = outcome[q] \/ (q = r /\ outcome'[q] # "ok")
      BY <2>4 DEF Conflicts, Breaks, TypeOK
    <3> QED
      BY <1>1, <2>1, <3>1
  <2> QED
    BY <1>3, <2>2, <2>3, <2>4 DEF Concludes
<1> QED
  BY <1>2, <1>3, OutcomeSteps

LEMMA InitAccounted == Init => UnconfirmedAtWork /\ EveryWriteAccountedFor
<1> SUFFICES ASSUME Init PROVE UnconfirmedAtWork /\ EveryWriteAccountedFor
  OBVIOUS
<1>1. ASSUME NEW r \in Requests PROVE Times(store[KeyOf[r]].log, r) = 0
  <2>1. store[KeyOf[r]].log = <<>>
    BY KeyIsKey DEF Init, NoRecord
  <2>2. {i \in DOMAIN store[KeyOf[r]].log : store[KeyOf[r]].log[i] = r} = {}
    BY <2>1
  <2> QED
    BY <2>2, FS_EmptySet DEF Times
<1> QED
  BY <1>1 DEF Init, UnconfirmedAtWork, EveryWriteAccountedFor

(* An update is in the record once for its confirmation and once more for  *)
(* every EXEC whose reply was lost: no retry repeats a write for any other *)
(* reason (the retries of assess and of apply_step_up).                    *)
THEOREM WritesAccountedFor == Spec => []EveryWriteAccountedFor
<1>1. Init => SnapshotsBehind
  BY KeyIsKey DEF Init, SnapshotsBehind, NoRecord
<1> QED
  BY <1>1, InitAccounted, StepAccounted, StepUnconfirmed, SnapshotsStayBehind, TypeCorrect, PTL
  DEF Spec

-----------------------------------------------------------------------------
(* SharedDeviceNoticed.  Whoever counted had added its identity before, so *)
(* the last to count counted the identities of all who did.                *)
Registered ==
  \A r \in Requests :
    pc[r] = "count" \/ count[r] > 0 =>
      DeviceOf[r] \in Devices /\ KeyOf[r] \in members[DeviceOf[r]]

(* The steps, as far as devices are concerned. *)
AddsTo(r) ==
  /\ DeviceOf[r] \in Devices
  /\ members' = [members EXCEPT ![DeviceOf[r]] = @ \cup {KeyOf[r]}]
  /\ UNCHANGED count
  /\ \A q \in Requests : pc'[q] = "count" => pc[q] = "count" \/ q = r

Counts(r) ==
  /\ DeviceOf[r] \in Devices
  /\ \/ UNCHANGED members /\ pc[r] = "count"
     \/ members' = [members EXCEPT ![DeviceOf[r]] = @ \cup {KeyOf[r]}]
  /\ count' = [count EXCEPT ![r] = Cardinality(members'[DeviceOf[r]])]
  /\ \A q \in Requests : pc'[q] = "count" => pc[q] = "count"

LEMMA DeviceSteps ==
  ASSUME TypeInv, [Next]_vars
  PROVE  \/ /\ UNCHANGED <<members, count>>
            /\ \A q \in Requests : pc'[q] = "count" => pc[q] = "count"
         \/ \E r \in Requests : AddsTo(r) \/ Counts(r)
<1> USE DEF TypeInv, TypeOK, Goto
<1>1. ASSUME NEW r \in Requests, DeviceAdd(r) PROVE AddsTo(r) \/ Counts(r)
  <2>1. DeviceOf[r] \in Devices
    BY <1>1, DeviceIsDevice DEF DeviceAdd, AddsADevice
  <2> QED
    BY <1>1, <2>1 DEF DeviceAdd, AddsTo, Counts
<1>2. ASSUME NEW r \in Requests, DeviceCount(r) PROVE Counts(r)
  <2>1. DeviceOf[r] \in Devices
    BY <1>2, DeviceIsDevice DEF DeviceCount, AddsADevice
  <2> QED
    BY <1>2, <2>1 DEF DeviceCount, Counts
<1>3. ASSUME NEW r \in Requests, ~DeviceAdd(r), ~DeviceCount(r), Proceed(r)
      PROVE  /\ UNCHANGED <<members, count>>
             /\ \A q \in Requests : pc'[q] = "count" => pc[q] = "count"
  BY <1>3 DEF Proceed, Begin, Acquire, AcquireTimeout, LockCallLost, Load, LinkBreaks, Commit, Watch, Exec,
     ExecLost, ExecReplyLost, Release, AfterRelease, ReleaseNotOwned, local
<1>4. ASSUME NEW k \in Keys, LeaseExpires(k)
      PROVE  /\ UNCHANGED <<members, count>>
             /\ \A q \in Requests : pc'[q] = "count" => pc[q] = "count"
  BY <1>4 DEF LeaseExpires, local
<1> QED
  BY <1>1, <1>2, <1>3, <1>4 DEF Next, vars

LEMMA MembersGrow ==
  ASSUME TypeInv, [Next]_vars
  PROVE  \A d \in Devices : members[d] \subseteq members'[d]
BY DeviceSteps DEF AddsTo, Counts, TypeInv, TypeOK

LEMMA StepRegistered == TypeInv /\ Registered /\ [Next]_vars => Registered'
<1> SUFFICES ASSUME TypeInv, Registered, [Next]_vars, NEW q \in Requests,
                    pc'[q] = "count" \/ count'[q] > 0
             PROVE  DeviceOf[q] \in Devices /\ KeyOf[q] \in members'[DeviceOf[q]]
  BY DEF Registered
<1>1. CASE pc[q] = "count" \/ count[q] > 0
  BY <1>1, MembersGrow DEF Registered
<1>2. CASE ~(pc[q] = "count" \/ count[q] > 0)
  <2>1. AddsTo(q) \/ Counts(q)
    BY <1>2, DeviceSteps DEF AddsTo, Counts, TypeInv, TypeOK
  <2> QED
    BY <1>2, <2>1, KeyIsKey DEF AddsTo, Counts, TypeInv, TypeOK
<1> QED
  BY <1>1, <1>2

CountedOn(d) == {r \in Requests : DeviceOf[r] = d /\ count[r] > 0}

LEMMA StepNoticed ==
  TypeInv /\ TypeInv' /\ Registered' /\ SharedDeviceNoticed /\ [Next]_vars
    => SharedDeviceNoticed'
<1> SUFFICES ASSUME TypeInv, TypeInv', Registered', SharedDeviceNoticed, [Next]_vars,
                    NEW d \in Devices, CountedOn(d)' # {}
             PROVE  \E r \in CountedOn(d)' :
                      count'[r] >= Cardinality({KeyOf[q] : q \in CountedOn(d)'})
  BY DEF SharedDeviceNoticed, CountedOn
<1>1. CASE \A q \in Requests : DeviceOf[q] = d => count'[q] = count[q]
  <2>1. CountedOn(d)' = CountedOn(d)
    BY <1>1 DEF CountedOn
  <2>2. PICK r \in CountedOn(d) : count[r] >= Cardinality({KeyOf[q] : q \in CountedOn(d)})
    BY <2>1 DEF SharedDeviceNoticed, CountedOn
  <2>3. count'[r] = count[r]
    BY <1>1 DEF CountedOn
  <2> QED
    BY <2>1, <2>2, <2>3
<1>2. ASSUME NEW r \in Requests, DeviceOf[r] = d, count'[r] # count[r]
      PROVE  \E p \in CountedOn(d)' :
               count'[p] >= Cardinality({KeyOf[q] : q \in CountedOn(d)'})
  <2>1. Counts(r)
    BY <1>2, DeviceSteps DEF AddsTo, Counts, TypeInv, TypeOK
  <2>2. count'[r] = Cardinality(members'[d])
    BY <1>2, <2>1 DEF Counts, TypeInv, TypeOK
  <2>3. {KeyOf[q] : q \in CountedOn(d)'} \in SUBSET members'[d]
    BY DEF Registered, CountedOn
  <2>4. IsFiniteSet(members'[d])
    BY DEF TypeInv, FiniteMembers
  <2>5. Cardinality({KeyOf[q] : q \in CountedOn(d)'}) <= Cardinality(members'[d])
    BY <2>3, <2>4, FS_Subset
  <2>6. Cardinality(members'[d]) \in Nat /\ (Cardinality(members'[d]) = 0 => members'[d] = {})
    BY <2>4, FS_CardinalityType, FS_EmptySet
  <2>7. members'[d] # {}
    BY <2>3
  <2>8. r \in CountedOn(d)'
    BY <1>2, <2>2, <2>6, <2>7 DEF CountedOn
  <2>9. IsFiniteSet({KeyOf[q] : q \in CountedOn(d)'})
    BY <2>3, <2>4, FS_Subset
  <2>10. Cardinality({KeyOf[q] : q \in CountedOn(d)'}) \in Nat
    BY <2>9, FS_CardinalityType
  <2> QED
    BY <2>2, <2>5, <2>6, <2>8, <2>10
<1> QED
  BY <1>1, <1>2

LEMMA InitNoticed == Init => Registered /\ SharedDeviceNoticed
BY DEF Init, Registered, SharedDeviceNoticed

(* The mule signal cannot be missed: of those who registered on a device,  *)
(* the last to count counted every identity, with device_add in one        *)
(* command or, on Redis, in two.                                           *)
THEOREM SharedDevicesNoticed == Spec => []SharedDeviceNoticed
BY InitTyped, StepTyped, InitNoticed, StepRegistered, StepNoticed, PTL DEF Spec

-----------------------------------------------------------------------------
(* ContentionIsAbsorbed.  A version counts the updates in the log, and a   *)
(* request that loses no command loses a try only to an update that was    *)
(* not there when it loaded, so it has lost at most as many tries as there *)
(* are updates; and each of those is another rival's only one.             *)
VersionsCount ==
  \A k \in Keys :
    /\ store[k].version = Len(store[k].log)
    /\ \A i \in 1 .. Len(store[k].log) : KeyOf[store[k].log[i]] = k

LostForCause ==
  \A r \in Requests : outcome[r] \in {"broken", "error"} \/ echoes[r] > 0 => r \in lost

(* The tries of r that are over came to nothing for as many updates. *)
TriesBehind(r) ==
  LET k == KeyOf[r]
  IN  /\ pc[r] \in {"idle", "lock"} => tries[r] <= store[k].version
      /\ pc[r] = "load" => tries[r] <= store[k].version + 1
      /\ pc[r] \in {"add", "count", "commit", "exec"} => tries[r] <= snap[r].version + 1
      /\ pc[r] \in {"release", "done"} =>
           outcome[r] # "none" /\ (outcome[r] = "conflict" => tries[r] <= store[k].version)
      /\ pc[r] = "done" => outcome[r] = "ok" \/ tries[r] = Retries

TriesLostToUpdates == \A r \in Requests : r \notin lost => TriesBehind(r)

LEMMA VersionsGrow ==
  ASSUME TypeOK, SnapshotsBehind, [Next]_vars
  PROVE  \A r \in Requests : store[KeyOf[r]].version <= store'[KeyOf[r]].version
<1> SUFFICES ASSUME NEW q \in Requests PROVE store[KeyOf[q]].version <= store'[KeyOf[q]].version
  OBVIOUS
<1>1. store[KeyOf[q]].version \in Nat
  BY LogIsSeq, KeyIsKey
<1>2. ASSUME NEW r \in Requests, Writes(r)
      PROVE  store[KeyOf[q]].version <= store'[KeyOf[q]].version
  BY <1>1, <1>2, WriteAppends, KeyIsKey
<1> QED
  BY <1>1, <1>2, StoreSteps DEF Loads

LEMMA StepVersions ==
  TypeOK /\ SnapshotsBehind /\ VersionsCount /\ [Next]_vars => VersionsCount'
<1> SUFFICES ASSUME TypeOK, SnapshotsBehind, VersionsCount, [Next]_vars, NEW k \in Keys
             PROVE  /\ store'[k].version = Len(store'[k].log)
                    /\ \A i \in 1 .. Len(store'[k].log) : KeyOf[store'[k].log[i]] = k
  BY DEF VersionsCount
<1>1. CASE store'[k] = store[k]
  BY <1>1 DEF VersionsCount
<1>2. ASSUME NEW r \in Requests, Writes(r), KeyOf[r] = k
      PROVE  /\ store'[k].version = Len(store'[k].log)
             /\ \A i \in 1 .. Len(store'[k].log) : KeyOf[store'[k].log[i]] = k
  <2> DEFINE log == store[k].log
  <2>1. log \in Seq(Requests) /\ store[k].version = Len(log)
    BY LogIsSeq DEF VersionsCount
  <2>2. store'[k].log = Append(log, r) /\ store'[k].version = Len(log) + 1
    BY <1>2, <2>1, WriteAppends
  <2>3. /\ Len(Append(log, r)) = Len(log) + 1 /\ Len(log) \in Nat
        /\ \A i \in 1 .. Len(log) + 1 :
             Append(log, r)[i] = IF i = Len(log) + 1 THEN r ELSE log[i]
    BY <2>1
  <2>4. \A i \in 1 .. Len(log) : KeyOf[log[i]] = k
    BY DEF VersionsCount
  <2> HIDE DEF log
  <2>5. ASSUME NEW i \in 1 .. Len(log) + 1 PROVE KeyOf[Append(log, r)[i]] = k
    BY <1>2, <2>3, <2>4
  <2> QED
    BY <2>2, <2>3, <2>5
<1>3. ASSUME NEW r \in Requests, Writes(r), KeyOf[r] # k PROVE store'[k] = store[k]
  BY <1>3, WriteAppends
<1> QED
  BY <1>1, <1>2, <1>3, StoreSteps DEF Loads

LEMMA StepLost == TypeOK /\ LostForCause /\ [Next]_vars => LostForCause' /\ lost \subseteq lost'
<1> SUFFICES ASSUME TypeOK, LostForCause, [Next]_vars PROVE LostForCause' /\ lost \subseteq lost'
  OBVIOUS
<1>1. CASE UNCHANGED <<store, outcome, echoes>> /\ lost \subseteq lost'
  BY <1>1 DEF LostForCause
<1>2. ASSUME NEW r \in Requests, Concludes(r) PROVE LostForCause' /\ lost \subseteq lost'
  <2>1. /\ lost' = lost \/ lost' = lost \cup {r}
        /\ \A q \in Requests \ {r} : outcome'[q] = outcome[q] /\ echoes'[q] = echoes[q]
        /\ outcome'[r] \in {"broken", "error"} => r \in lost'
        /\ echoes'[r] = echoes[r] \/ r \in lost'
    BY <1>2 DEF Concludes, Confirms, WritesUnheard, Conflicts, Breaks, TypeOK
  <2> QED
    BY <2>1 DEF LostForCause
<1> QED
  BY <1>1, <1>2, OutcomeSteps

LEMMA StepTries ==
  TypeInv /\ SnapshotsBehind /\ TriesLostToUpdates /\ LostForCause /\ [Next]_vars
    => TriesLostToUpdates'
<1> SUFFICES ASSUME TypeInv, SnapshotsBehind, TriesLostToUpdates, LostForCause, [Next]_vars,
                    NEW q \in Requests, q \notin lost'
             PROVE  TriesBehind(q)'
  BY DEF TriesLostToUpdates
<1> USE DEF TypeInv
<1>1. TriesBehind(q) /\ LostForCause'
  BY StepLost DEF TriesLostToUpdates
<1>2. /\ store[KeyOf[q]].version \in Nat /\ store'[KeyOf[q]].version \in Nat
      /\ store[KeyOf[q]].version <= store'[KeyOf[q]].version
      /\ snap[q].version \in Nat /\ tries[q] \in Nat
      /\ snap[q].version <= store[KeyOf[q]].version
  <2>1. KeyOf[q] \in Keys /\ TypeOK'
    BY KeyIsKey, StepTyped
  <2>2. store[KeyOf[q]] \in Record /\ store'[KeyOf[q]] \in Record /\ snap[q] \in Record
    BY <2>1 DEF TypeOK
  <2>3. tries[q] \in Nat
    BY RetriesAssumption DEF TypeOK
  <2> QED
    BY <2>2, <2>3, VersionsGrow DEF SnapshotsBehind, Record
<1>3. CASE UNCHANGED <<pc[q], tries[q], snap[q], outcome[q]>>
  BY <1>1, <1>2, <1>3 DEF TriesBehind
<1>4. ASSUME NEW r \in Requests, Proceed(r), r # q
      PROVE  UNCHANGED <<pc[q], tries[q], snap[q], outcome[q]>>
  BY <1>4 DEF Proceed, Begin, Acquire, AcquireTimeout, LockCallLost, Load, DeviceAdd, DeviceCount, LinkBreaks,
     Commit, Watch, Exec, ExecLost, ExecReplyLost, Release, ReleaseNotOwned, Conclude, Goto,
     local, TypeOK
<1>5. CASE Concludes(q)
  <2>1. /\ pc[q] \in {"load", "add", "count", "commit", "exec"} /\ pc'[q] = "release"
        /\ UNCHANGED tries
    BY <1>5 DEF Concludes, Goto, TypeOK
  <2>2. CASE outcome'[q] = "ok"
    BY <2>1, <2>2 DEF TriesBehind
  <2>3. CASE Conflicts(q)
    <3>1. snap[q].version + 1 <= store[KeyOf[q]].version
      BY <1>2, <2>3 DEF Conflicts, Unchanged
    <3> QED
      BY <1>1, <1>2, <2>1, <2>3, <3>1 DEF TriesBehind, Conflicts, TypeOK
  <2> QED
    BY <1>1, <1>5, <2>2, <2>3 DEF Concludes, Confirms, WritesUnheard, Breaks, LostForCause, TypeOK
<1>6. CASE Begin(q) \/ Acquire(q) \/ Load(q) \/ DeviceAdd(q) \/ DeviceCount(q)
  BY <1>1, <1>2, <1>6
  DEF Begin, Acquire, Load, DeviceAdd, DeviceCount, Goto, local, TypeOK, TriesBehind
<1>7. CASE Release(q)
  <2>1. /\ pc[q] = "release" /\ pc'[q] = AfterRelease(q)
        /\ UNCHANGED <<store, tries, snap, outcome>>
    BY <1>7 DEF Release, Goto, local, TypeOK
  <2>2. outcome[q] \in {"ok", "conflict"}
    BY <1>1, <2>1 DEF TriesBehind, LostForCause, TypeOK, Outcomes
  <2> QED
    BY <1>1, <2>1, <2>2 DEF AfterRelease, TriesBehind
<1>8. CASE AcquireTimeout(q) \/ ReleaseNotOwned(q) \/ LockCallLost(q)
  BY <1>8 DEF AcquireTimeout, ReleaseNotOwned, LockCallLost, Goto, local, TypeOK, TriesBehind
<1>9. CASE Watched(q)
  BY <1>1, <1>2, <1>9 DEF Watched, Goto, local, TypeOK, TriesBehind
<1>10. ASSUME NEW k \in Keys, LeaseExpires(k) PROVE UNCHANGED <<pc[q], tries[q], snap[q], outcome[q]>>
  BY <1>10 DEF LeaseExpires, local
<1>11. CASE Proceed(q)
  BY <1>5, <1>6, <1>7, <1>8, <1>9, <1>11, CommitSteps DEF Proceed
<1>12. CASE UNCHANGED vars
  BY <1>3, <1>12 DEF vars
<1> QED
  BY <1>3, <1>4, <1>10, <1>11, <1>12 DEF Next

LEMMA InitContention == Init => VersionsCount /\ LostForCause /\ TriesLostToUpdates
BY KeyIsKey, RetriesAssumption
DEF Init, VersionsCount, LostForCause, TriesLostToUpdates, TriesBehind, NoRecord

(* A log in which every request occurs once is no longer than there are    *)
(* requests that can occur in it.                                          *)
LEMMA DistinctLog ==
  ASSUME NEW s \in Seq(Requests), NEW S, IsFiniteSet(S), \A i \in 1 .. Len(s) : s[i] \in S,
         \A r \in Requests : Times(s, r) <= 1
  PROVE  Len(s) <= Cardinality(S)
<1>1. Len(s) \in Nat /\ DOMAIN s = 1 .. Len(s) /\ \A i \in 1 .. Len(s) : s[i] \in Requests
  OBVIOUS
<1>2. s \in [1 .. Len(s) -> S]
  BY <1>1
<1>3. ASSUME NEW i \in 1 .. Len(s), NEW j \in 1 .. Len(s), s[i] = s[j], i # j
      PROVE  FALSE
  <2> DEFINE At == {m \in DOMAIN s : s[m] = s[i]}
  <2>1. s[i] \in Requests /\ i \in At /\ j \in At
    BY <1>1, <1>3
  <2>2. IsFiniteSet(At) /\ Cardinality(At) \in Nat /\ Cardinality(At) <= 1
    BY <2>1, TimesFinite DEF Times
  <2>3. {i, j} \in SUBSET At
    BY <2>1
  <2>4. Cardinality({i, j}) = 2
    <3>1. IsFiniteSet({i}) /\ Cardinality({i}) = 1
      BY FS_Singleton
    <3>2. j \notin {i} /\ {i} \cup {j} = {i, j}
      BY <1>3
    <3>3. Cardinality({i} \cup {j}) = Cardinality({i}) + 1
      BY <3>1, <3>2, FS_AddElement
    <3> QED
      BY <3>1, <3>2, <3>3
  <2>5. Cardinality({i, j}) <= Cardinality(At)
    BY <2>2, <2>3, FS_Subset
  <2> QED
    BY <2>2, <2>4, <2>5
<1>4. s \in Injection(1 .. Len(s), S)
  BY <1>2, <1>3 DEF Injection, IsInjective
<1>5. Cardinality(1 .. Len(s)) <= Cardinality(S)
  BY <1>4, FS_Injection
<1>6. Cardinality(1 .. Len(s)) = Len(s)
  <2>1. Cardinality(1 .. Len(s)) = IF 1 > Len(s) THEN 0 ELSE Len(s) - 1 + 1
    BY <1>1, FS_Interval
  <2> QED
    BY <1>1, <2>1
<1> QED
  BY <1>5, <1>6

LEMMA TriesAbsorbed ==
  TypeInv /\ VersionsCount /\ LostForCause /\ TriesLostToUpdates /\ EveryWriteAccountedFor
    => ContentionIsAbsorbed
<1> SUFFICES ASSUME TypeInv, VersionsCount, LostForCause, TriesLostToUpdates,
                    EveryWriteAccountedFor, NEW r \in Requests, pc[r] = "done",
                    Cardinality({q \in Requests : KeyOf[q] = KeyOf[r]}) <= Retries,
                    {q \in Requests : KeyOf[q] = KeyOf[r]} \cap lost = {},
                    outcome[r] # "ok"
             PROVE  FALSE
  BY DEF ContentionIsAbsorbed
<1> DEFINE rivals == {q \in Requests : KeyOf[q] = KeyOf[r]}
           log    == store[KeyOf[r]].log
<1>1. log \in Seq(Requests) /\ Len(log) \in Nat /\ store[KeyOf[r]].version = Len(log)
  BY KeyIsKey, LogIsSeq DEF TypeInv, VersionsCount
<1>2. outcome[r] = "conflict" /\ tries[r] = Retries /\ Retries <= Len(log)
  BY <1>1 DEF TypeInv, TypeOK, Outcomes, TriesLostToUpdates, TriesBehind, LostForCause
<1>3. ASSUME NEW q \in rivals PROVE Times(log, q) = IF outcome[q] = "ok" THEN 1 ELSE 0
  <2>1. echoes[q] = 0
    BY DEF TypeInv, TypeOK, LostForCause
  <2>2. Times(store[KeyOf[q]].log, q) = echoes[q] + (IF outcome[q] = "ok" THEN 1 ELSE 0)
    BY DEF EveryWriteAccountedFor
  <2> QED
    BY <2>1, <2>2
<1>4. \A i \in 1 .. Len(log) : log[i] \in rivals \ {r}
  <2> SUFFICES ASSUME NEW i \in 1 .. Len(log) PROVE log[i] \in rivals /\ log[i] # r
    OBVIOUS
  <2>1. log[i] \in Requests /\ KeyOf[log[i]] = KeyOf[r]
    BY <1>1, KeyIsKey DEF VersionsCount
  <2>2. ASSUME log[i] = r PROVE FALSE
    <3>1. Times(log, r) = 0
      BY <1>2, <1>3
    <3>2. IsFiniteSet({j \in DOMAIN log : log[j] = r})
      BY <1>1, TimesFinite
    <3>3. i \in {j \in DOMAIN log : log[j] = r}
      <4>1. DOMAIN log = 1 .. Len(log)
        BY <1>1
      <4> QED
        BY <2>2, <4>1
    <3> QED
      BY <3>1, <3>2, <3>3, FS_EmptySet DEF Times
  <2> QED
    BY <2>1, <2>2
<1>5. \A q \in Requests : Times(log, q) <= 1
  <2> SUFFICES ASSUME NEW q \in Requests PROVE Times(log, q) <= 1
    OBVIOUS
  <2>1. CASE q \in rivals
    BY <1>3, <2>1
  <2>2. CASE q \notin rivals
    <3>1. {j \in DOMAIN log : log[j] = q} = {}
      BY <1>1, <1>4, <2>2
    <3> QED
      BY <3>1, FS_EmptySet DEF Times
  <2> QED
    BY <2>1, <2>2
<1>6. IsFiniteSet(rivals)
  BY RequestsAssumption, FS_Subset
<1>7. IsFiniteSet(rivals \ {r}) /\ Cardinality(rivals \ {r}) = Cardinality(rivals) - 1
  BY <1>6, FS_RemoveElement
<1>8. Len(log) <= Cardinality(rivals \ {r})
  BY <1>1, <1>4, <1>5, <1>7, DistinctLog
<1>9. Cardinality(rivals) \in Nat /\ Cardinality(rivals) <= Retries
  BY <1>6, FS_CardinalityType
<1> HIDE DEF rivals, log
<1> QED
  BY <1>1, <1>2, <1>7, <1>8, <1>9, RetriesAssumption

(* As many rivals as there are retries never exhaust them, whatever their  *)
(* leases do, as long as none of them loses a command.                     *)
THEOREM ContentionAbsorbed == Spec => []ContentionIsAbsorbed
<1>1. Init => SnapshotsBehind
  BY KeyIsKey DEF Init, SnapshotsBehind, NoRecord
<1>2. TypeInv => TypeOK
  BY DEF TypeInv
<1> QED
  BY <1>1, <1>2, InitTyped, StepTyped, SnapshotsStayBehind, InitContention, StepVersions, StepLost,
     StepTries, WritesAccountedFor, TriesAbsorbed, PTL
  DEF Spec

-----------------------------------------------------------------------------
(* A step of the evidence is one of the store, or none. *)
LEMMA EvidenceStoreStep == [EvidenceNext]_evidence => [Next]_vars
<1> SUFFICES ASSUME [EvidenceNext]_evidence PROVE [Next]_vars
  OBVIOUS
<1>1. CASE UNCHANGED vars
  BY <1>1
<1>2. ASSUME NEW r \in Requests, Loop(r) PROVE Next
  BY <1>2 DEF Loop, LoadProfile, CommitProfile, Next, Proceed
<1>3. ASSUME NEW r \in Requests, Read(r) \/ List(r) \/ Prune(r) \/ Use(r) PROVE UNCHANGED vars
  BY <1>3 DEF Read, List, Prune, Use, GoOn
<1> QED
  BY <1>1, <1>2, <1>3 DEF EvidenceNext, Tick, Assess, evidence

LEMMA EvidenceIsStore == EvidenceSpec => Spec
BY EvidenceStoreStep, PTL DEF EvidenceSpec, EvidenceInit, Spec

(* However evidence is resolved and whatever is discounted, the updates of *)
(* a record stay atomic: each takes effect once, at one instant, before    *)
(* its request returns (the safety part of ImplementsAtomicUpdates).       *)
THEOREM AssessmentsAreAtomic == EvidenceSpec => Abs!AbsSafety
BY EvidenceIsStore, EvidenceAssumption, MemoryImplementsAtomicUpdates, PTL

-----------------------------------------------------------------------------
(* The resolution of evidence, without the loop that follows it.           *)
Stages == {"new", "test attestation", "test assertion", "use attestation",
           "use assertion", "resolved"}

Entry(t) == [nonce |-> Nonce(t), exp |-> t.exp]

Entries == {Entry(t) : t \in Issued}

Carried(r) == {AttestationOf[r], AssertionOf[r]}

Nonces(r) == {Nonce(AttestationOf[r]), Nonce(AssertionOf[r])}

EvidenceTyped ==
  /\ now \in Int
  /\ stage \in [Requests -> Stages]
  /\ stale \in [Requests -> SUBSET Entries]
  /\ used \subseteq Entries
  /\ sim \in [Requests -> Int]
  /\ burnt \subseteq Requests \X {Nonce(t) : t \in Issued}

(* Only evidence in order gets to the nonces, and its tokens are signed.   *)
Vouched ==
  \A r \in Requests :
    /\ Resolving(r) => r \in genuine
    /\ stage[r] = "new" => r \notin genuine
    /\ r \in genuine =>
         /\ Opened(AttestationOf[r], "device_attestation")
         /\ Opened(AssertionOf[r], "behavior_similarity")
         /\ NoNonce \notin {AttestationOf[r].nonce, AssertionOf[r].nonce}

(* The cache holds what was used up, until it expires. *)
Remembered ==
  /\ \A r \in Requests : \A m \in stale[r] : now > m.exp
  /\ \A r \in Requests : stale[r] # {} => stage[r] \in {"test attestation", "test assertion"}
  /\ \A t \in Issued : \A b \in burnt : b[2] = Nonce(t) => Entry(t) \in used \/ now > t.exp
  /\ \A m \in used : \E b \in burnt : b[2] = m.nonce

(* What r has looked up, and is about to use up. *)
Found(r) ==
  IF stage[r] = "test assertion" THEN {Nonce(AttestationOf[r])}
  ELSE IF stage[r] \in {"use attestation", "use assertion"} THEN Nonces(r)
  ELSE {}

Raced(r, q) == {r, q} \in overlap \/ {r, q} \cap late # {}

FoundUnlessRaced ==
  \A r \in Requests : \A b \in burnt :
    b[1] # r /\ b[2] \in Found(r) => Raced(b[1], r)

-----------------------------------------------------------------------------
(* What the steps do to the evidence. *)
LEMMA Signed ==
  ASSUME Vouched, NEW r \in Requests, r \in genuine
  PROVE  /\ AttestationOf[r] \in Issued /\ AttestationOf[r].kind = "device_attestation"
         /\ AssertionOf[r] \in Issued /\ AssertionOf[r].kind = "behavior_similarity"
BY DEF Vouched, Opened, Issued

LEMMA AddsEntry ==
  ASSUME used \subseteq Entries, NEW t \in Issued
  PROVE  Add(t) = used \cup {Entry(t)}
<1>1. \A m \in used : m.nonce = Nonce(t) => m = Entry(t)
  <2> SUFFICES ASSUME NEW m \in used, m.nonce = Nonce(t) PROVE m = Entry(t)
    OBVIOUS
  <2>1. PICK u \in Issued : m = Entry(u)
    BY DEF Entries
  <2> QED
    BY <2>1, IssuedAssumption DEF Entry
<1> QED
  BY <1>1 DEF Add, Entry

LEMMA ClampBounds == \A x \in Int : Clamp(x) \in Int /\ Clamp(x) >= 0
BY DEF Clamp

(* Quiet: nothing happens to the evidence, but time may pass. *)
Quiet ==
  /\ UNCHANGED <<stage, stale, used, beliefs>>
  /\ now' = now \/ now' = now + 1

LEMMA EvidenceSteps ==
  ASSUME [EvidenceNext]_evidence
  PROVE  Quiet \/ \E r \in Requests : Read(r) \/ List(r) \/ Prune(r) \/ Use(r)
BY DEF EvidenceNext, Assess, Tick, Loop, Quiet, evidence, cache, beliefs

(* What a lookup comes to: to is the stage it leads to. *)
Looked(r, to) ==
  \E s \in {"test attestation", "test assertion"} :
    /\ stage[r] = s /\ GoOn(r, to)
    /\ late' = Overdue(r, s)
    /\ \/ /\ stale' = [stale EXCEPT ![r] = used \ Current(used)]
          /\ to = IF used = Current(used) THEN AfterTest(r, s, Known(TokenAt(r, s), used)) ELSE s
          /\ stale[r] = {} /\ UNCHANGED <<used, tripped>>
       \/ /\ stale' = [stale EXCEPT ![r] = {}]
          /\ to = AfterTest(r, s, Known(TokenAt(r, s), used'))
          /\ used' = used \ stale[r] /\ UNCHANGED tripped
       \/ /\ stale' = [stale EXCEPT ![r] = {}]
          /\ to = "resolved"
          /\ used' \subseteq used /\ used \ used' \subseteq stale[r]
          /\ ~(stale[r] \subseteq used)
          /\ tripped' = tripped \cup {r}
    /\ UNCHANGED <<sim, genuine, burnt>>

LEMMA LookSteps ==
  ASSUME NEW r \in Requests, List(r) \/ Prune(r)
  PROVE  \E to : Looked(r, to)
<1>1. CASE List(r)
  BY <1>1 DEF List, Testing, Looked
<1>2. CASE Prune(r)
  BY <1>2 DEF Prune, Testing, Looked
<1> QED
  BY <1>1, <1>2

LEMMA LookedTo ==
  ASSUME NEW r \in Requests, NEW to, Looked(r, to), EvidenceTyped
  PROVE  to \in Stages \ {"new"}
BY DEF Looked, AfterTest, Stages, EvidenceTyped

LEMMA InitEvidence == EvidenceInit => EvidenceTyped /\ Vouched
BY DEF EvidenceInit, EvidenceTyped, Vouched, Stages, Missing, Resolving

LEMMA StepEvidence ==
  EvidenceTyped /\ Vouched /\ [EvidenceNext]_evidence => EvidenceTyped' /\ Vouched'
<1> SUFFICES ASSUME EvidenceTyped, Vouched, [EvidenceNext]_evidence
             PROVE  EvidenceTyped' /\ Vouched'
  OBVIOUS
<1>1. CASE Quiet
  BY <1>1 DEF Quiet, EvidenceTyped, Vouched, Resolving, beliefs
<1>2. ASSUME NEW r \in Requests, Read(r) PROVE EvidenceTyped' /\ Vouched'
  <2> DEFINE to == IF InOrder(r) THEN "test attestation" ELSE "resolved"
  <2>1. /\ stage' = [stage EXCEPT ![r] = to] /\ stage[r] = "new"
        /\ to \in Stages \ {"new"}
        /\ to # "resolved" => InOrder(r)
        /\ genuine' = IF InOrder(r) THEN genuine \cup {r} ELSE genuine
        /\ UNCHANGED <<now, stale, used, sim, burnt>>
    BY <1>2 DEF Read, GoOn, Stages
  <2> HIDE DEF to
  <2>2. EvidenceTyped'
    BY <2>1 DEF EvidenceTyped
  <2>3. InOrder(r) => /\ Opened(AttestationOf[r], "device_attestation")
                      /\ Opened(AssertionOf[r], "behavior_similarity")
                      /\ NoNonce \notin {AttestationOf[r].nonce, AssertionOf[r].nonce}
    BY DEF InOrder
  <2>4. \A q \in Requests : stage'[q] = IF q = r THEN to ELSE stage[q]
    BY <2>1 DEF EvidenceTyped
  <2> QED
    BY <2>1, <2>2, <2>3, <2>4 DEF Vouched, Resolving
<1>3. ASSUME NEW r \in Requests, List(r) \/ Prune(r) PROVE EvidenceTyped' /\ Vouched'
  <2>1. PICK to : Looked(r, to)
    BY <1>3, LookSteps
  <2>2. /\ stage' = [stage EXCEPT ![r] = to] /\ to \in Stages \ {"new"}
        /\ stage[r] \in {"test attestation", "test assertion"}
        /\ UNCHANGED <<now, sim, genuine, burnt>>
        /\ used' \subseteq used
        /\ \E n \in SUBSET used : stale' = [stale EXCEPT ![r] = n]
    BY <2>1, LookedTo DEF Looked, GoOn
  <2>3. EvidenceTyped'
    BY <2>2 DEF EvidenceTyped
  <2>4. \A q \in Requests : stage'[q] = IF q = r THEN to ELSE stage[q]
    BY <2>2 DEF EvidenceTyped
  <2> QED
    BY <2>2, <2>3, <2>4 DEF Vouched, Resolving
<1>4. ASSUME NEW r \in Requests, Use(r) PROVE EvidenceTyped' /\ Vouched'
  <2>1. PICK s \in {"use attestation", "use assertion"} :
          /\ stage[r] = s
          /\ used' = Add(TokenAt(r, s))
          /\ burnt' = burnt \cup {<<r, Nonce(TokenAt(r, s))>>}
          /\ \E to \in {"use assertion", "resolved"} : stage' = [stage EXCEPT ![r] = to]
          /\ sim' = sim \/ sim' = [sim EXCEPT ![r] = Clamp(AssertionOf[r].similarity)]
          /\ UNCHANGED <<now, stale, genuine>>
    BY <1>4 DEF Use, GoOn
  <2>2. r \in genuine
    BY <2>1 DEF Vouched, Resolving
  <2>3. TokenAt(r, s) \in Issued /\ AssertionOf[r].similarity \in Int
    BY <2>2, Signed, IssuedAssumption DEF TokenAt
  <2>4. used' = used \cup {Entry(TokenAt(r, s))}
    BY <2>1, <2>3, AddsEntry DEF EvidenceTyped
  <2>5. Clamp(AssertionOf[r].similarity) \in Int
    BY <2>3, ClampBounds
  <2>6. EvidenceTyped'
    <3>1. stage' \in [Requests -> Stages] /\ sim' \in [Requests -> Int]
      BY <2>1, <2>5 DEF EvidenceTyped, Stages
    <3>2. used' \subseteq Entries
      BY <2>3, <2>4 DEF EvidenceTyped, Entries
    <3>3. burnt' \subseteq Requests \X {Nonce(t) : t \in Issued}
      <4>1. Nonce(TokenAt(r, s)) \in {Nonce(t) : t \in Issued}
        BY <2>3
      <4>2. <<r, Nonce(TokenAt(r, s))>> \in Requests \X {Nonce(t) : t \in Issued}
        BY <4>1
      <4> QED
        BY <2>1, <4>2 DEF EvidenceTyped
    <3> QED
      BY <2>1, <3>1, <3>2, <3>3 DEF EvidenceTyped
  <2>7. \A q \in Requests : stage'[q] = stage[q] \/ (q = r /\ stage'[q] \in {"use assertion", "resolved"})
    BY <2>1 DEF EvidenceTyped
  <2> QED
    BY <2>1, <2>2, <2>6, <2>7 DEF Vouched, Resolving
<1> QED
  BY <1>1, <1>2, <1>3, <1>4, EvidenceSteps

-----------------------------------------------------------------------------
(* The cache: an entry is only deleted once it has expired, so whoever     *)
(* then fails to find the nonce looked for it after the expiry.            *)
LEMMA ExpiryIsInt == \A m \in Entries : m.exp \in Int
BY IssuedAssumption DEF Entries, Entry

LEMMA LookRemembers ==
  ASSUME EvidenceTyped, Remembered, NEW r \in Requests, NEW to, Looked(r, to)
  PROVE  Remembered'
<1>1. /\ stage' = [stage EXCEPT ![r] = to] /\ UNCHANGED <<now, burnt>>
      /\ used' \subseteq used /\ used \ used' \subseteq stale[r]
  BY DEF Looked, GoOn
<1>2. PICK n : /\ stale' = [stale EXCEPT ![r] = n]
               /\ \A m \in n : m \in used /\ ~(now <= m.exp)
               /\ n # {} => to \in {"test attestation", "test assertion"}
  <2>1. \A m \in used \ Current(used) : ~(now <= m.exp)
    BY DEF Current
  <2>2. used \ Current(used) # {} => used # Current(used)
    OBVIOUS
  <2> QED
    BY <2>1, <2>2 DEF Looked
<1>3. /\ \A q \in Requests : stage'[q] = IF q = r THEN to ELSE stage[q]
      /\ \A q \in Requests : stale'[q] = IF q = r THEN n ELSE stale[q]
  BY <1>1, <1>2 DEF EvidenceTyped
<1>4. \A m \in n : now > m.exp
  <2>1. \A m \in n : m.exp \in Int
    BY <1>2, ExpiryIsInt DEF EvidenceTyped
  <2>2. \A e \in Int : ~(now <= e) => now > e
    BY DEF EvidenceTyped
  <2> QED
    BY <1>2, <2>1, <2>2
<1>5. \A m \in used : m \in used' \/ now > m.exp
  BY <1>1 DEF Remembered
<1>6. \A t \in Issued : Entry(t).exp = t.exp
  BY DEF Entry
<1>7. \A q \in Requests : \A m \in stale'[q] : now > m.exp
  BY <1>3, <1>4 DEF Remembered
<1>8. \A q \in Requests : stale'[q] # {} => stage'[q] \in {"test attestation", "test assertion"}
  BY <1>2, <1>3 DEF Remembered
<1>9. \A t \in Issued : \A b \in burnt : b[2] = Nonce(t) => Entry(t) \in used' \/ now > t.exp
  BY <1>5, <1>6 DEF Remembered
<1>10. \A m \in used' : \E b \in burnt : b[2] = m.nonce
  BY <1>1 DEF Remembered
<1> QED
  BY <1>1, <1>7, <1>8, <1>9, <1>10 DEF Remembered

(* What Use does with the token whose turn it is. *)
Uses(r, t) ==
  /\ stage[r] \in {"use attestation", "use assertion"}
  /\ t \in Issued /\ Nonce(t) \in Found(r)
  /\ used' = used \cup {Entry(t)}
  /\ burnt' = burnt \cup {<<r, Nonce(t)>>}
  /\ \/ /\ stage[r] = "use attestation" /\ t = AttestationOf[r]
        /\ GoOn(r, "use assertion") /\ UNCHANGED sim
     \/ /\ stage[r] = "use assertion" /\ t = AssertionOf[r]
        /\ GoOn(r, "resolved")
        /\ sim' = [sim EXCEPT ![r] = Clamp(AssertionOf[r].similarity)]
  /\ UNCHANGED <<stale, genuine, late, tripped>>

LEMMA UseSteps ==
  ASSUME EvidenceTyped, Vouched, NEW r \in Requests, Use(r)
  PROVE  \E t : Uses(r, t)
<1>1. PICK s \in {"use attestation", "use assertion"} :
        /\ stage[r] = s
        /\ used' = Add(TokenAt(r, s))
        /\ burnt' = burnt \cup {<<r, Nonce(TokenAt(r, s))>>}
        /\ \/ /\ s = "use attestation"
              /\ GoOn(r, "use assertion") /\ UNCHANGED sim
           \/ /\ s = "use assertion"
              /\ GoOn(r, "resolved")
              /\ sim' = [sim EXCEPT ![r] = Clamp(AssertionOf[r].similarity)]
        /\ UNCHANGED <<stale, genuine, late, tripped>>
  BY DEF Use
<1>2. TokenAt(r, s) \in Issued
  BY <1>1, Signed DEF TokenAt, Vouched, Resolving
<1>3. used' = used \cup {Entry(TokenAt(r, s))}
  BY <1>1, <1>2, AddsEntry DEF EvidenceTyped
<1>4. TokenAt(r, s) = IF s = "use attestation" THEN AttestationOf[r] ELSE AssertionOf[r]
  BY DEF TokenAt
<1>5. Nonce(TokenAt(r, s)) \in Found(r)
  BY <1>1, <1>4 DEF Found, Nonces
<1>6. Uses(r, TokenAt(r, s))
  BY <1>1, <1>2, <1>3, <1>4, <1>5 DEF Uses
<1> QED
  BY <1>6

LEMMA StepRemembered ==
  EvidenceTyped /\ Vouched /\ Remembered /\ [EvidenceNext]_evidence => Remembered'
<1> SUFFICES ASSUME EvidenceTyped, Vouched, Remembered, [EvidenceNext]_evidence
             PROVE  Remembered'
  OBVIOUS
<1>1. CASE Quiet
  <2>1. \A e \in Int : now > e => now' > e
    BY <1>1 DEF Quiet, EvidenceTyped
  <2>2. \A r \in Requests : \A m \in stale[r] : m.exp \in Int
    BY ExpiryIsInt DEF EvidenceTyped
  <2>3. \A t \in Issued : t.exp \in Int
    BY IssuedAssumption
  <2> QED
    BY <1>1, <2>1, <2>2, <2>3 DEF Quiet, beliefs, Remembered
<1>2. ASSUME NEW r \in Requests, Read(r) PROVE Remembered'
  <2>1. /\ stage[r] = "new" /\ \E to : stage' = [stage EXCEPT ![r] = to]
        /\ UNCHANGED <<now, stale, used, burnt>>
    BY <1>2 DEF Read, GoOn
  <2>2. stale[r] = {} /\ \A q \in Requests \ {r} : stage'[q] = stage[q]
    BY <2>1 DEF Remembered, EvidenceTyped
  <2> QED
    BY <2>1, <2>2 DEF Remembered
<1>3. ASSUME NEW r \in Requests, List(r) \/ Prune(r) PROVE Remembered'
  BY <1>3, LookSteps, LookRemembers
<1>4. ASSUME NEW r \in Requests, Use(r) PROVE Remembered'
  <2>1. PICK t : Uses(r, t)
    BY <1>4, UseSteps
  <2>2. /\ UNCHANGED <<now, stale>> /\ stale[r] = {}
        /\ \A q \in Requests \ {r} : stage'[q] = stage[q]
    BY <2>1 DEF Uses, GoOn, Remembered, EvidenceTyped
  <2>3. \A u \in Issued : Nonce(u) = Nonce(t) => Entry(u) = Entry(t)
    BY <2>1, IssuedAssumption DEF Uses, Entry
  <2>4. used' = used \cup {Entry(t)} /\ burnt' = burnt \cup {<<r, Nonce(t)>>}
    BY <2>1 DEF Uses
  <2>5. ASSUME NEW u \in Issued, NEW b \in burnt', b[2] = Nonce(u)
        PROVE  Entry(u) \in used' \/ now > u.exp
    <3>1. CASE b \in burnt
      BY <2>4, <2>5, <3>1 DEF Remembered
    <3>2. CASE b = <<r, Nonce(t)>>
      BY <2>3, <2>4, <2>5, <3>2
    <3> QED
      BY <2>4, <3>1, <3>2
  <2>6. ASSUME NEW m \in used' PROVE \E b \in burnt' : b[2] = m.nonce
    <3>1. CASE m \in used
      BY <2>4, <3>1 DEF Remembered
    <3>2. CASE m = Entry(t)
      <4>1. m.nonce = <<r, Nonce(t)>>[2]
        BY <3>2 DEF Entry
      <4> QED
        BY <2>4, <4>1
    <3> QED
      BY <2>4, <3>1, <3>2
  <2> QED
    BY <2>2, <2>5, <2>6 DEF Remembered
<1> QED
  BY <1>1, <1>2, <1>3, <1>4, EvidenceSteps

-----------------------------------------------------------------------------
(* Two uses of one nonce. *)
LEMMA RacesGrow ==
  ASSUME [EvidenceNext]_evidence
  PROVE  \A r, q \in Requests : Raced(r, q) => Raced(r, q)'
<1>1. overlap \subseteq overlap' /\ late \subseteq late'
  BY EvidenceSteps DEF Quiet, beliefs, Read, List, Prune, Use, GoOn, Overdue
<1> QED
  BY <1>1 DEF Raced

(* A nonce that r newly fails to find is new, or r came after its expiry.  *)
LEMMA LookFinds ==
  ASSUME EvidenceTyped, Vouched, Remembered, NEW r \in Requests, NEW to, Looked(r, to),
         NEW n \in Found(r)' \ Found(r), NEW b \in burnt, b[2] = n
  PROVE  r \in late'
<1>1. PICK s \in {"test attestation", "test assertion"} :
        /\ stage[r] = s /\ stage'[r] = to
        /\ late' = Overdue(r, s)
        /\ \/ to \in {s, "resolved"}
           \/ to = AfterTest(r, s, Known(TokenAt(r, s), used'))
  BY DEF Looked, GoOn, EvidenceTyped
<1>2. TokenAt(r, s) \in Issued
  BY <1>1, Signed DEF TokenAt, Vouched, Resolving
<1>3. TokenAt(r, s) = IF s = "test attestation" THEN AttestationOf[r] ELSE AssertionOf[r]
  BY DEF TokenAt
<1>4. to # s /\ to # "resolved"
  BY <1>1 DEF Found
<1>5. ~Known(TokenAt(r, s), used') /\ n = Nonce(TokenAt(r, s))
  BY <1>1, <1>3, <1>4 DEF AfterTest, Found, Nonces
<1>6. Entry(TokenAt(r, s)) \notin used'
  BY <1>5 DEF Known, Entry
<1>7. Remembered' /\ burnt' = burnt /\ now' = now
  BY LookRemembers DEF Looked, GoOn
<1>8. now > TokenAt(r, s).exp
  BY <1>2, <1>5, <1>6, <1>7 DEF Remembered
<1> QED
  BY <1>1, <1>8 DEF Overdue

LEMMA StepNonceOnce ==
  /\ EvidenceTyped /\ Vouched /\ Remembered /\ FoundUnlessRaced /\ NonceOnceUnlessRaced
  /\ [EvidenceNext]_evidence
  => FoundUnlessRaced' /\ NonceOnceUnlessRaced'
<1> SUFFICES ASSUME EvidenceTyped, Vouched, Remembered, FoundUnlessRaced, NonceOnceUnlessRaced,
                    [EvidenceNext]_evidence
             PROVE  FoundUnlessRaced' /\ NonceOnceUnlessRaced'
  OBVIOUS
<1>1. ASSUME burnt' = burnt,
             \A q \in Requests : \A b \in burnt :
               b[2] \in Found(q)' => b[2] \in Found(q) \/ q \in late'
      PROVE  FoundUnlessRaced' /\ NonceOnceUnlessRaced'
  <2>1. \A b \in burnt : b[1] \in Requests
    BY DEF EvidenceTyped
  <2>2. FoundUnlessRaced'
    BY <1>1, <2>1, RacesGrow DEF FoundUnlessRaced, Raced
  <2>3. NonceOnceUnlessRaced'
    BY <1>1, <2>1, RacesGrow DEF NonceOnceUnlessRaced, Raced
  <2> QED
    BY <2>2, <2>3
<1>2. CASE Quiet
  BY <1>1, <1>2 DEF Quiet, beliefs, Found
<1>3. ASSUME NEW r \in Requests, Read(r) PROVE FoundUnlessRaced' /\ NonceOnceUnlessRaced'
  <2>1. /\ burnt' = burnt /\ stage'[r] \in {"test attestation", "resolved"}
        /\ \A q \in Requests \ {r} : stage'[q] = stage[q]
    BY <1>3 DEF Read, GoOn, EvidenceTyped
  <2> QED
    BY <1>1, <2>1 DEF Found
<1>4. ASSUME NEW r \in Requests, List(r) \/ Prune(r)
      PROVE  FoundUnlessRaced' /\ NonceOnceUnlessRaced'
  <2>1. PICK to : Looked(r, to)
    BY <1>4, LookSteps
  <2>2. burnt' = burnt /\ \A q \in Requests \ {r} : stage'[q] = stage[q]
    BY <2>1 DEF Looked, GoOn, EvidenceTyped
  <2>3. \A q \in Requests \ {r} : Found(q)' = Found(q)
    BY <2>2 DEF Found
  <2> QED
    BY <1>1, <2>1, <2>2, <2>3, LookFinds
<1>5. ASSUME NEW r \in Requests, Use(r) PROVE FoundUnlessRaced' /\ NonceOnceUnlessRaced'
  <2>1. PICK t : Uses(r, t)
    BY <1>5, UseSteps
  <2>2. Nonce(t) \in Found(r) /\ burnt' = burnt \cup {<<r, Nonce(t)>>}
    BY <2>1 DEF Uses
  <2>3. \A q \in Requests : Found(q)' \subseteq Found(q)
    <3>1. /\ stage[r] \in {"use attestation", "use assertion"}
          /\ stage'[r] \in {"use assertion", "resolved"}
          /\ \A q \in Requests \ {r} : stage'[q] = stage[q]
      BY <2>1 DEF Uses, GoOn, EvidenceTyped
    <3> QED
      BY <3>1 DEF Found
  <2>4. \A q \in Requests \ {r} : Found(q) # {} => Raced(r, q)'
    <3>1. \A q \in Requests : Found(q) # {} => Resolving(q)
      BY DEF Found, Resolving
    <3>2. overlap' = overlap \cup {{r, q} : q \in {q \in Requests \ {r} : Resolving(q)}}
      BY <2>1 DEF Uses, GoOn
    <3> QED
      BY <3>1, <3>2 DEF Raced
  <2>5. \A b \in burnt : b[1] \in Requests
    BY DEF EvidenceTyped
  <2>6. ASSUME NEW q \in Requests, NEW b \in burnt', b[1] # q, b[2] \in Found(q)'
        PROVE  Raced(b[1], q)'
    BY <2>2, <2>3, <2>4, <2>5, <2>6, RacesGrow DEF FoundUnlessRaced
  <2>7. ASSUME NEW b \in burnt, NEW c \in burnt, b[2] = c[2], b[1] # c[1]
        PROVE  Raced(b[1], c[1])'
    BY <2>5, <2>7, RacesGrow DEF NonceOnceUnlessRaced, Raced
  <2>8. ASSUME NEW b \in burnt, b[2] = Nonce(t), b[1] # r
        PROVE  Raced(b[1], r)'
    BY <2>2, <2>5, <2>8, RacesGrow DEF FoundUnlessRaced
  <2>9. \A q, p \in Requests : Raced(q, p)' <=> Raced(p, q)'
    BY DEF Raced
  <2>10. ASSUME NEW b \in burnt', NEW c \in burnt', b[2] = c[2], b[1] # c[1]
         PROVE  Raced(b[1], c[1])'
    BY <2>2, <2>5, <2>7, <2>8, <2>9, <2>10
  <2>11. FoundUnlessRaced'
    BY <2>6 DEF FoundUnlessRaced
  <2>12. NonceOnceUnlessRaced'
    BY <2>10 DEF NonceOnceUnlessRaced, Raced
  <2> QED
    BY <2>11, <2>12
<1> QED
  BY <1>2, <1>3, <1>4, <1>5, EvidenceSteps

LEMMA InitNonces == EvidenceInit => Remembered /\ FoundUnlessRaced /\ NonceOnceUnlessRaced
BY DEF EvidenceInit, Remembered, FoundUnlessRaced, NonceOnceUnlessRaced

(* A nonce is good for one request, whatever the others do and whichever   *)
(* prunes fail halfway: two that use it up resolved at the same time, or   *)
(* one of them looked for it only after its expiry.                        *)
THEOREM NoncesUsedOnce == EvidenceSpec => []NonceOnceUnlessRaced
BY InitEvidence, StepEvidence, InitNonces, StepRemembered, StepNonceOnce, PTL DEF EvidenceSpec

-----------------------------------------------------------------------------
(* BelievedForCause, with what a request that is still resolving has done. *)
Tripping ==
  \A r \in Requests :
    /\ stale[r] \subseteq used \/ \E pair \in overlap : r \in pair
    /\ r \in tripped => \E pair \in overlap : r \in pair

Resolution ==
  \A r \in Requests :
    /\ stage[r] \in {"use attestation", "use assertion"} => Finite(AssertionOf[r].similarity)
    /\ stage[r] # "resolved" => sim[r] = Missing
    /\ stage[r] = "use assertion" => <<r, Nonce(AttestationOf[r])>> \in burnt
    /\ \A b \in burnt : b[1] = r => stage[r] = "use assertion" \/ sim[r] # Missing

Values ==
  \A r \in Requests :
    sim[r] # Missing =>
      /\ r \in genuine /\ Finite(AssertionOf[r].similarity)
      /\ sim[r] = Clamp(AssertionOf[r].similarity)
      /\ \A n \in Nonces(r) : <<r, n>> \in burnt

Cause(r) ==
  \/ ~Finite(AssertionOf[r].similarity) \/ r \in tripped
  \/ \E b \in burnt : b[2] \in Nonces(r)

RefusedWithCause ==
  \A r \in Requests :
    stage[r] = "resolved" /\ sim[r] = Missing /\ r \in genuine => Cause(r)

LEMMA BelievedIsForCause ==
  Tripping /\ Resolution /\ Values /\ RefusedWithCause => BelievedForCause
<1> SUFFICES ASSUME Tripping, Resolution, Values, RefusedWithCause, NEW r \in Requests
             PROVE  /\ sim[r] # Missing =>
                         /\ r \in genuine /\ Finite(AssertionOf[r].similarity)
                         /\ sim[r] = Clamp(AssertionOf[r].similarity)
                         /\ \A n \in Nonces(r) : <<r, n>> \in burnt
                    /\ stage[r] = "resolved" /\ sim[r] = Missing =>
                         /\ \A b \in burnt : b[1] # r
                         /\ r \in genuine => Cause(r)
                    /\ r \in tripped => \E pair \in overlap : r \in pair
  BY DEF BelievedForCause, Nonces, Cause
<1> QED
  BY DEF Tripping, Resolution, Values, RefusedWithCause

LEMMA StepTripping ==
  EvidenceTyped /\ Vouched /\ Remembered /\ Tripping /\ [EvidenceNext]_evidence => Tripping'
<1> SUFFICES ASSUME EvidenceTyped, Vouched, Remembered, Tripping, [EvidenceNext]_evidence
             PROVE  Tripping'
  OBVIOUS
<1>1. CASE Quiet
  BY <1>1 DEF Quiet, beliefs, Tripping
<1>2. ASSUME NEW r \in Requests, Read(r) PROVE Tripping'
  BY <1>2 DEF Read, GoOn, Tripping
<1>3. ASSUME NEW r \in Requests, List(r) \/ Prune(r) PROVE Tripping'
  <2>1. PICK to : Looked(r, to)
    BY <1>3, LookSteps
  <2>2. overlap' = overlap \cup {{r, q} : q \in {q \in Requests \ {r} : Resolving(q)}}
    BY <2>1 DEF Looked, GoOn
  <2>3. /\ stale'[r] \subseteq used'
        /\ \A q \in Requests \ {r} : stale'[q] = stale[q]
        /\ tripped' = tripped \/ (tripped' = tripped \cup {r} /\ ~(stale[r] \subseteq used))
    BY <2>1 DEF Looked, EvidenceTyped
  <2>4. ASSUME NEW q \in Requests \ {r}
        PROVE  stale[q] = {} \/ {r, q} \in overlap'
    <3>1. stale[q] # {} => Resolving(q)
      BY DEF Remembered, Resolving
    <3> QED
      BY <2>2, <3>1
  <2>5. \A q \in Requests : stale'[q] \subseteq used' \/ \E pair \in overlap' : q \in pair
    BY <2>3, <2>4
  <2>6. \A q \in Requests : q \in tripped' => \E pair \in overlap' : q \in pair
    BY <2>2, <2>3 DEF Tripping
  <2> QED
    BY <2>5, <2>6 DEF Tripping
<1>4. ASSUME NEW r \in Requests, Use(r) PROVE Tripping'
  <2>1. PICK t : Uses(r, t)
    BY <1>4, UseSteps
  <2>2. used \subseteq used' /\ overlap \subseteq overlap' /\ UNCHANGED <<stale, tripped>>
    BY <2>1 DEF Uses, GoOn
  <2> QED
    BY <2>2 DEF Tripping
<1> QED
  BY <1>1, <1>2, <1>3, <1>4, EvidenceSteps

(* A lookup refuses a nonce that somebody used up, or a value.             *)
LEMMA LookRefuses ==
  ASSUME EvidenceTyped, Vouched, Remembered, NEW r \in Requests, Looked(r, "resolved")
  PROVE  Cause(r)'
<1>1. PICK s \in {"test attestation", "test assertion"} :
        \/ "resolved" = AfterTest(r, s, Known(TokenAt(r, s), used'))
        \/ r \in tripped'
  BY DEF Looked
<1>2. Nonce(TokenAt(r, s)) \in Nonces(r)
  BY DEF TokenAt, Nonces
<1>3. CASE Known(TokenAt(r, s), used')
  <2>1. PICK m \in used' : m.nonce = Nonce(TokenAt(r, s))
    BY <1>3 DEF Known
  <2>2. \E b \in burnt' : b[2] = m.nonce
    BY LookRemembers DEF Remembered
  <2> QED
    BY <1>2, <2>1, <2>2 DEF Cause
<1>4. CASE ~Known(TokenAt(r, s), used') /\ r \notin tripped'
  BY <1>1, <1>4 DEF AfterTest, Cause
<1>5. CASE r \in tripped'
  BY <1>5 DEF Cause
<1> QED
  BY <1>3, <1>4, <1>5

LEMMA StepBelieved ==
  /\ EvidenceTyped /\ Vouched /\ Remembered /\ Resolution /\ Values /\ RefusedWithCause
  /\ [EvidenceNext]_evidence
  => Resolution' /\ Values' /\ RefusedWithCause'
<1> SUFFICES ASSUME EvidenceTyped, Vouched, Remembered, Resolution, Values, RefusedWithCause,
                    [EvidenceNext]_evidence
             PROVE  Resolution' /\ Values' /\ RefusedWithCause'
  OBVIOUS
<1>1. CASE Quiet
  BY <1>1 DEF Quiet, beliefs, Resolution, Values, RefusedWithCause, Cause
<1>2. ASSUME NEW r \in Requests, Read(r) PROVE Resolution' /\ Values' /\ RefusedWithCause'
  <2>1. /\ stage[r] = "new" /\ stage'[r] \in {"test attestation", "resolved"}
        /\ \A q \in Requests \ {r} : stage'[q] = stage[q]
        /\ stage'[r] = "resolved" => genuine' = genuine
        /\ \A q \in Requests \ {r} : q \in genuine' <=> q \in genuine
        /\ genuine \subseteq genuine'
        /\ UNCHANGED <<sim, burnt, tripped>>
    BY <1>2 DEF Read, GoOn, EvidenceTyped
  <2>2. r \notin genuine
    BY <2>1 DEF Vouched
  <2>3. Resolution'
    BY <2>1 DEF Resolution
  <2>4. Values'
    BY <2>1 DEF Values
  <2>5. RefusedWithCause'
    <3> SUFFICES ASSUME NEW q \in Requests, stage'[q] = "resolved", sim'[q] = Missing, q \in genuine'
                 PROVE  Cause(q)'
      BY DEF RefusedWithCause
    <3>1. stage[q] = "resolved" /\ sim[q] = Missing /\ q \in genuine
      BY <2>1, <2>2
    <3>2. Cause(q)
      BY <3>1 DEF RefusedWithCause
    <3> QED BY <2>1, <3>2 DEF Cause
  <2> QED
    BY <2>3, <2>4, <2>5
<1>3. ASSUME NEW r \in Requests, List(r) \/ Prune(r)
      PROVE  Resolution' /\ Values' /\ RefusedWithCause'
  <2>1. PICK to : Looked(r, to)
    BY <1>3, LookSteps
  <2>2. /\ stage[r] \in {"test attestation", "test assertion"} /\ stage'[r] = to
        /\ \A q \in Requests \ {r} : stage'[q] = stage[q]
        /\ tripped \subseteq tripped'
        /\ UNCHANGED <<sim, genuine, burnt>>
    BY <2>1 DEF Looked, GoOn, EvidenceTyped
  <2>3. /\ to # "use assertion"
        /\ to = "use attestation" => Finite(AssertionOf[r].similarity)
    BY <2>1 DEF Looked, AfterTest
  <2>4. Resolution'
    BY <2>2, <2>3 DEF Resolution
  <2>5. Values'
    BY <2>2 DEF Values
  <2>6. to = "resolved" => Cause(r)'
    BY <2>1, LookRefuses
  <2>7. \A q \in Requests : Cause(q) => Cause(q)'
    BY <2>2 DEF Cause
  <2>8. RefusedWithCause'
    BY <2>2, <2>6, <2>7 DEF RefusedWithCause
  <2> QED
    BY <2>4, <2>5, <2>8
<1>4. ASSUME NEW r \in Requests, Use(r) PROVE Resolution' /\ Values' /\ RefusedWithCause'
  <2>1. PICK t : Uses(r, t)
    BY <1>4, UseSteps
  <2>2. /\ stage[r] \in {"use attestation", "use assertion"}
        /\ \A q \in Requests \ {r} : stage'[q] = stage[q] /\ sim'[q] = sim[q]
        /\ burnt' = burnt \cup {<<r, Nonce(t)>>}
        /\ UNCHANGED <<genuine, tripped>>
    BY <2>1 DEF Uses, GoOn, EvidenceTyped
  <2>3. r \in genuine /\ Finite(AssertionOf[r].similarity) /\ sim[r] = Missing
    BY <2>2 DEF Vouched, Resolving, Resolution
  <2>4. burnt \subseteq burnt' /\ \A b \in burnt' : b \in burnt \/ b[1] = r
    <3>1. \A n : <<r, n>>[1] = r
      OBVIOUS
    <3>2. \A b \in burnt' : b \in burnt \/ b = <<r, Nonce(t)>>
      BY <2>2
    <3> QED
      BY <2>2, <3>1, <3>2
  <2>5. CASE stage[r] = "use attestation"
    <3>1. stage'[r] = "use assertion" /\ sim'[r] = sim[r] /\ t = AttestationOf[r]
      BY <2>1, <2>5 DEF Uses, GoOn, EvidenceTyped
    <3>2. Resolution'
      <4>1. <<r, Nonce(AttestationOf[r])>> \in burnt'
        BY <2>2, <3>1
      <4>2. ASSUME NEW q \in Requests, NEW b \in burnt', b[1] = q
            PROVE  stage'[q] = "use assertion" \/ sim'[q] # Missing
        <5>1. CASE q = r
          BY <3>1, <5>1
        <5>2. CASE q # r
          BY <2>2, <2>4, <4>2, <5>2 DEF Resolution
        <5> QED
          BY <5>1, <5>2
      <4>3. \A q \in Requests \ {r} :
              /\ stage'[q] \in {"use attestation", "use assertion"} =>
                   Finite(AssertionOf[q].similarity)
              /\ stage'[q] # "resolved" => sim'[q] = Missing
              /\ stage'[q] = "use assertion" => <<q, Nonce(AttestationOf[q])>> \in burnt'
        BY <2>2, <2>4 DEF Resolution
      <4> QED
        BY <2>3, <3>1, <4>1, <4>2, <4>3 DEF Resolution
    <3>3. Values'
      BY <2>2, <2>3, <3>1 DEF Values
    <3>4. RefusedWithCause'
      BY <2>2, <3>1 DEF RefusedWithCause, Cause
    <3> QED
      BY <3>2, <3>3, <3>4
  <2>6. CASE stage[r] = "use assertion"
    <3>1. /\ stage'[r] = "resolved" /\ t = AssertionOf[r]
          /\ sim'[r] = Clamp(AssertionOf[r].similarity)
      BY <2>1, <2>6 DEF Uses, GoOn, EvidenceTyped
    <3>2. sim'[r] # Missing
      <4>1. AssertionOf[r].similarity \in Int
        BY <2>3, Signed, IssuedAssumption
      <4> QED
        BY <3>1, <4>1, ClampBounds DEF Missing
    <3>3. \A n \in Nonces(r) : <<r, n>> \in burnt'
      BY <2>2, <2>6, <3>1 DEF Resolution, Nonces
    <3>4. Resolution'
      BY <2>2, <2>4, <3>1, <3>2 DEF Resolution
    <3>5. Values'
      BY <2>2, <2>3, <3>1, <3>3 DEF Values
    <3>6. RefusedWithCause'
      BY <2>2, <3>2 DEF RefusedWithCause, Cause
    <3> QED
      BY <3>4, <3>5, <3>6
  <2> QED
    BY <2>2, <2>5, <2>6
<1> QED
  BY <1>1, <1>2, <1>3, <1>4, EvidenceSteps

LEMMA InitBelieved == EvidenceInit => Tripping /\ Resolution /\ Values /\ RefusedWithCause
BY DEF EvidenceInit, Tripping, Resolution, Values, RefusedWithCause, Missing

(* What is believed, refused and used up is what the evidence deserves.    *)
THEOREM EvidenceBelievedForCause == EvidenceSpec => []BelievedForCause
BY InitEvidence, StepEvidence, InitNonces, StepRemembered, InitBelieved, StepTripping,
   StepBelieved, BelievedIsForCause, PTL DEF EvidenceSpec

-----------------------------------------------------------------------------
(* The discount.  What a request knows of its client is current when it    *)
(* commits, for it holds the identity's lock; and once an assessment is in *)
(* the record, the record has either learnt from an event or has the flag. *)
ProfileTyped ==
  /\ \A k \in Keys : profile[k].event_count \in Nat
  /\ DOMAIN profile = Keys /\ DOMAIN read = Requests
  /\ profile = [k \in Keys |-> profile[k]] /\ read = [r \in Requests |-> read[r]]

ReadsCurrent ==
  \A r \in Requests : pc[r] \in {"add", "commit"} => read[r] = profile[KeyOf[r]]

ClientKnown ==
  \A k \in Keys : \A i \in 1 .. Len(store[k].log) :
    DeviceOf[store[k].log[i]] # NoDevice =>
      profile[k].event_count > 0 \/ profile[k].cold_prior_used

DiscountedWhenDone == \A r \in discounted : r \in Requests /\ outcome[r] = "ok"

StoreInv == TypeInv /\ MemoryInv /\ VersionsCount

(* The steps that know nothing new. *)
Aside ==
  /\ UNCHANGED <<store, outcome, knowledge>>
  /\ \A r \in Requests : pc'[r] \in {"add", "commit"} => pc[r] \in {"add", "commit"}

LEMMA LoopSteps ==
  ASSUME TypeOK, [EvidenceNext]_evidence
  PROVE  Aside \/ \E r \in Requests : LoadProfile(r) \/ CommitProfile(r)
<1>1. CASE UNCHANGED <<store, outcome, pc, knowledge>>
  BY <1>1 DEF Aside
<1>2. ASSUME NEW r \in Requests, Begin(r) \/ Acquire(r) \/ DeviceAdd(r) \/ Release(r),
             UNCHANGED knowledge
      PROVE  Aside
  BY <1>2 DEF Begin, Acquire, DeviceAdd, Release, AfterRelease, Goto, local, TypeOK, Aside
<1>3. ASSUME NEW r \in Requests, Read(r) \/ List(r) \/ Prune(r) \/ Use(r)
      PROVE  UNCHANGED <<store, outcome, pc, knowledge>>
  BY <1>3 DEF Read, List, Prune, Use, GoOn, vars
<1>4. Tick => UNCHANGED <<store, outcome, pc, knowledge>>
  BY DEF Tick, vars
<1> QED
  BY <1>1, <1>2, <1>3, <1>4 DEF EvidenceNext, Assess, Loop, evidence, vars

(* A commit in memory succeeds. *)
Learns(r) ==
  /\ read[r] = profile[KeyOf[r]] /\ outcome[r] = "none"
  /\ \A q \in Requests : KeyOf[q] = KeyOf[r] /\ pc'[q] \in {"add", "commit"} => FALSE
  /\ \A q \in Requests \ {r} : pc'[q] = pc[q] /\ outcome'[q] = outcome[q]
  /\ outcome'[r] = "ok"
  /\ store'[KeyOf[r]].log = Append(store[KeyOf[r]].log, r)
  /\ \A k \in Keys \ {KeyOf[r]} : store'[k] = store[k] /\ profile'[k] = profile[k]
  /\ \/ /\ DeviceOf[r] # NoDevice
        /\ profile'[KeyOf[r]].event_count \in {read[r].event_count, read[r].event_count + 1}
        /\ \/ profile'[KeyOf[r]].event_count > 0
           \/ profile'[KeyOf[r]].cold_prior_used
        /\ discounted' = discounted \/ (discounted' = discounted \cup {r} /\ Discounts(r))
     \/ DeviceOf[r] = NoDevice /\ UNCHANGED <<profile, discounted>>
  /\ ProfileTyped' /\ UNCHANGED read

LEMMA CommitLearns ==
  ASSUME StoreInv, ProfileTyped, ReadsCurrent, NEW r \in Requests, CommitProfile(r)
  PROVE  Learns(r)
<1> DEFINE k == KeyOf[r]
<1>1. k \in Keys
  BY KeyIsKey
<1>2. /\ pc[r] = "commit" /\ pc' = [pc EXCEPT ![r] = "release"] /\ ~Shared
      /\ snap[r] = store[k] /\ outcome[r] = "none" /\ read[r] = profile[k]
      /\ \A q \in Requests : KeyOf[q] = k /\ pc[q] \in {"add", "commit"} => q = r
  BY DEF CommitProfile, Commit, Goto, StoreInv, MemoryInv, SnapshotsCurrent, Effect,
         HolderInside, Holding, ReadsCurrent
<1>3. store' = [store EXCEPT ![k] = Updated(r)] /\ outcome' = [outcome EXCEPT ![r] = "ok"]
  BY <1>2 DEF CommitProfile, Commit, Unchanged, Conclude
<1>4. /\ store'[k].log = Append(store[k].log, r) /\ outcome'[r] = "ok"
      /\ \A q \in Requests \ {r} : pc'[q] = pc[q] /\ outcome'[q] = outcome[q]
      /\ pc'[r] = "release"
      /\ \A j \in Keys \ {k} : store'[j] = store[j]
  BY <1>1, <1>2, <1>3 DEF Updated, StoreInv, TypeInv, TypeOK
<1>5. CASE DeviceOf[r] = NoDevice
  <2>1. UNCHANGED <<profile, discounted, read>>
    BY <1>5 DEF CommitProfile
  <2> QED
    BY <1>2, <1>4, <1>5, <2>1 DEF Learns, ProfileTyped
<1>6. CASE DeviceOf[r] # NoDevice
  <2>1. PICK allowed \in {0, 1} :
          profile' = [profile EXCEPT ![k] =
            [event_count |-> read[r].event_count + allowed,
             cold_prior_used |-> read[r].cold_prior_used \/ Cold(r)]]
    BY <1>4, <1>6 DEF CommitProfile
  <2>2. /\ discounted' = discounted \/ (discounted' = discounted \cup {r} /\ Discounts(r))
        /\ UNCHANGED read
    BY <1>4, <1>6 DEF CommitProfile
  <2>3. read[r].event_count \in Nat
    BY <1>1, <1>2 DEF ProfileTyped
  <2> DEFINE new == [event_count |-> read[r].event_count + allowed,
                     cold_prior_used |-> read[r].cold_prior_used \/ Cold(r)]
  <2>4. /\ new.event_count = read[r].event_count + allowed
        /\ new.cold_prior_used <=> (read[r].cold_prior_used \/ Cold(r))
    OBVIOUS
  <2>5. new.event_count \in Nat /\ new.event_count \in {read[r].event_count, read[r].event_count + 1}
    BY <2>3, <2>4
  <2>6. new.event_count > 0 \/ new.cold_prior_used
    BY <2>3, <2>4 DEF Cold
  <2>7. profile' = [profile EXCEPT ![k] = new]
    BY <2>1
  <2> HIDE DEF new
  <2>8. /\ profile'[k] = new /\ \A j \in Keys \ {k} : profile'[j] = profile[j]
        /\ DOMAIN profile' = Keys /\ profile' = [j \in Keys |-> profile'[j]]
    BY <1>1, <2>7 DEF ProfileTyped
  <2>9. ProfileTyped'
    BY <2>2, <2>5, <2>8 DEF ProfileTyped
  <2> QED
    BY <1>2, <1>4, <1>6, <2>2, <2>5, <2>6, <2>8, <2>9 DEF Learns
<1> QED
  BY <1>5, <1>6

Discounting == ProfileTyped /\ ReadsCurrent /\ ClientKnown /\ DiscountedWhenDone

LEMMA StepDiscounting ==
  StoreInv /\ Discounting /\ [EvidenceNext]_evidence => Discounting'
<1> SUFFICES ASSUME StoreInv, Discounting, [EvidenceNext]_evidence PROVE Discounting'
  OBVIOUS
<1> USE DEF Discounting
<1>1. CASE Aside
  BY <1>1 DEF Aside, knowledge, ProfileTyped, ReadsCurrent, ClientKnown, DiscountedWhenDone
<1>2. ASSUME NEW r \in Requests, LoadProfile(r) PROVE Discounting'
  <2>1. /\ read' = [read EXCEPT ![r] = profile[KeyOf[r]]]
        /\ \A q \in Requests \ {r} : pc'[q] = pc[q]
        /\ UNCHANGED <<store, outcome, profile, discounted>>
    BY <1>2 DEF LoadProfile, Load, Goto, StoreInv, TypeInv, TypeOK
  <2>2. \A q \in Requests : read'[q] = IF q = r THEN profile[KeyOf[r]] ELSE read[q]
    BY <2>1 DEF ProfileTyped
  <2>3. ProfileTyped'
    BY <2>1 DEF ProfileTyped
  <2>4. ReadsCurrent'
    BY <2>1, <2>2 DEF ReadsCurrent
  <2> QED
    BY <2>1, <2>3, <2>4 DEF ClientKnown, DiscountedWhenDone
<1>3. ASSUME NEW r \in Requests, CommitProfile(r) PROVE Discounting'
  <2>1. Learns(r) /\ KeyOf[r] \in Keys
    BY <1>3, CommitLearns, KeyIsKey
  <2>2. ReadsCurrent'
    <3>1. \A q \in Requests : pc'[q] \in {"add", "commit"} =>
            KeyOf[q] # KeyOf[r] /\ pc[q] \in {"add", "commit"}
      BY <2>1 DEF Learns
    <3>2. \A q \in Requests : KeyOf[q] # KeyOf[r] => profile'[KeyOf[q]] = profile[KeyOf[q]]
      BY <2>1, KeyIsKey DEF Learns
    <3> QED
      BY <2>1, <3>1, <3>2 DEF ReadsCurrent, Learns
  <2>3. ClientKnown'
    <3> SUFFICES ASSUME NEW k \in Keys, NEW i \in 1 .. Len(store'[k].log),
                        DeviceOf[store'[k].log[i]] # NoDevice
                 PROVE  profile'[k].event_count > 0 \/ profile'[k].cold_prior_used
      BY DEF ClientKnown
    <3>1. CASE k # KeyOf[r]
      BY <2>1, <3>1 DEF Learns, ClientKnown
    <3>2. CASE k = KeyOf[r] /\ DeviceOf[r] # NoDevice
      BY <2>1, <3>2 DEF Learns
    <3>3. CASE k = KeyOf[r] /\ DeviceOf[r] = NoDevice
      <4>1. store[k].log \in Seq(Requests)
        BY <2>1, LogIsSeq DEF StoreInv, TypeInv
      <4>2. store'[k].log = Append(store[k].log, r) /\ profile'[k] = profile[k]
        BY <2>1, <3>3 DEF Learns
      <4>3. i \in 1 .. Len(store[k].log) /\ store'[k].log[i] = store[k].log[i]
        BY <3>3, <4>1, <4>2
      <4> QED
        BY <4>2, <4>3 DEF ClientKnown
    <3> QED
      BY <3>1, <3>2, <3>3
  <2>4. DiscountedWhenDone'
    BY <2>1 DEF Learns, DiscountedWhenDone
  <2> QED
    BY <2>1, <2>2, <2>3, <2>4 DEF Learns
<1> QED
  BY <1>1, <1>2, <1>3, LoopSteps DEF StoreInv, TypeInv

LEMMA StepFirstContact ==
  StoreInv /\ Discounting /\ DiscountedOnFirstContact /\ [EvidenceNext]_evidence
    => DiscountedOnFirstContact'
<1> SUFFICES ASSUME StoreInv, Discounting, DiscountedOnFirstContact, [EvidenceNext]_evidence
             PROVE  DiscountedOnFirstContact'
  OBVIOUS
<1> USE DEF Discounting
<1>1. CASE UNCHANGED <<store, discounted>>
  BY <1>1 DEF DiscountedOnFirstContact
<1>2. ASSUME NEW r \in Requests, CommitProfile(r) PROVE DiscountedOnFirstContact'
  <2>1. Learns(r) /\ KeyOf[r] \in Keys
    BY <1>2, CommitLearns, KeyIsKey
  <2>2. r \notin discounted /\ ~InLog(r)
    BY <2>1 DEF Learns, DiscountedWhenDone, StoreInv, MemoryInv, Effect
  <2>3. \A x \in discounted' : x = r \/ x \in discounted
    BY <2>1 DEF Learns
  <2> SUFFICES ASSUME NEW k \in Keys, NEW i \in DOMAIN store'[k].log,
                      store'[k].log[i] \in discounted', NEW j \in 1 .. i - 1
               PROVE  DeviceOf[store'[k].log[j]] = NoDevice
    BY DEF DiscountedOnFirstContact
  <2>4. store[k].log \in Seq(Requests)
    BY LogIsSeq DEF StoreInv, TypeInv
  <2>5. ASSUME NEW n \in 1 .. Len(store[k].log), store[k].log[n] \in discounted,
               NEW m \in 1 .. n - 1
        PROVE  DeviceOf[store[k].log[m]] = NoDevice
    BY <2>4, <2>5 DEF DiscountedOnFirstContact
  <2>6. CASE k # KeyOf[r]
    <3>1. store'[k] = store[k] /\ i \in 1 .. Len(store[k].log)
      BY <2>1, <2>4, <2>6 DEF Learns
    <3>2. store[k].log[i] # r
      BY <2>6, <3>1 DEF StoreInv, VersionsCount
    <3> QED
      BY <2>3, <2>5, <3>1, <3>2
  <2>7. CASE k = KeyOf[r]
    <3>1. store'[k].log = Append(store[k].log, r)
      BY <2>1, <2>7 DEF Learns
    <3>2. i \in 1 .. Len(store[k].log) + 1 /\ Len(store[k].log) \in Nat
      BY <2>4, <3>1
    <3>3. j \in 1 .. Len(store[k].log) /\ store'[k].log[j] = store[k].log[j]
      BY <2>4, <3>1, <3>2
    <3>4. CASE i \in 1 .. Len(store[k].log)
      <4>1. store'[k].log[i] = store[k].log[i]
        BY <2>4, <3>1, <3>4
      <4>2. store[k].log[i] # r
        BY <2>2, <2>7, <3>4 DEF InLog, Occurs
      <4> QED
        BY <2>3, <2>5, <3>3, <3>4, <4>1, <4>2
    <3>5. CASE i = Len(store[k].log) + 1
      <4>1. store'[k].log[i] = r
        BY <2>4, <3>1, <3>5
      <4>2. Discounts(r) /\ read[r] = profile[k]
        BY <2>1, <2>2, <2>7, <4>1 DEF Learns
      <4>3. ~(profile[k].event_count > 0 \/ profile[k].cold_prior_used)
        BY <4>2 DEF Discounts, Cold
      <4> QED
        BY <3>3, <4>3 DEF ClientKnown
    <3> QED
      BY <3>2, <3>4, <3>5
  <2> QED
    BY <2>6, <2>7
<1>3. ASSUME NEW r \in Requests, LoadProfile(r) PROVE UNCHANGED <<store, discounted>>
  BY <1>3 DEF LoadProfile, Load
<1> QED
  BY <1>1, <1>2, <1>3, LoopSteps DEF StoreInv, TypeInv, Aside, knowledge

LEMMA InitDiscounting == EvidenceInit => Discounting /\ DiscountedOnFirstContact
BY KeyIsKey
DEF EvidenceInit, Init, Discounting, ProfileTyped, ReadsCurrent, ClientKnown, NoRecord,
    DiscountedWhenDone, DiscountedOnFirstContact

(* One-shot: whatever the order of the requests of an identity, and though *)
(* a request that is not allowed teaches the record nothing, only the very *)
(* first assessment in the record had its score discounted.                *)
THEOREM DiscountIsOneShot == EvidenceSpec => []DiscountedOnFirstContact
<1>1. EvidenceSpec => []StoreInv
  <2>1. Spec => [](TypeInv /\ MemoryInv)
    BY EvidenceAssumption, MemoryInvariant
  <2>2. Init => SnapshotsBehind /\ VersionsCount
    BY KeyIsKey, InitContention DEF Init, SnapshotsBehind, NoRecord
  <2>3. TypeInv => TypeOK
    BY DEF TypeInv
  <2>4. Spec => []VersionsCount
    BY <2>2, <2>3, InitTyped, StepTyped, SnapshotsStayBehind, StepVersions, PTL DEF Spec
  <2>5. TypeInv /\ MemoryInv /\ VersionsCount => StoreInv
    BY DEF StoreInv
  <2> QED
    BY <2>1, <2>4, <2>5, EvidenceIsStore, PTL
<1> QED
  BY <1>1, InitDiscounting, StepDiscounting, StepFirstContact, PTL DEF EvidenceSpec
=============================================================================
