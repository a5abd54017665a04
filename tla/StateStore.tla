----------------------------- MODULE StateStore -----------------------------
(***************************************************************************)
(* The per-identity state store under overlapping requests.                *)
(*                                                                         *)
(* Both handlers of the trust engine reach the store through the same      *)
(* loop: up to _CAS_RETRIES times, take the identity's lock, load the      *)
(* record, (assess only) register the device, compute, commit with         *)
(* compare-and-set, release.  InMemoryStateStore serves the threads of one *)
(* process; RedisStateStore (Shared) serves every pod, with a lock that is *)
(* a five-second lease and a connection that can break at each command.    *)
(*                                                                         *)
(* A record is [version, log], log being the requests whose updates it     *)
(* contains: the record a request commits is the one it loaded plus its    *)
(* own update, so an update is lost exactly when it vanishes from the log. *)
(*                                                                         *)
(* The lock of the redis client (external) raises when it cannot be had    *)
(* within blocking_timeout, and when it is released after its lease ended. *)
(***************************************************************************)
EXTENDS Integers, Sequences, FiniteSets

CONSTANTS
  Requests,   \* requests in flight, each run by its own thread
  Keys,       \* identities
  KeyOf,      \* the identity a request is about
  Devices,
  DeviceOf,   \* the device an assessment registers, NoDevice for a step-up
  NoDevice,
  Shared,     \* RedisStateStore rather than InMemoryStateStore
  Retries,    \* _CAS_RETRIES
  MaxLosers   \* bound: how many requests lose commands or replies

Nobody == "nobody"

ASSUME RequestsAssumption == IsFiniteSet(Requests)
ASSUME KeyOfAssumption == KeyOf \in [Requests -> Keys]
ASSUME DeviceOfAssumption ==
  DeviceOf \in [Requests -> Devices \cup {NoDevice}] /\ NoDevice \notin Devices
ASSUME SharedAssumption == Shared \in BOOLEAN /\ MaxLosers \in Nat
ASSUME RetriesAssumption == Retries \in Nat \ {0}
ASSUME NobodyAssumption == Nobody \notin Requests

VARIABLES
  store,     \* store[k]: identity k's record
  members,   \* members[d]: the identities seen on device d
  holder,    \* holder[k]: who holds k's lock
  pc, snap, tries,
  outcome,   \* what the last commit of a request came to
  count,     \* the device count the request got
  echoes,    \* ghost: writes of a request whose confirmation was lost
  lost       \* ghost: the requests that lost a command or a reply

vars == <<store, members, holder, pc, snap, tries, outcome, count, echoes, lost>>
local == <<snap, tries, outcome, count, echoes, lost>>

Record == [version : Nat, log : Seq(Requests)]
NoRecord == [version |-> 0, log |-> <<>>]

Holding == {"load", "add", "count", "commit", "exec", "release"}
Steps == Holding \cup {"idle", "lock", "done", "failed"}
Outcomes == {"none", "ok", "conflict", "broken", "error"}

Init ==
  /\ store = [k \in Keys |-> NoRecord]
  /\ members = [d \in Devices |-> {}]
  /\ holder = [k \in Keys |-> Nobody]
  /\ pc = [r \in Requests |-> "idle"]
  /\ snap = [r \in Requests |-> NoRecord]
  /\ tries = [r \in Requests |-> 0]
  /\ outcome = [r \in Requests |-> "none"]
  /\ count = [r \in Requests |-> 0]
  /\ echoes = [r \in Requests |-> 0]
  /\ lost = {}

LinkFails(r) ==
  /\ lost' = lost \cup {r}
  /\ Cardinality(lost') <= MaxLosers

Goto(r, from, to) == pc[r] = from /\ pc' = [pc EXCEPT ![r] = to]

-----------------------------------------------------------------------------
(* Taking the lock *)

Begin(r) ==
  /\ Goto(r, "idle", "lock")
  /\ UNCHANGED <<store, members, holder, local>>

(* Definitions marked Variant are no part of the model: each is the        *)
(* definition that follows it with a plausible slip.                       *)
(* Variant: the lock is not waited for. *)
AcquireWithoutWaiting(r) ==
  /\ Goto(r, "lock", "load")
  /\ holder' = [holder EXCEPT ![KeyOf[r]] = r]
  /\ tries' = [tries EXCEPT ![r] = @ + 1]
  /\ UNCHANGED <<store, members, snap, outcome, count, echoes, lost>>

(* Variant: the loop has no bound. *)
AcquireUncounted(r) ==
  /\ Goto(r, "lock", "load")
  /\ holder[KeyOf[r]] = Nobody
  /\ holder' = [holder EXCEPT ![KeyOf[r]] = r]
  /\ UNCHANGED <<store, members, snap, tries, outcome, count, echoes, lost>>

Acquire(r) ==
  /\ Goto(r, "lock", "load")
  /\ holder[KeyOf[r]] = Nobody
  /\ holder' = [holder EXCEPT ![KeyOf[r]] = r]
  /\ tries' = [tries EXCEPT ![r] = @ + 1]
  /\ UNCHANGED <<store, members, snap, outcome, count, echoes, lost>>

(* blocking_timeout: the client raises LockError *)
AcquireTimeout(r) ==
  /\ Shared
  /\ Goto(r, "lock", "failed")
  /\ holder[KeyOf[r]] # Nobody
  /\ UNCHANGED <<store, members, holder, local>>

(* The command that takes the lock, or gives it back, is lost or its reply *)
(* is: the client raises, and a lock taken unheard stays with nobody at    *)
(* work until its lease ends.                                              *)
LockCallLost(r) ==
  LET k == KeyOf[r]
  IN  /\ Shared /\ LinkFails(r)
      /\ \/ Goto(r, "lock", "failed") /\ holder[k] = Nobody /\ holder' = [holder EXCEPT ![k] = r]
         \/ Goto(r, "release", "failed") /\ holder[k] = r /\ holder' = [holder EXCEPT ![k] = Nobody]
         \/ (Goto(r, "lock", "failed") \/ Goto(r, "release", "failed")) /\ UNCHANGED holder
      /\ UNCHANGED <<store, members, snap, tries, outcome, count, echoes>>

(* The lease ends while its holder is still at work. *)
LeaseExpires(k) ==
  /\ Shared
  /\ holder[k] # Nobody
  /\ holder' = [holder EXCEPT ![k] = Nobody]
  /\ UNCHANGED <<store, members, pc, local>>

-----------------------------------------------------------------------------
(* The body of the loop *)

Load(r) ==
  /\ Goto(r, "load", IF DeviceOf[r] = NoDevice THEN "commit" ELSE "add")
  /\ snap' = [snap EXCEPT ![r] = store[KeyOf[r]]]
  /\ UNCHANGED <<store, members, holder, tries, outcome, count, echoes, lost>>

(* Variant: the count is taken before the identity is added. *)
DeviceAddAfterCount(r) ==
  /\ members' = [members EXCEPT ![DeviceOf[r]] = @ \cup {KeyOf[r]}]
  /\ Goto(r, "add", "commit")
  /\ count' = [count EXCEPT ![r] = Cardinality(members[DeviceOf[r]])]
  /\ UNCHANGED <<store, holder, snap, tries, outcome, echoes, lost>>

(* device_add: one step under the process-wide lock, SADD and SCARD on Redis *)
DeviceAdd(r) ==
  /\ members' = [members EXCEPT ![DeviceOf[r]] = @ \cup {KeyOf[r]}]
  /\ IF Shared
     THEN Goto(r, "add", "count") /\ UNCHANGED count
     ELSE /\ Goto(r, "add", "commit")
          /\ count' = [count EXCEPT ![r] = Cardinality(members'[DeviceOf[r]])]
  /\ UNCHANGED <<store, holder, snap, tries, outcome, echoes, lost>>

DeviceCount(r) ==
  /\ Goto(r, "count", "commit")
  /\ count' = [count EXCEPT ![r] = Cardinality(members[DeviceOf[r]])]
  /\ UNCHANGED <<store, members, holder, snap, tries, outcome, echoes, lost>>

(* A command before the commit breaks and raises out of the loop. *)
LinkBreaks(r) ==
  /\ Shared /\ LinkFails(r)
  /\ \E from \in {"load", "add", "count"} : Goto(r, from, "release")
  /\ outcome' = [outcome EXCEPT ![r] = "error"]
  /\ UNCHANGED <<store, members, holder, snap, tries, count, echoes>>

-----------------------------------------------------------------------------
(* commit: compare-and-set on the version *)

Unchanged(r) == store[KeyOf[r]].version = snap[r].version

Updated(r) == [version |-> snap[r].version + 1, log |-> Append(snap[r].log, r)]

Conclude(r, result) == outcome' = [outcome EXCEPT ![r] = result]

Commit(r) ==
  /\ ~Shared
  /\ Goto(r, "commit", "release")
  /\ IF Unchanged(r)
     THEN store' = [store EXCEPT ![KeyOf[r]] = Updated(r)] /\ Conclude(r, "ok")
     ELSE Conclude(r, "conflict") /\ UNCHANGED store
  /\ UNCHANGED <<members, holder, snap, tries, count, echoes, lost>>

(* WATCH and GET *)
Watch(r) ==
  /\ Shared
  /\ \/ Unchanged(r) /\ Goto(r, "commit", "exec") /\ UNCHANGED <<outcome, lost>>
     \/ ~Unchanged(r) /\ Goto(r, "commit", "release") /\ Conclude(r, "conflict") /\ UNCHANGED lost
     \/ LinkFails(r) /\ Goto(r, "commit", "release") /\ Conclude(r, "broken")
  /\ UNCHANGED <<store, members, holder, snap, tries, count, echoes>>

(* Variant: EXEC without the WATCH. *)
ExecUnwatched(r) ==
  /\ Goto(r, "exec", "release")
  /\ store' = [store EXCEPT ![KeyOf[r]] = Updated(r)] /\ Conclude(r, "ok")
  /\ UNCHANGED <<members, holder, snap, tries, count, echoes, lost>>

(* EXEC succeeds if nobody wrote the key since WATCH. *)
Exec(r) ==
  /\ Goto(r, "exec", "release")
  /\ IF Unchanged(r)
     THEN store' = [store EXCEPT ![KeyOf[r]] = Updated(r)] /\ Conclude(r, "ok")
     ELSE Conclude(r, "conflict") /\ UNCHANGED store
  /\ UNCHANGED <<members, holder, snap, tries, count, echoes, lost>>

(* EXEC or its reply is lost; either way commit returns False. *)
ExecLost(r) ==
  /\ LinkFails(r)
  /\ Goto(r, "exec", "release")
  /\ Conclude(r, "broken")
  /\ UNCHANGED <<store, members, holder, snap, tries, count, echoes>>

ExecReplyLost(r) ==
  /\ LinkFails(r)
  /\ Unchanged(r)
  /\ Goto(r, "exec", "release")
  /\ store' = [store EXCEPT ![KeyOf[r]] = Updated(r)]
  /\ echoes' = [echoes EXCEPT ![r] = @ + 1]
  /\ Conclude(r, "broken")
  /\ UNCHANGED <<members, holder, snap, tries, count>>

-----------------------------------------------------------------------------
(* Leaving the with block: out of the loop after a commit or after the last *)
(* try, else back to the lock; an exception of the body goes on its way.    *)
Owns(r) == holder[KeyOf[r]] = r

(* Variants: a successful commit does not leave the loop; a conflict is    *)
(* not retried.                                                            *)
AfterReleaseNoBreak(r) ==
  IF outcome[r] = "error" THEN "failed"
  ELSE IF tries[r] = Retries THEN "done"
  ELSE "lock"

AfterReleaseNoRetry(r) ==
  IF outcome[r] = "error" THEN "failed" ELSE "done"

AfterRelease(r) ==
  IF outcome[r] = "error" THEN "failed"
  ELSE IF outcome[r] = "ok" \/ tries[r] = Retries THEN "done"
  ELSE "lock"

Release(r) ==
  /\ Owns(r)
  /\ Goto(r, "release", AfterRelease(r))
  /\ holder' = [holder EXCEPT ![KeyOf[r]] = Nobody]
  /\ UNCHANGED <<store, members, local>>

(* release() of a lease that ended raises, after a successful commit too. *)
ReleaseNotOwned(r) ==
  /\ ~Owns(r)
  /\ Goto(r, "release", "failed")
  /\ UNCHANGED <<store, members, holder, local>>

-----------------------------------------------------------------------------
Proceed(r) ==
  \/ Begin(r) \/ Acquire(r) \/ AcquireTimeout(r) \/ LockCallLost(r)
  \/ Load(r) \/ DeviceAdd(r) \/ DeviceCount(r) \/ LinkBreaks(r)
  \/ Commit(r) \/ Watch(r) \/ Exec(r) \/ ExecLost(r) \/ ExecReplyLost(r)
  \/ Release(r) \/ ReleaseNotOwned(r)

Next ==
  \/ \E r \in Requests : Proceed(r)
  \/ \E k \in Keys : LeaseExpires(k)

Spec == Init /\ [][Next]_vars

(* A thread that can take a step takes one: the operating system runs      *)
(* every thread, and whoever waits for the lock gets it once it stays free *)
(* (every holder releases it, a Redis lease also ends by itself).          *)
Fairness == \A r \in Requests : WF_vars(Proceed(r))

FairSpec == Spec /\ Fairness

-----------------------------------------------------------------------------
Contains(log, r) == \E i \in DOMAIN log : log[i] = r

Times(log, r) == Cardinality({i \in DOMAIN log : log[i] = r})

(* Records, snapshots and loop counters keep their ranges: in particular a *)
(* request never enters the critical section more than Retries times.      *)
TypeOK ==
  /\ store \in [Keys -> Record]
  /\ members \in [Devices -> SUBSET Keys]
  /\ holder \in [Keys -> Requests \cup {Nobody}]
  /\ pc \in [Requests -> Steps]
  /\ snap \in [Requests -> Record]
  /\ tries \in [Requests -> 0 .. Retries]
  /\ outcome \in [Requests -> Outcomes]
  /\ count \in [Requests -> Nat]
  /\ echoes \in [Requests -> Nat]
  /\ lost \subseteq Requests

(* commit() is the real guard (state_store.py:171): whatever the lock did, *)
(* a write keeps every update the record had and adds the writer's own.    *)
NoLostUpdate ==
  [][ \A k \in Keys :
        \/ store'[k] = store[k]
        \/ \E r \in Requests :
             /\ KeyOf[r] = k
             /\ store'[k].log = Append(store[k].log, r)
             /\ store'[k].version = store[k].version + 1 ]_vars

(* An update is in the record as often as it was confirmed, plus once for  *)
(* every EXEC whose reply was lost: a retry repeats a write for no other   *)
(* reason, and a confirmed write never goes away.                          *)
EveryWriteAccountedFor ==
  \A r \in Requests :
    Times(store[KeyOf[r]].log, r)
      = echoes[r] + (IF outcome[r] = "ok" THEN 1 ELSE 0)

(* The lock of the in-memory store admits one request per identity.        *)
OneAtATime ==
  ~Shared => \A r, q \in Requests :
    r # q /\ KeyOf[r] = KeyOf[q] => ~(pc[r] \in Holding /\ pc[q] \in Holding)

(* The mule signal: among the requests that registered on a device and     *)
(* counted, at least one counted all their identities, even though Redis   *)
(* adds and counts in two commands.                                        *)
SharedDeviceNoticed ==
  \A d \in Devices :
    LET counted == {r \in Requests : DeviceOf[r] = d /\ count[r] > 0}
    IN  counted # {} => \E r \in counted :
          count[r] >= Cardinality({KeyOf[q] : q \in counted})

(* Contention alone never makes the engine answer from a record it did not *)
(* persist, as long as no more requests meet on an identity than there are *)
(* retries and none of them lost a command: only a request whose lease ran *)
(* out can spoil another's commit, and it can do so once.                  *)
ContentionIsAbsorbed ==
  \A r \in Requests :
    LET rivals == {q \in Requests : KeyOf[q] = KeyOf[r]}
    IN  pc[r] = "done" /\ Cardinality(rivals) <= Retries /\ rivals \cap lost = {}
        => outcome[r] = "ok"

(* Every request is answered or fails; none waits for the lock forever.    *)
EveryRequestEnds == <>(\A r \in Requests : pc[r] \in {"done", "failed"})

(* The in-memory store keeps the promise of AtomicUpdates.                 *)
Abs == INSTANCE AtomicUpdates WITH
         history  <- [k \in Keys |-> store[k].log],
         answered <- {r \in Requests : pc[r] = "done"}

ImplementsAtomicUpdates == Abs!AbsSpec
=============================================================================
