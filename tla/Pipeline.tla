------------------------------ MODULE Pipeline ------------------------------
(***************************************************************************)
(* The executable topology: the ingress produces events to Kafka keyed by  *)
(* identity, the scoring pods of one consumer group assess them, append    *)
(* the assessment to the ledger in Postgres (PostgresAudit, whose actions  *)
(* the pods take here) and store the decision the client polls.            *)
(*                                                                         *)
(* Kafka is external: a partition is a sequence of messages, owned by at   *)
(* most one pod of the group, with a committed offset.  The client library *)
(* commits, when auto-commit's timer has run out, the position of the next *)
(* message to hand out; it does so in the thread that polls, so between    *)
(* two events.  The group takes a partition away from a pod that stopped,  *)
(* from one that is polling (which then commits), or from one too slow to  *)
(* poll, which learns of it only at its next poll and works its batch off. *)
(*                                                                         *)
(* An assessment is one step here (StateStore has its own); a delivery c   *)
(* is the number of a call of append, and the score of an identity is the  *)
(* sequence of deliveries applied to it.                                   *)
(***************************************************************************)
EXTENDS PostgresAudit

CONSTANTS
  Pods, Events, Identities, Partitions,
  IdentityOf,    \* the identity an event is about
  PartitionOf,   \* the partition the hash of an identity's id selects
  FirstOwner,    \* the group's first assignment
  Nobody, NoCall,
  MaxCopies,     \* bound: how often one event is written, retries included
  MaxMoves,      \* bound: how often pods stop and partitions move
  MaxErrors      \* bound: how often writes and calls fail

ASSUME PodsAssumption == Nobody \notin Pods /\ NoCall \notin Calls
ASSUME KeysAssumption ==
  /\ IdentityOf \in [Events -> Identities]
  /\ PartitionOf \in [Identities -> Partitions]
  /\ FirstOwner \in [Partitions -> Pods]
ASSUME CallsAssumption == Calls \subseteq Nat

VARIABLES
  answered,    \* the events the ingress has answered 202
  sent,        \* the events in the order they were written, a message each
  topic,       \* topic[q]: the messages of partition q, as numbers into sent
  committed,   \* committed[q]: how many messages the group has committed
  owner,       \* owner[q]: the pod q is assigned to
  next, upto,  \* a pod's position in a partition, and the end of its batch
  pod, work,   \* where a pod is, and the delivery it works on
  deliveries,  \* deliveries[c]: the message handed out c-th
  score,       \* score[i]: the deliveries applied to i's record
  decisions,   \* decisions[e]: the delivery whose decision is stored
  dropped,     \* ghost: the events a pod gave up with an exception
  moves,       \* how often a partition lost its owner,
  stops, slow, \* because a pod stopped, or because it was slow
  errors       \* how often a write or a call failed

ledger == <<rows, pc, row>>
kafka == <<committed, owner, next, upto>>
ingress == <<answered, sent, topic>>
results == <<score, decisions, dropped>>
faults == <<moves, stops, slow>>
pipeline == <<ledger, kafka, ingress, results, faults, errors, pod, work, deliveries>>

PipelineInit ==
  /\ Init
  /\ answered = {} /\ sent = <<>> /\ topic = [q \in Partitions |-> <<>>]
  /\ committed = [q \in Partitions |-> 0]
  /\ owner = FirstOwner
  /\ next = [p \in Pods |-> [q \in Partitions |-> 0]] /\ upto = next
  /\ pod = [p \in Pods |-> "poll"] /\ work = [p \in Pods |-> NoCall]
  /\ deliveries = <<>>
  /\ score = [i \in Identities |-> <<>>]
  /\ decisions = [e \in Events |-> NoCall]
  /\ dropped = {}
  /\ moves = 0 /\ stops = 0 /\ slow = 0 /\ errors = 0

Copies(e) == Cardinality({n \in DOMAIN sent : sent[n] = e})

EventOf(c) == sent[deliveries[c]]

Move == moves < MaxMoves /\ moves' = moves + 1

Error == errors < MaxErrors /\ errors' = errors + 1

-----------------------------------------------------------------------------
(* POST /v1/events: send, flush, 202.  The broker appends the message, and *)
(* again when it is sent again because the acknowledgement was lost; or    *)
(* every retry fails, and the future that would tell so is dropped.        *)

Write(e, partitions) ==
  /\ e \notin answered
  /\ answered' = answered \cup {e}
  /\ \E copies \in 0 .. MaxCopies, q \in partitions :
       /\ IF copies = 1 THEN UNCHANGED errors ELSE Error
       /\ sent' = sent \o [n \in 1 .. copies |-> e]
       /\ topic' = [topic EXCEPT ![q] = @ \o [n \in 1 .. copies |-> Len(sent) + n]]
  /\ UNCHANGED <<ledger, kafka, results, faults, pod, work, deliveries>>

(* Variant: send without the key. *)
ProduceUnkeyed(e) == Write(e, Partitions)

Produce(e) == Write(e, {PartitionOf[IdentityOf[e]]})

(* GET /v1/decisions: what a client polls, NoCall for 404 *)
Polled(e) == decisions[e]

-----------------------------------------------------------------------------
(* The consumer group *)

Polling(p) == pod[p] = "poll" /\ \A q \in Partitions : next[p][q] = upto[p][q]

CommitsTo(p, q) == next[p][q]

(* Variant: auto_offset_reset="latest". *)
LatestOffset(q) == Len(topic[q])

StartsFrom(q) == committed'[q]

(* p begins where the group has committed to; a pod that polls keeps no    *)
(* position in a partition it does not own.                                *)
Moved(where, q, p) ==
  [x \in Pods |-> IF x = p THEN [where[x] EXCEPT ![q] = StartsFrom(q)]
                  ELSE IF Polling(x) THEN [where[x] EXCEPT ![q] = 0] ELSE where[x]]

TakeOver(q, p) ==
  /\ owner' = [owner EXCEPT ![q] = p]
  /\ next' = Moved(next, q, p)
  /\ upto' = Moved(upto, q, p)
  /\ UNCHANGED <<ledger, ingress, results, stops, errors, pod, work, deliveries>>

AssignOrphan(q, p) ==
  /\ Polling(p) /\ owner[q] = Nobody
  /\ UNCHANGED <<committed, moves, slow>>
  /\ TakeOver(q, p)

(* A rebalance: the old owner commits before it joins again. *)
Reassign(q, p) ==
  /\ Move /\ UNCHANGED slow
  /\ Polling(p) /\ owner[q] \in Pods \ {p} /\ Polling(owner[q])
  /\ committed' = [committed EXCEPT ![q] = CommitsTo(owner[q], q)]
  /\ TakeOver(q, p)

(* max_poll_interval passed: the old owner works on, unaware. *)
Evict(q, p) ==
  /\ Move /\ slow' = slow + 1
  /\ Polling(p) /\ owner[q] \in Pods \ {p}
  /\ pod[owner[q]] # "down" /\ ~Polling(owner[q])
  /\ UNCHANGED committed
  /\ TakeOver(q, p)

AutoCommit(q) ==
  /\ owner[q] \in Pods /\ Polling(owner[q])
  /\ committed' = [committed EXCEPT ![q] = CommitsTo(owner[q], q)]
  /\ committed' # committed
  /\ UNCHANGED <<ledger, ingress, owner, next, upto, results, faults, errors, pod, work, deliveries>>

Fetch(p) ==
  /\ Polling(p)
  /\ upto' = [upto EXCEPT ![p] =
       [q \in Partitions |-> IF owner[q] = p THEN Len(topic[q]) ELSE @[q]]]
  /\ upto' # upto
  /\ UNCHANGED <<ledger, ingress, committed, owner, next, results, faults, errors, pod, work, deliveries>>

-----------------------------------------------------------------------------
(* A scoring pod *)

Onward(p, to) ==
  /\ pod' = [pod EXCEPT ![p] = to]
  /\ work' = IF to \in {"poll", "down"} THEN [work EXCEPT ![p] = NoCall] ELSE work

(* print and go on: the next message is the next event's. *)
GiveUp(p) ==
  /\ Onward(p, "poll")
  /\ dropped' = dropped \cup {EventOf(work[p])}

(* for msg in consumer *)
HandOut(p) ==
  /\ pod[p] = "poll" /\ Len(deliveries) + 1 \in Calls
  /\ \E q \in Partitions :
       /\ next[p][q] < upto[p][q]
       /\ next' = [next EXCEPT ![p][q] = @ + 1]
       /\ deliveries' = Append(deliveries, topic[q][next[p][q] + 1])
  /\ pod' = [pod EXCEPT ![p] = "assess"]
  /\ work' = [work EXCEPT ![p] = Len(deliveries')]
  /\ UNCHANGED <<ledger, ingress, committed, owner, upto, results, faults, errors>>

(* The store applies the update and answers; it may also answer from a     *)
(* record it could not persist, or raise before or after the update.       *)
Assess(p) ==
  /\ pod[p] = "assess"
  /\ \E applied, raised \in BOOLEAN :
       /\ IF applied /\ ~raised THEN UNCHANGED errors ELSE Error
       /\ score' = IF applied
                   THEN [score EXCEPT ![IdentityOf[EventOf(work[p])]] = Append(@, work[p])]
                   ELSE score
       /\ IF raised THEN GiveUp(p) ELSE Onward(p, "audit") /\ UNCHANGED dropped
  /\ UNCHANGED <<ledger, kafka, ingress, decisions, faults, deliveries>>

(* audit.append: one transaction, whose failure raises *)
AuditStep(c) ==
  \/ (Select(c) \/ Insert(c) \/ Commit(c)) /\ UNCHANGED errors
  \/ (Abort(c) \/ CommitUnconfirmed(c)) /\ Error

AppendAudit(p) ==
  /\ pod[p] = "audit"
  /\ AuditStep(work[p])
  /\ CASE pc'[work[p]] = "failed"   -> GiveUp(p)
       [] pc'[work[p]] = "appended" -> Onward(p, "put") /\ UNCHANGED dropped
       [] OTHER                     -> UNCHANGED <<pod, work, dropped>>
  /\ UNCHANGED <<kafka, ingress, score, decisions, faults, deliveries>>

(* Variant: ON CONFLICT DO UPDATE. *)
StoredReplacing(c) == [decisions EXCEPT ![EventOf(c)] = c]

(* INSERT ... ON CONFLICT (event_id) DO NOTHING *)
Stored(c) == [decisions EXCEPT ![EventOf(c)] = IF @ = NoCall THEN c ELSE @]

Put(p) ==
  /\ pod[p] = "put"
  /\ \/ decisions' = Stored(work[p]) /\ Onward(p, "poll") /\ UNCHANGED <<errors, dropped>>
     \/ Error /\ decisions' \in {decisions, Stored(work[p])} /\ GiveUp(p)
  /\ UNCHANGED <<ledger, kafka, ingress, score, faults, deliveries>>

(* The pod is killed: its open transaction is rolled back, its partitions  *)
(* are anybody's, nothing more is committed.                               *)
Stop(p) ==
  /\ Move /\ stops' = stops + 1
  /\ pod[p] # "down"
  /\ Onward(p, "down")
  /\ IF pod[p] = "audit" THEN Abort(work[p]) ELSE UNCHANGED ledger
  /\ owner' = [q \in Partitions |-> IF owner[q] = p THEN Nobody ELSE owner[q]]
  /\ next' = [next EXCEPT ![p] = [q \in Partitions |-> 0]]
  /\ upto' = [upto EXCEPT ![p] = [q \in Partitions |-> 0]]
  /\ UNCHANGED <<ingress, committed, results, slow, errors, deliveries>>

Start(p) ==
  /\ pod[p] = "down"
  /\ Onward(p, "poll")
  /\ UNCHANGED <<ledger, kafka, ingress, results, faults, errors, deliveries>>

-----------------------------------------------------------------------------
Score(p) == HandOut(p) \/ Assess(p) \/ AppendAudit(p) \/ Put(p)

PipelineNext ==
  \/ \E e \in Events : Produce(e)
  \/ \E q \in Partitions : AutoCommit(q)
  \/ \E q \in Partitions, p \in Pods : AssignOrphan(q, p) \/ Reassign(q, p) \/ Evict(q, p)
  \/ \E p \in Pods : Fetch(p) \/ Score(p) \/ Stop(p) \/ Start(p)

PipelineSpec == PipelineInit /\ [][PipelineNext]_pipeline

(* A pod that runs works on, a pod that stopped is started again, a        *)
(* partition without owner gets one.  Nothing need be produced, committed  *)
(* or fail.                                                                *)
PipelineFair ==
  /\ PipelineSpec
  /\ \A p \in Pods : WF_pipeline(Fetch(p) \/ Score(p) \/ Start(p))
  /\ WF_pipeline(\E q \in Partitions, p \in Pods : AssignOrphan(q, p))

-----------------------------------------------------------------------------
(* What the client polls as the decision is backed by the ledger: a record *)
(* of an assessment of that very event, whatever pods did and failed to    *)
(* do with other deliveries of it (scoring_pod.py:37-39).                  *)
DecidedIsAudited ==
  \A e \in Events : decisions[e] # NoCall =>
    /\ EventOf(decisions[e]) = e
    /\ \E r \in rows : r = RowOf(r.seq, decisions[e], r.prev_hash)

(* A decision that was polled once is never replaced by the decision of    *)
(* another delivery of the event (stores.py:138).                          *)
DecisionStands ==
  [][ \A e \in Events : Polled(e) # NoCall => Polled(e)' = Polled(e) ]_pipeline

(* The events of an identity are scored in the order they were produced,   *)
(* each message once (bus.py:3): the score steps back at most once for     *)
(* every pod that stopped, as long as no pod was evicted while at work.    *)
Backward(h) ==
  {j \in 1 .. Len(h) - 1 : deliveries[h[j]] >= deliveries[h[j + 1]]}

InOrderUnlessStopped ==
  slow = 0 => \A i \in Identities : Cardinality(Backward(score[i])) <= stops

(* The backlog always empties: an event that was answered 202 gets its     *)
(* decision, unless it never reached the broker or a pod gave it up with   *)
(* an exception.                                                           *)
Settled(e) == decisions[e] # NoCall \/ e \in dropped \/ Copies(e) = 0

EveryEventEnds == []<>(\A e \in answered : Settled(e))
=============================================================================
