------------------------------ MODULE Evidence ------------------------------
(***************************************************************************)
(* What an assessment believes about its client, on top of the in-memory   *)
(* state store (StateStore, whose actions the requests go on with).        *)
(*                                                                         *)
(* Before its loop, assess resolves a device attestation and a behavioural *)
(* assertion into a similarity or Missing.  Each token has a nonce in a    *)
(* cache that the threads of the process share without a lock; a step is   *)
(* one access to it.  In the loop, an identity that the profile does not   *)
(* know yet gets the anomalies of its first contact discounted.            *)
(*                                                                         *)
(* A signature is abstract: signed tells whether it verifies under the key *)
(* the resolver has for that kind of token.  Similarities are tenths, with *)
(* numbers out of their range for infinity and for what is not a number.   *)
(***************************************************************************)
EXTENDS StateStore

CONSTANTS
  AttestationOf,  \* the device attestation a request carries, or NoToken
  AssertionOf,    \* the behavioural assertion it carries, or NoToken
  NoToken,
  Benign,         \* the requests _cold_prior_applies to
  Skew,           \* max_skew
  MaxTime         \* bound: ticks of the clock

ASSUME EvidenceAssumption ==
  ~Shared /\ Benign \subseteq Requests /\ Skew \in Nat /\ MaxTime \in Nat

VARIABLES
  now,
  stage,     \* how far the evidence of a request is resolved
  stale,     \* the nonces its prune is about to delete
  used,      \* the nonce cache
  sim,       \* the similarity a request believes, or Missing
  profile,   \* of an identity's record: the events it learnt from, cold_prior_used
  read,      \* the profile a request loaded
  discounted,      \* ghost: the requests whose committed score was discounted
  genuine,         \* ghost: the requests whose evidence was in order when read
  burnt,           \* ghost: <<request, nonce>>, who used what up
  overlap,         \* ghost: pairs of requests that resolved at the same time
  late,            \* ghost: the requests that looked for a nonce after its expiry
  tripped          \* ghost: the requests that met a KeyError

cache == <<now, stage, stale, used>>
beliefs == <<sim, genuine, burnt, overlap, late, tripped>>
knowledge == <<profile, read, discounted>>
evidence == <<vars, cache, beliefs, knowledge>>

Missing == -1
NoNonce == "none"
Inf == 1000
NaN == 1001
INTEGRITY_PASS == "MEETS_DEVICE_INTEGRITY"

(* DeviceAttestationProvider.issue and BehaviorProvider.issue *)
Attestation(device, verdict, issued, ttl, nonce) ==
  [kind |-> "device_attestation", signed |-> TRUE, device |-> device, verdict |-> verdict,
   issued |-> issued, exp |-> issued + ttl, nonce |-> nonce]

Similarity(device, identity, similarity, issued, ttl, nonce) ==
  [kind |-> "behavior_similarity", signed |-> TRUE, device |-> device, identity |-> identity,
   similarity |-> similarity, issued |-> issued, exp |-> issued + ttl, nonce |-> nonce]

(* What the providers signed, with a nonce, among the tokens carried.  No  *)
(* caller passes issue a nonce of its own, so it draws one for each token: *)
(* tokens that share one are copies of one token, or at least expire with  *)
(* it.                                                                     *)
Nonce(token) == <<token.kind, token.nonce>>

Issued ==
  {t \in {AttestationOf[r] : r \in Requests} \cup {AssertionOf[r] : r \in Requests} :
     t # NoToken /\ t.signed /\ t.nonce # NoNonce}

ASSUME IssuedAssumption ==
  \A t \in Issued :
    /\ t.exp \in Int
    /\ t.kind = "behavior_similarity" => t.similarity \in Int
    /\ \A u \in Issued : Nonce(t) = Nonce(u) => t.exp = u.exp

EvidenceInit ==
  /\ Init
  /\ now = 0
  /\ stage = [r \in Requests |-> IF DeviceOf[r] = NoDevice THEN "resolved" ELSE "new"]
  /\ stale = [r \in Requests |-> {}]
  /\ used = {}
  /\ sim = [r \in Requests |-> Missing]
  /\ profile = [k \in Keys |-> [event_count |-> 0, cold_prior_used |-> FALSE]]
  /\ read = [r \in Requests |-> profile[KeyOf[r]]]
  /\ discounted = {} /\ genuine = {} /\ burnt = {} /\ overlap = {} /\ late = {} /\ tripped = {}

Tick ==
  /\ now < MaxTime /\ now' = now + 1
  /\ UNCHANGED <<vars, stage, stale, used, beliefs, knowledge>>

-----------------------------------------------------------------------------
(* BehaviorResolver.resolve *)

Resolving(r) == stage[r] \notin {"new", "resolved"}

GoOn(r, to) ==
  /\ stage' = [stage EXCEPT ![r] = to]
  /\ overlap' = overlap \cup {{r, q} : q \in {q \in Requests \ {r} : Resolving(q)}}
  /\ UNCHANGED <<vars, now, knowledge>>

Fresh(token) == now <= token.exp /\ token.issued <= now + Skew

Opened(token, kind) == token # NoToken /\ token.signed /\ token.kind = kind

Bound(att, beh, r) ==
  att.device = DeviceOf[r] /\ beh.device = DeviceOf[r] /\ beh.identity = KeyOf[r]

InOrder(r) ==
  LET att == AttestationOf[r]
      beh == AssertionOf[r]
  IN  /\ Opened(att, "device_attestation") /\ Opened(beh, "behavior_similarity")
      /\ Fresh(att) /\ Fresh(beh)
      /\ att.verdict = INTEGRITY_PASS
      /\ Bound(att, beh, r)
      /\ NoNonce \notin {att.nonce, beh.nonce}

(* Everything up to the nonces. *)
Read(r) ==
  /\ stage[r] = "new"
  /\ GoOn(r, IF InOrder(r) THEN "test attestation" ELSE "resolved")
  /\ genuine' = IF InOrder(r) THEN genuine \cup {r} ELSE genuine
  /\ UNCHANGED <<stale, used, sim, burnt, late, tripped>>

Current(nonces) == {n \in nonces : now <= n.exp}

(* math.isfinite, and max(0.0, min(1.0, x)), which takes NaN to 1.0.       *)
Finite(x) == x \notin {NaN, Inf, -Inf}

Clamp(x) == IF x < 0 THEN 0 ELSE IF x > 10 THEN 10 ELSE x

(* What follows a lookup: both nonces are looked up before one is used up. *)
(* Variant: a similarity is believed whatever its value. *)
AfterTestAnyValue(r, s, seen) ==
  IF seen THEN "resolved" ELSE IF s = "test attestation" THEN "test assertion"
  ELSE "use attestation"

AfterTest(r, s, seen) ==
  IF seen THEN "resolved" ELSE IF s = "test attestation" THEN "test assertion"
  ELSE IF Finite(AssertionOf[r].similarity) THEN "use attestation" ELSE "resolved"

TokenAt(r, s) == IF s \in {"test attestation", "use attestation"} THEN AttestationOf[r]
                 ELSE AssertionOf[r]

Known(token, nonces) == \E n \in nonces : n.nonce = Nonce(token)

Testing(r, s) == stage[r] = s /\ s \in {"test attestation", "test assertion"}

Overdue(r, s) == IF now > TokenAt(r, s).exp THEN late \cup {r} ELSE late

(* seen: list what is stale, ... *)
List(r) ==
  \E s \in {"test attestation", "test assertion"} :
    /\ Testing(r, s) /\ stale[r] = {}
    /\ stale' = [stale EXCEPT ![r] = used \ Current(used)]
    /\ GoOn(r, IF used = Current(used) THEN AfterTest(r, s, Known(TokenAt(r, s), used)) ELSE s)
    /\ late' = Overdue(r, s)
    /\ UNCHANGED <<used, sim, genuine, burnt, tripped>>

(* ... delete it, look the nonce up.  What another thread deleted          *)
(* meanwhile is a KeyError, which _resolve_behavior takes for Missing.     *)
Prune(r) ==
  \E s \in {"test attestation", "test assertion"} :
    /\ Testing(r, s) /\ stale[r] # {}
    /\ stale' = [stale EXCEPT ![r] = {}]
    /\ \/ /\ stale[r] \subseteq used
          /\ used' = used \ stale[r]
          /\ GoOn(r, AfterTest(r, s, Known(TokenAt(r, s), used')))
          /\ UNCHANGED tripped
       \/ /\ ~(stale[r] \subseteq used)
          /\ \E before \in SUBSET (stale[r] \cap used) : used' = used \ before
          /\ GoOn(r, "resolved")
          /\ tripped' = tripped \cup {r}
    /\ late' = Overdue(r, s)
    /\ UNCHANGED <<sim, genuine, burnt>>

(* Variant: only attestations are single-use. *)
AddAttestation(token) ==
  IF token.kind # "device_attestation" THEN used
  ELSE used \cup {[nonce |-> Nonce(token), exp |-> token.exp]}

Add(token) ==
  {n \in used : n.nonce # Nonce(token)} \cup {[nonce |-> Nonce(token), exp |-> token.exp]}

Use(r) ==
  \E s \in {"use attestation", "use assertion"} :
    /\ stage[r] = s
    /\ used' = Add(TokenAt(r, s))
    /\ burnt' = burnt \cup {<<r, Nonce(TokenAt(r, s))>>}
    /\ \/ /\ s = "use attestation"
          /\ GoOn(r, "use assertion") /\ UNCHANGED sim
       \/ /\ s = "use assertion"
          /\ GoOn(r, "resolved")
          /\ sim' = [sim EXCEPT ![r] = Clamp(AssertionOf[r].similarity)]
    /\ UNCHANGED <<stale, genuine, late, tripped>>

-----------------------------------------------------------------------------
(* The loop of assess: what the record knows is loaded and written with it *)

Cold(r) == read[r].event_count = 0

(* Variant: the flag is not read. *)
DiscountsEveryCold(r) == Cold(r) /\ r \in Benign

Discounts(r) == Cold(r) /\ ~read[r].cold_prior_used /\ r \in Benign

LoadProfile(r) ==
  /\ Load(r)
  /\ read' = [read EXCEPT ![r] = profile[KeyOf[r]]]
  /\ UNCHANGED <<profile, discounted>>

(* Only an allowed event is learnt from (commit_features). *)
CommitProfile(r) ==
  /\ Commit(r)
  /\ IF outcome'[r] = "ok" /\ DeviceOf[r] # NoDevice
     THEN /\ \E allowed \in {0, 1} :
               profile' = [profile EXCEPT ![KeyOf[r]] =
                 [event_count |-> read[r].event_count + allowed,
                  cold_prior_used |-> read[r].cold_prior_used \/ Cold(r)]]
          /\ discounted' = IF Discounts(r) THEN discounted \cup {r} ELSE discounted
     ELSE UNCHANGED <<profile, discounted>>
  /\ UNCHANGED read

Loop(r) ==
  /\ stage[r] = "resolved"
  /\ \/ LoadProfile(r) \/ CommitProfile(r)
     \/ (Begin(r) \/ Acquire(r) \/ DeviceAdd(r) \/ Release(r)) /\ UNCHANGED knowledge
  /\ UNCHANGED <<cache, beliefs>>

Assess(r) == Read(r) \/ List(r) \/ Prune(r) \/ Use(r) \/ Loop(r)

EvidenceNext == Tick \/ \E r \in Requests : Assess(r)

EvidenceSpec ==
  /\ EvidenceInit /\ [][EvidenceNext]_evidence
  /\ \A r \in Requests : WF_evidence(Assess(r))

-----------------------------------------------------------------------------
(* attestation.py:143 "anti-replay on BOTH nonces (single-use)": two       *)
(* requests use the same nonce up only if they resolved at the same time   *)
(* (seen and add are separate accesses), or if one looked for it after its *)
(* expiry (the freshness test has read the clock before).                  *)
NonceOnceUnlessRaced ==
  \A b, c \in burnt :
    b[2] = c[2] /\ b[1] # c[1] => {b[1], c[1]} \in overlap \/ {b[1], c[1]} \cap late # {}

(* A similarity is believed only of evidence that was in order for this    *)
(* device and identity, with the finite value its signer gave; evidence    *)
(* that is refused uses nothing up; and evidence in order is refused only  *)
(* for a nonce that another request used up, or for a KeyError, which      *)
(* takes another request at work on the cache.                             *)
BelievedForCause ==
  \A r \in Requests :
    LET nonces == {Nonce(AttestationOf[r]), Nonce(AssertionOf[r])}
        value == AssertionOf[r].similarity
    IN  /\ sim[r] # Missing =>
             /\ r \in genuine /\ Finite(value) /\ sim[r] = Clamp(value)
             /\ \A n \in nonces : <<r, n>> \in burnt
        /\ stage[r] = "resolved" /\ sim[r] = Missing =>
             /\ \A b \in burnt : b[1] # r
             /\ r \in genuine =>
                  \/ ~Finite(value) \/ r \in tripped
                  \/ \E b \in burnt : b[2] \in nonces
        /\ r \in tripped => \E pair \in overlap : r \in pair

(* risk_engine.py:200 "only ONCE (one-shot)": among the updates of an  *)
(* identity's record only its very first assessment was scored with the    *)
(* discount, whether or not that assessment was allowed and learnt from.   *)
DiscountedOnFirstContact ==
  \A k \in Keys : \A i \in DOMAIN store[k].log :
    store[k].log[i] \in discounted =>
      \A j \in 1 .. i - 1 : DeviceOf[store[k].log[j]] = NoDevice
=============================================================================
