------------------------------- MODULE Ingest -------------------------------
(***************************************************************************)
(* POST /v1/events and DELETE /v1/identity/{id}/erase: an event is scored, *)
(* its material put into the vault, its assessment appended to the audit   *)
(* log, and its answer kept for a retry that carries the same idempotency  *)
(* key; an erasure destroys the identity's key.  Every call has its own    *)
(* thread.  The cache of answers, the vault and the audit log are plain    *)
(* objects of the process, shared without a lock and gone after a restart. *)
(* One step is one access to what the threads share.                       *)
(*                                                                         *)
(* Assessing (TrustEngine, StateStore) and appending (AuditLog) are one    *)
(* step each; an assessment is known by the call it was made for.  The     *)
(* calls are those of one client: the cache is keyed by the client as well.*)
(***************************************************************************)
EXTENDS PiiVault, Integers, Sequences, FiniteSets

CONSTANTS
  Requests,   \* events submitted, each in its own thread
  Erasures,   \* erasures asked for, each in its own thread
  IdemKeys,   \* idempotency keys
  NoIdemKey,  \* an event without one
  Events,     \* payloads
  NoEvent,
  About,      \* the identity of a payload
  Submissions,\* <<idempotency key, payload>>: what is submitted
  NoCall,
  IdemMax,    \* _IDEM_MAX
  MaxCalls,   \* bound: submissions and erasures made
  MaxRestarts \* bound: restarts of the process

ASSUME CallsAssumption ==
  /\ Requests \cap Erasures = {} /\ {NoCall, NoKey} \cap Requests = {}
  /\ IsFiniteSet(Requests) /\ IsFiniteSet(Erasures)
ASSUME EventsAssumption ==
  /\ About \in [Events -> Identities] /\ NoEvent \notin Events
  /\ Identities # {}
  /\ NoIdemKey \notin IdemKeys
  /\ Submissions \subseteq (IdemKeys \cup {NoIdemKey}) \X Events
  /\ IdemMax \in Nat \ {0} /\ {MaxCalls, MaxRestarts} \subseteq Nat

VARIABLES
  entries,  \* _idem_cache: the payload (its fingerprint) and answer of a key
  order,    \* its keys, the oldest first
  records,  \* the calls the audit log has a record of
  req,      \* what each submission has in hand
  era,      \* how far each erasure is
  restarts,
  met       \* ghost: the calls that were in flight when a call came in

vault == <<keys, texts, tombstoned>>
cache == <<entries, order>>
vars == <<keys, texts, tombstoned, entries, order, records, req, era, restarts, met>>

NoRequest ==
  [at |-> "idle", idem |-> NoIdemKey, event |-> NoEvent,
   answer |-> NoCall,   \* the call whose assessment is answered
   vaultKey |-> NoKey,  \* the key put works with
   scored |-> FALSE, stored |-> FALSE, vaulted |-> FALSE, epoch |-> 0]

NoErasure ==
  [at |-> "idle", identity |-> CHOOSE i \in Identities : TRUE, epoch |-> 0]

Through == {"answered", "replayed", "conflict", "missed", "engine_failed",
            "vault_refused", "killed"}
InFlight(c) == IF c \in Requests THEN req[c].at \notin Through \cup {"idle"}
                                 ELSE era[c].at \notin {"idle", "erased", "killed"}

Absent == [event |-> NoEvent, by |-> NoCall]

Init ==
  /\ VaultInit
  /\ entries = [k \in IdemKeys |-> Absent]
  /\ order = <<>>
  /\ records = {}
  /\ req = [r \in Requests |-> NoRequest]
  /\ era = [d \in Erasures |-> NoErasure]
  /\ restarts = 0
  /\ met = [c \in Requests \cup Erasures |-> {}]

At(r, step) == req[r].at = step
Set(r, new) == req' = [req EXCEPT ![r] = new]
Goto(r, step) == Set(r, [req[r] EXCEPT !.at = step])
Concerns(r, i) == ~At(r, "idle") /\ About[req[r].event] = i
Identity(r) == About[req[r].event]

Calls == Requests \cup Erasures
Made == {c \in Calls : IF c \in Requests THEN req[c].at # "idle" ELSE era[c].at # "idle"}
Meet(c) == /\ Cardinality(Made) < MaxCalls
           /\ met' = [met EXCEPT ![c] = {o \in Calls : InFlight(o)}]

Enter(r, idem, event) ==
  /\ At(r, "idle")
  /\ Set(r, [NoRequest EXCEPT !.at = IF idem = NoIdemKey THEN "assess" ELSE "look",
                              !.idem = idem, !.event = event, !.epoch = restarts])
  /\ Meet(r)
  /\ UNCHANGED <<vault, cache, records, era, restarts>>

-----------------------------------------------------------------------------
(* The cache: an OrderedDict. *)

Cached(k) == entries[k].by # NoCall
Place(k) == CHOOSE p \in DOMAIN order : order[p] = k
Others(k) == SubSeq(order, 1, Place(k) - 1) \o SubSeq(order, Place(k) + 1, Len(order))

(* move_to_end raises a KeyError for a key that is gone. *)
MoveToEnd(r, next) ==
  LET k == req[r].idem
  IN  /\ order' = IF Cached(k) THEN Append(Others(k), k) ELSE order
      /\ Goto(r, IF Cached(k) THEN next ELSE "missed")
      /\ UNCHANGED <<vault, entries, records, era, restarts, met>>

(* Variant: the payload is not compared. *)
LookByKey(r) ==
  LET entry == entries[req[r].idem]
  IN  /\ At(r, "look")
      /\ IF Cached(req[r].idem)
         THEN Set(r, [req[r] EXCEPT !.at = "touch", !.answer = entry.by])
         ELSE Goto(r, "assess")
      /\ UNCHANGED <<vault, cache, records, era, restarts, met>>

Look(r) ==
  LET entry == entries[req[r].idem]
  IN  /\ At(r, "look")
      /\ \/ ~Cached(req[r].idem) /\ Goto(r, "assess")
         \/ /\ Cached(req[r].idem) /\ entry.event # req[r].event
            /\ Goto(r, "conflict")
         \/ /\ Cached(req[r].idem) /\ entry.event = req[r].event
            /\ Set(r, [req[r] EXCEPT !.at = "touch", !.answer = entry.by])
      /\ UNCHANGED <<vault, cache, records, era, restarts, met>>

Touch(r) == At(r, "touch") /\ MoveToEnd(r, "replayed")

StoreAnswer(r) ==
  LET k == req[r].idem
  IN  /\ At(r, "store")
      /\ entries' = [entries EXCEPT ![k] = [event |-> req[r].event, by |-> r]]
      /\ order' = IF Cached(k) THEN order ELSE Append(order, k)
      /\ Set(r, [req[r] EXCEPT !.at = "bump", !.stored = TRUE])
      /\ UNCHANGED <<vault, records, era, restarts, met>>

Bump(r) == At(r, "bump") /\ MoveToEnd(r, "measure")

(* Variant: a full cache loses one. *)
FullAtMax == Len(order) >= IdemMax

Full == Len(order) > IdemMax

Measure(r) ==
  /\ At(r, "measure")
  /\ Goto(r, IF Full THEN "evict" ELSE "answered")
  /\ UNCHANGED <<vault, cache, records, era, restarts, met>>

(* popitem(last=False): a KeyError once other threads emptied the cache,   *)
(* which takes as many of them as the cache holds answers.                 *)
Evict(r) ==
  /\ At(r, "evict")
  /\ IF order = <<>> THEN Goto(r, "missed") /\ UNCHANGED cache
     ELSE /\ entries' = [entries EXCEPT ![Head(order)] = Absent]
          /\ order' = Tail(order)
          /\ Goto(r, "measure")
  /\ UNCHANGED <<vault, records, era, restarts, met>>

-----------------------------------------------------------------------------
(* Scoring, vault and audit log. *)

(* if not pii_vault.is_erased(...) *)
FoundErased(r) == IsErased(Identity(r))

(* An erased identity is scored, its material is not kept. *)
Assess(r) ==
  /\ At(r, "assess")
  /\ Set(r, [req[r] EXCEPT !.at = IF FoundErased(r) THEN "audit" ELSE "put",
                           !.scored = TRUE, !.answer = r])
  /\ UNCHANGED <<vault, cache, records, era, restarts, met>>

(* The engine's store raises, before its write or after it (StateStore). *)
AssessRaises(r) ==
  /\ At(r, "assess")
  /\ \E written \in BOOLEAN :
       Set(r, [req[r] EXCEPT !.at = "engine_failed", !.scored = written])
  /\ UNCHANGED <<vault, cache, records, era, restarts, met>>

(* put raises Erased if the identity was erased meanwhile. *)
PutTest(r) ==
  /\ At(r, "put")
  /\ Goto(r, IF IsErased(Identity(r)) THEN "vault_refused" ELSE "key")
  /\ UNCHANGED <<vault, cache, records, era, restarts, met>>

PutGetKey(r) ==
  /\ At(r, "key")
  /\ Set(r, [req[r] EXCEPT !.at = "keep", !.vaultKey = KeyFor(Identity(r), r)])
  /\ UNCHANGED <<vault, cache, records, era, restarts, met>>

PutStoreKey(r) ==
  /\ At(r, "keep")
  /\ StoreKey(Identity(r), req[r].vaultKey)
  /\ Goto(r, "text")
  /\ UNCHANGED <<cache, records, era, restarts, met>>

PutStoreText(r) ==
  /\ At(r, "text")
  /\ StoreText(Identity(r), req[r].vaultKey)
  /\ Set(r, [req[r] EXCEPT !.at = "audit", !.vaultKey = NoKey, !.vaulted = TRUE])
  /\ UNCHANGED <<cache, records, era, restarts, met>>

Audit(r) ==
  /\ At(r, "audit")
  /\ records' = records \cup {r}
  /\ Goto(r, IF req[r].idem = NoIdemKey THEN "answered" ELSE "store")
  /\ UNCHANGED <<vault, cache, era, restarts, met>>

-----------------------------------------------------------------------------
(* erase_identity, and the end of the process *)

EraAt(d, step) == era[d].at = step
EraGoto(d, step) == era' = [era EXCEPT ![d].at = step]

(* existed, which is only answered, is left out. *)
EraseEnter(d, i) ==
  /\ EraAt(d, "idle")
  /\ era' = [era EXCEPT ![d] = [at |-> "destroy", identity |-> i, epoch |-> restarts]]
  /\ Meet(d)
  /\ UNCHANGED <<vault, cache, records, req, restarts>>

EraseDestroyKey(d) ==
  /\ EraAt(d, "destroy")
  /\ DestroyKey(era[d].identity)
  /\ EraGoto(d, "bar")
  /\ UNCHANGED <<cache, records, req, restarts, met>>

EraseTombstone(d) ==
  /\ EraAt(d, "bar")
  /\ Tombstone(era[d].identity)
  /\ EraGoto(d, "audit")
  /\ UNCHANGED <<cache, records, req, restarts, met>>

EraseAudit(d) ==
  /\ EraAt(d, "audit")
  /\ records' = records \cup {d}
  /\ EraGoto(d, "erased")
  /\ UNCHANGED <<vault, cache, req, restarts, met>>

Restart ==
  /\ restarts < MaxRestarts
  /\ restarts' = restarts + 1
  /\ keys' = [i \in Identities |-> NoKey]
  /\ texts' = [i \in Identities |-> NoKey]
  /\ tombstoned' = {}
  /\ entries' = [k \in IdemKeys |-> Absent]
  /\ order' = <<>>
  /\ records' = {}
  /\ req' = [r \in Requests |-> IF InFlight(r) THEN [req[r] EXCEPT !.at = "killed"]
                                ELSE req[r]]
  /\ era' = [d \in Erasures |-> IF InFlight(d) THEN [era[d] EXCEPT !.at = "killed"]
                                ELSE era[d]]
  /\ UNCHANGED met

Next ==
  \/ \E r \in Requests :
       \/ \E s \in Submissions : Enter(r, s[1], s[2])
       \/ Look(r) \/ Touch(r)
       \/ Assess(r) \/ AssessRaises(r)
       \/ PutTest(r) \/ PutGetKey(r) \/ PutStoreKey(r) \/ PutStoreText(r)
       \/ Audit(r)
       \/ StoreAnswer(r) \/ Bump(r) \/ Measure(r) \/ Evict(r)
  \/ \E d \in Erasures :
       \/ \E i \in Identities : EraseEnter(d, i)
       \/ EraseDestroyKey(d) \/ EraseTombstone(d) \/ EraseAudit(d)
  \/ Restart

Spec == Init /\ [][Next]_vars

-----------------------------------------------------------------------------
(* "the same key reused with a DIFFERENT payload is a 409 conflict - never *)
(* a laundered ALLOW" (main.py:117): whatever the threads do to the cache, *)
(* the answer a retry gets was computed for its own key and payload.       *)
NeverLaundered ==
  \A r \in Requests : At(r, "replayed") =>
    LET first == req[req[r].answer]
    IN  first.idem = req[r].idem /\ first.event = req[r].event

Overlap(c, o) == o \in met[c] \/ c \in met[o]
Now(r) == req[r].epoch = restarts

(* The keys answered in the life of the process r belongs to. *)
KeysStored(r) ==
  {req[q].idem : q \in {p \in Requests : req[p].stored /\ req[p].epoch = req[r].epoch}}

(* An event submitted again under its key moves trust again only if the    *)
(* two calls overlapped, the first one failed, the cache was filled with   *)
(* the answers of enough other keys, or the process restarted.             *)
ScoredOnceUnlessEvicted ==
  \A r, q \in Requests :
    /\ r # q /\ req[r].scored /\ req[q].scored
    /\ req[r].idem = req[q].idem /\ req[r].idem # NoIdemKey
    /\ req[r].event = req[q].event
    => \/ Overlap(r, q)
       \/ req[r].epoch # req[q].epoch
       \/ \E c \in {r, q} : req[c].at \in {"engine_failed", "vault_refused"}
       \/ Cardinality(KeysStored(r) \ {req[r].idem}) >= IdemMax

(* Every answer, a replayed one too, is of an assessment the audit log     *)
(* has; an event is scored and not recorded only if the engine raised or   *)
(* its identity was erased while it was on its way.                        *)
AnsweredIsRecorded ==
  \A r \in Requests :
    /\ Now(r) /\ req[r].at \in {"answered", "replayed"} => req[r].answer \in records
    /\ At(r, "vault_refused") =>
         \E d \in Erasures : era[d].identity = Identity(r) /\ Overlap(r, d)

(* Erasure is durable "not just point-in-time" (keystore.py:46): a key is  *)
(* there again only through an event that was on its way during it.        *)
ErasedUnlessRaced ==
  \A d \in Erasures :
    era[d].at \in {"audit", "erased"} /\ era[d].epoch = restarts =>
      \/ ~HasKey(era[d].identity)
      \/ \E r \in Requests : Concerns(r, era[d].identity) /\ Overlap(r, d)

(* What is in the vault can be read once the first event of an identity    *)
(* was through before the next came in, however later ones overlap.        *)
Alone(r, i) ==
  \A q \in Requests \ {r} : Concerns(q, i) => ~Overlap(r, q)
NeverAsked(i) == \A d \in Erasures : EraAt(d, "idle") \/ era[d].identity # i

ReadableAfterFirst ==
  \A i \in Identities, r \in Requests :
    Concerns(r, i) /\ req[r].vaulted /\ Now(r) /\ Alone(r, i) /\ NeverAsked(i)
    => Readable(i)
=============================================================================
