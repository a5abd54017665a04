--------------------------- MODULE Ingest_proofs ---------------------------
(***************************************************************************)
(* Proofs about event ingestion and erasure, for any number of threads,    *)
(* identities, keys and payloads, any cache and any number of restarts.    *)
(* The first invariant leaves the order of the cache's keys open: what it  *)
(* says holds whatever is evicted.  What is evicted, and when, comes after *)
(* it, and the keys of the vault.                                          *)
(***************************************************************************)
EXTENDS Ingest, FiniteSetTheorems, TLAPS

CachePart == {"look", "touch", "store", "bump", "measure", "evict"}
PutPart == {"put", "key", "keep", "text"}
Steps == CachePart \cup PutPart \cup Through \cup {"idle", "assess", "audit"}
EraSteps == {"idle", "destroy", "bar", "audit", "erased", "killed"}

Submission ==
  [at : Steps, idem : IdemKeys \cup {NoIdemKey}, event : Events \cup {NoEvent},
   answer : Requests \cup {NoCall}, vaultKey : Requests \cup {NoKey},
   scored : BOOLEAN, stored : BOOLEAN, vaulted : BOOLEAN, epoch : Nat]

Erasure == [at : EraSteps, identity : Identities, epoch : Nat]

(* Every variable keeps its range (there and below: ingest_event).         *)
TypeOK ==
  /\ keys \in [Identities -> Requests \cup {NoKey}]
  /\ texts \in [Identities -> Requests \cup {NoKey}]
  /\ tombstoned \subseteq Identities
  /\ entries \in [IdemKeys -> [event : Events \cup {NoEvent}, by : Requests \cup {NoCall}]]
  /\ records \subseteq Calls
  /\ req \in [Requests -> Submission]
  /\ era \in [Erasures -> Erasure]
  /\ restarts \in Nat
  /\ met \in [Calls -> SUBSET Calls]

(* What a submission that came in has to go with its steps. *)
Consistent ==
  \A r \in Requests :
    /\ req[r].at # "idle" => req[r].event \in Events
    /\ req[r].at \in CachePart \cup {"replayed"} => req[r].idem \in IdemKeys

(* A thread belongs to one life of the process. *)
Epochs ==
  /\ \A r \in Requests : req[r].epoch <= restarts /\ (InFlight(r) => Now(r))
  /\ \A d \in Erasures :
       era[d].epoch <= restarts /\ (InFlight(d) => era[d].epoch = restarts)

(* Calls at work together have met; one that did not come in met nobody.   *)
Idle(c) == IF c \in Requests THEN At(c, "idle") ELSE EraAt(c, "idle")
Together ==
  \A c, o \in Calls :
    /\ c # o /\ InFlight(c) /\ InFlight(o) => Overlap(c, o)
    /\ Idle(c) => ~Overlap(c, o)

(* An answer in the cache, or taken from it, is one for its key and        *)
(* payload, and was recorded before it got there.                          *)
Answer(a, idem, event) ==
  a \in Requests /\ req[a].at # "idle" /\ req[a].idem = idem /\ req[a].event = event

CacheHonest ==
  \A k \in IdemKeys : Cached(k) =>
    Answer(entries[k].by, k, entries[k].event) /\ entries[k].by \in records

TakenHonest ==
  \A r \in Requests : req[r].at \in {"touch", "replayed"} =>
    /\ Answer(req[r].answer, req[r].idem, req[r].event)
    /\ Now(r) => req[r].answer \in records

Recorded ==
  \A r \in Requests :
    /\ req[r].at \in PutPart \cup {"audit", "store", "bump", "measure", "evict", "answered"}
         => req[r].answer = r
    /\ req[r].at \in {"store", "bump", "measure", "evict", "answered"} /\ Now(r)
         => r \in records

(* An identity is barred by an erasure of this life; a submission that     *)
(* found it open and now works on it met that erasure.                     *)
Barred(d) == era[d].at \in {"audit", "erased"} /\ era[d].epoch = restarts
Tombstones ==
  /\ \A i \in tombstoned : \E d \in Erasures : Barred(d) /\ era[d].identity = i
  /\ \A d \in Erasures : Barred(d) => era[d].identity \in tombstoned

PutsMet ==
  \A r \in Requests, d \in Erasures :
    /\ req[r].at \in PutPart /\ Barred(d) /\ era[d].identity = Identity(r)
       => Overlap(r, d)

RefusedMet ==
  \A r \in Requests : At(r, "vault_refused") =>
    \E d \in Erasures : era[d].identity = Identity(r) /\ Overlap(r, d)

(* From the moment the key is destroyed. *)
Destroyed ==
  \A d \in Erasures :
    (Barred(d) \/ EraAt(d, "bar")) /\ HasKey(era[d].identity) =>
      \E r \in Requests : Concerns(r, era[d].identity) /\ Overlap(r, d)

IInv ==
  /\ TypeOK /\ Consistent /\ Epochs /\ Together
  /\ CacheHonest /\ TakenHonest /\ Recorded
  /\ Tombstones /\ PutsMet /\ RefusedMet /\ Destroyed

-----------------------------------------------------------------------------
(* What the steps of a submission that came in have in common. *)

Answering == {"store", "bump", "measure", "evict", "answered"}

ReqStep(r) ==
  \/ Look(r) \/ Touch(r) \/ Assess(r) \/ AssessRaises(r)
  \/ PutTest(r) \/ PutGetKey(r) \/ PutStoreKey(r) \/ PutStoreText(r)
  \/ Audit(r) \/ StoreAnswer(r) \/ Bump(r) \/ Measure(r) \/ Evict(r)

(* One record moves, from a step it is at to one it goes on with. *)
Moves(r) ==
  LET old == req[r]
      new == req'[r]
  IN  /\ req' \in [Requests -> Submission]
      /\ \A q \in Requests \ {r} : req'[q] = req[q]
      /\ old.at \notin Through \cup {"idle"} /\ new.at \notin {"idle", "killed"}
      /\ new.idem = old.idem /\ new.event = old.event /\ new.epoch = old.epoch
      /\ new.at \in CachePart \cup {"replayed"} => old.idem \in IdemKeys
      /\ new.at \in PutPart =>
           old.at \in PutPart \/ (old.at = "assess" /\ ~IsErased(Identity(r)))
      /\ new.at = "vault_refused" => old.at = "put" /\ IsErased(Identity(r))
      /\ new.at \in {"touch", "replayed"} =>
           \/ old.at = "touch" /\ new.answer = old.answer
           \/ /\ Cached(old.idem) /\ entries[old.idem].event = old.event
              /\ new.answer = entries[old.idem].by
      /\ new.at \in PutPart \cup Answering \cup {"audit"} =>
           \/ new.answer = r
           \/ /\ old.at \in PutPart \cup Answering \cup {"audit"}
              /\ new.answer = old.answer
      /\ new.at \in Answering => old.at \in Answering \/ r \in records'

(* What it changes besides. *)
Effects(r) ==
  /\ UNCHANGED <<era, restarts, met, tombstoned>>
  /\ records' \in {records, records \cup {r}}
  /\ entries' \in [IdemKeys -> [event : Events \cup {NoEvent}, by : Requests \cup {NoCall}]]
  /\ \A k \in IdemKeys :
       \/ entries'[k] = entries[k]
       \/ entries'[k].by = NoCall
       \/ /\ req[r].at = "store" /\ k = req[r].idem
          /\ entries'[k] = [event |-> req[r].event, by |-> r]
  /\ keys' \in [Identities -> Requests \cup {NoKey}]
  /\ texts' \in [Identities -> Requests \cup {NoKey}]
  /\ \A i \in Identities :
       keys'[i] = keys[i] \/ (req[r].at = "keep" /\ Identity(r) = i)

LEMMA SetFacts ==
  ASSUME req \in [Requests -> Submission], NEW r \in Requests,
         NEW new \in Submission, req' = [req EXCEPT ![r] = new]
  PROVE  /\ req' \in [Requests -> Submission]
         /\ \A q \in Requests \ {r} : req'[q] = req[q]
         /\ req'[r] = new
  OBVIOUS

(* A record with another step is still a submission. *)
LEMMA GotoFacts ==
  ASSUME req \in [Requests -> Submission], NEW r \in Requests, NEW step \in Steps,
         Goto(r, step)
  PROVE  LET old == req[r]
             new == req'[r]
         IN  /\ req' \in [Requests -> Submission]
             /\ \A q \in Requests \ {r} : req'[q] = req[q]
             /\ new.at = step /\ new.idem = old.idem /\ new.event = old.event
             /\ new.epoch = old.epoch /\ new.answer = old.answer
             /\ new.scored = old.scored /\ new.stored = old.stored
             /\ new.vaulted = old.vaulted /\ new.vaultKey = old.vaultKey
<1> DEFINE new == [req[r] EXCEPT !.at = step]
<1>1. req[r] \in Submission
  OBVIOUS
<1>2. new \in Submission
  BY <1>1 DEF Submission
<1>3. req' = [req EXCEPT ![r] = new]
  BY DEF Goto, Set
<1>4. /\ new.at = step /\ new.idem = req[r].idem /\ new.event = req[r].event
      /\ new.epoch = req[r].epoch /\ new.answer = req[r].answer
      /\ new.scored = req[r].scored /\ new.stored = req[r].stored
      /\ new.vaulted = req[r].vaulted /\ new.vaultKey = req[r].vaultKey
  BY <1>1 DEF Submission
<1> HIDE DEF new
<1> QED BY <1>2, <1>3, <1>4, SetFacts

LEMMA OldFacts ==
  ASSUME TypeOK, Consistent, NEW r \in Requests, req[r].at # "idle"
  PROVE  /\ req \in [Requests -> Submission] /\ req[r] \in Submission
         /\ req[r].event \in Events /\ Identity(r) \in Identities
         /\ req[r].idem \in IdemKeys \cup {NoIdemKey}
         /\ req[r].vaultKey \in Requests \cup {NoKey}
         /\ req[r].answer \in Requests \cup {NoCall}
         /\ req[r].at \in CachePart => req[r].idem \in IdemKeys
BY EventsAssumption DEF TypeOK, Consistent, Submission, Identity

LEMMA LookMoves ==
  ASSUME TypeOK, Consistent, NEW r \in Requests, Look(r)
  PROVE  Moves(r) /\ Effects(r)
<1> DEFINE old == req[r]
           entry == entries[old.idem]
           taken == [old EXCEPT !.at = "touch", !.answer = entry.by]
<1>1. /\ req \in [Requests -> Submission] /\ old \in Submission
      /\ old.idem \in IdemKeys /\ old.at = "look"
  BY OldFacts DEF Look, At, CachePart
<1>2. Effects(r)
  BY DEF Look, Effects, TypeOK, vault, cache
<1>3. entry.by \in Requests \cup {NoCall}
  BY <1>1 DEF TypeOK
<1>4. /\ taken \in Submission /\ taken.at = "touch" /\ taken.answer = entry.by
      /\ taken.idem = old.idem /\ taken.event = old.event /\ taken.epoch = old.epoch
  BY <1>1, <1>3 DEF Submission, Steps, CachePart
<1>5. CASE Goto(r, "assess") \/ Goto(r, "conflict")
  BY <1>1, <1>2, <1>5, GotoFacts DEF Moves, Steps, CachePart, PutPart, Answering, Through
<1>6. CASE Set(r, taken) /\ Cached(old.idem) /\ entry.event = old.event
  <2> HIDE DEF taken
  <2>1. /\ req' \in [Requests -> Submission]
        /\ \A q \in Requests \ {r} : req'[q] = req[q]
        /\ req'[r] = taken
    BY <1>1, <1>4, <1>6, SetFacts DEF Set
  <2> QED BY <1>1, <1>2, <1>4, <1>6, <2>1 DEF Moves, CachePart, PutPart, Answering, Through
<1> QED BY <1>5, <1>6 DEF Look

LEMMA CacheStepMoves ==
  ASSUME TypeOK, Consistent, NEW r \in Requests,
         Touch(r) \/ Bump(r) \/ Measure(r) \/ Evict(r)
  PROVE  Moves(r) /\ Effects(r)
<1> DEFINE old == req[r]
<1>1. /\ req \in [Requests -> Submission]
      /\ old.idem \in IdemKeys /\ old.at \in {"touch", "bump", "measure", "evict"}
  BY OldFacts DEF Touch, Bump, Measure, Evict, At, CachePart
<1>2. \/ old.at = "touch" /\ (Goto(r, "replayed") \/ Goto(r, "missed"))
      \/ /\ old.at \in Answering
         /\ Goto(r, "measure") \/ Goto(r, "evict") \/ Goto(r, "answered") \/ Goto(r, "missed")
  BY DEF Touch, Bump, Measure, Evict, MoveToEnd, At, Answering
<1>3. Moves(r)
  BY <1>1, <1>2, GotoFacts DEF Moves, Steps, CachePart, PutPart, Answering, Through
<1>4. /\ entries \in [IdemKeys -> [event : Events \cup {NoEvent}, by : Requests \cup {NoCall}]]
      /\ Absent \in [event : Events \cup {NoEvent}, by : Requests \cup {NoCall}]
      /\ Absent.by = NoCall
  BY DEF TypeOK, Absent
<1>5. \/ UNCHANGED entries
      \/ entries' = [entries EXCEPT ![Head(order)] = Absent]
  BY DEF Touch, Bump, Measure, Evict, MoveToEnd, cache
<1>6. UNCHANGED <<vault, records, era, restarts, met>>
  BY DEF Touch, Bump, Measure, Evict, MoveToEnd
<1>7. Effects(r)
  <2> HIDE DEF old
  <2>1. /\ entries' \in [IdemKeys -> [event : Events \cup {NoEvent}, by : Requests \cup {NoCall}]]
        /\ \A k \in IdemKeys : entries'[k] = entries[k] \/ entries'[k].by = NoCall
    BY <1>4, <1>5
  <2> QED BY <1>6, <2>1 DEF Effects, TypeOK, vault
<1> QED BY <1>3, <1>7

LEMMA StoreMoves ==
  ASSUME TypeOK, Consistent, NEW r \in Requests, StoreAnswer(r)
  PROVE  Moves(r) /\ Effects(r)
<1> DEFINE old == req[r]
           new == [old EXCEPT !.at = "bump", !.stored = TRUE]
           entry == [event |-> old.event, by |-> r]
<1>1. /\ req \in [Requests -> Submission] /\ old \in Submission /\ old.event \in Events
      /\ old.idem \in IdemKeys /\ old.at = "store"
  BY OldFacts DEF StoreAnswer, At, CachePart
<1>2. /\ new \in Submission /\ new.at = "bump" /\ new.answer = old.answer
      /\ new.idem = old.idem /\ new.event = old.event /\ new.epoch = old.epoch
  BY <1>1 DEF Submission, Steps, CachePart
<1>3. Moves(r)
  <2> HIDE DEF new
  <2>1. /\ req' \in [Requests -> Submission]
        /\ \A q \in Requests \ {r} : req'[q] = req[q]
        /\ req'[r] = new
    BY <1>1, <1>2, SetFacts DEF StoreAnswer, Set, new
  <2> QED BY <1>1, <1>2, <2>1 DEF Moves, CachePart, PutPart, Answering, Through
<1>4. Effects(r)
  <2>1. /\ entries \in [IdemKeys -> [event : Events \cup {NoEvent}, by : Requests \cup {NoCall}]]
        /\ entry \in [event : Events \cup {NoEvent}, by : Requests \cup {NoCall}]
    BY <1>1 DEF TypeOK
  <2>2. entries' = [entries EXCEPT ![old.idem] = entry]
    BY DEF StoreAnswer
  <2>3. /\ entries' \in [IdemKeys -> [event : Events \cup {NoEvent}, by : Requests \cup {NoCall}]]
        /\ \A k \in IdemKeys : entries'[k] = entries[k] \/ (k = old.idem /\ entries'[k] = entry)
    BY <2>1, <2>2
  <2> QED BY <1>1, <2>3 DEF Effects, TypeOK, StoreAnswer, vault
<1> QED BY <1>3, <1>4

LEMMA AssessMoves ==
  ASSUME TypeOK, Consistent, NEW r \in Requests, Assess(r) \/ AssessRaises(r)
  PROVE  Moves(r) /\ Effects(r)
<1> DEFINE old == req[r]
           scored(step) == [old EXCEPT !.at = step, !.scored = TRUE, !.answer = r]
           failed(w) == [old EXCEPT !.at = "engine_failed", !.scored = w]
<1>1. /\ req \in [Requests -> Submission] /\ old \in Submission /\ old.at = "assess"
  BY OldFacts DEF Assess, AssessRaises, At
<1>2. Effects(r)
  BY DEF Assess, AssessRaises, Effects, TypeOK, vault, cache
<1>3. \A step \in {"audit", "put"} :
        /\ scored(step) \in Submission /\ scored(step).at = step /\ scored(step).answer = r
        /\ scored(step).idem = old.idem /\ scored(step).event = old.event
        /\ scored(step).epoch = old.epoch
  BY <1>1 DEF Submission, Steps, PutPart
<1>4. \A w \in BOOLEAN :
        /\ failed(w) \in Submission /\ failed(w).at = "engine_failed"
        /\ failed(w).idem = old.idem /\ failed(w).event = old.event
        /\ failed(w).epoch = old.epoch
  BY <1>1 DEF Submission, Steps, Through
<1> HIDE DEF scored, failed
<1>5. CASE Assess(r)
  <2>1. PICK step \in {"audit", "put"} :
          /\ req' = [req EXCEPT ![r] = scored(step)]
          /\ step = "put" => ~IsErased(Identity(r))
    BY <1>5 DEF Assess, Set, FoundErased, scored
  <2>2. /\ req' \in [Requests -> Submission]
        /\ \A q \in Requests \ {r} : req'[q] = req[q]
        /\ req'[r] = scored(step)
    BY <1>1, <1>3, <2>1, SetFacts
  <2> QED BY <1>1, <1>2, <1>3, <2>1, <2>2 DEF Moves, CachePart, PutPart, Answering, Through
<1>6. CASE AssessRaises(r)
  <2>1. PICK w \in BOOLEAN : req' = [req EXCEPT ![r] = failed(w)]
    BY <1>6 DEF AssessRaises, Set, failed
  <2>2. /\ req' \in [Requests -> Submission]
        /\ \A q \in Requests \ {r} : req'[q] = req[q]
        /\ req'[r] = failed(w)
    BY <1>1, <1>4, <2>1, SetFacts
  <2> QED BY <1>1, <1>2, <1>4, <2>2 DEF Moves, CachePart, PutPart, Answering, Through
<1> QED BY <1>5, <1>6

LEMMA PutMoves ==
  ASSUME TypeOK, Consistent, NEW r \in Requests,
         PutTest(r) \/ PutGetKey(r) \/ PutStoreKey(r) \/ PutStoreText(r)
  PROVE  Moves(r) /\ Effects(r)
<1> DEFINE old == req[r]
           got == [old EXCEPT !.at = "keep", !.vaultKey = KeyFor(Identity(r), r)]
           done == [old EXCEPT !.at = "audit", !.vaultKey = NoKey, !.vaulted = TRUE]
<1>1. /\ req \in [Requests -> Submission] /\ old \in Submission /\ old.at \in PutPart
      /\ Identity(r) \in Identities /\ old.vaultKey \in Requests \cup {NoKey}
  BY OldFacts DEF PutTest, PutGetKey, PutStoreKey, PutStoreText, At, PutPart
<1>2. CASE PutTest(r)
  <2>1. Effects(r)
    BY <1>2 DEF PutTest, Effects, TypeOK, vault, cache
  <2>2. \/ Goto(r, "vault_refused") /\ IsErased(Identity(r)) /\ old.at = "put"
        \/ Goto(r, "key")
    BY <1>2 DEF PutTest, At
  <2> QED BY <1>1, <2>1, <2>2, GotoFacts DEF Moves, Steps, CachePart, PutPart, Answering, Through
<1>3. CASE PutGetKey(r)
  <2>1. Effects(r)
    BY <1>3 DEF PutGetKey, Effects, TypeOK, vault, cache
  <2>2. KeyFor(Identity(r), r) \in Requests \cup {NoKey}
    BY <1>1 DEF KeyFor, TypeOK
  <2>3. /\ got \in Submission /\ got.at = "keep" /\ got.answer = old.answer
        /\ got.idem = old.idem /\ got.event = old.event /\ got.epoch = old.epoch
    BY <1>1, <2>2 DEF Submission, Steps, PutPart
  <2> HIDE DEF got
  <2>4. /\ req' \in [Requests -> Submission]
        /\ \A q \in Requests \ {r} : req'[q] = req[q]
        /\ req'[r] = got
    BY <1>1, <1>3, <2>3, SetFacts DEF PutGetKey, Set, got
  <2> QED BY <1>1, <2>1, <2>3, <2>4 DEF Moves, CachePart, PutPart, Answering, Through
<1>4. CASE PutStoreKey(r)
  <2>1. /\ Goto(r, "text") /\ old.at = "keep"
        /\ keys' = [keys EXCEPT ![Identity(r)] = old.vaultKey]
        /\ UNCHANGED <<texts, tombstoned, cache, records, era, restarts, met>>
    BY <1>4 DEF PutStoreKey, StoreKey, At
  <2>2. Effects(r)
    BY <1>1, <2>1 DEF Effects, TypeOK, cache
  <2> QED BY <1>1, <2>1, <2>2, GotoFacts DEF Moves, Steps, CachePart, PutPart, Answering, Through
<1>5. CASE PutStoreText(r)
  <2>1. /\ Set(r, done) /\ old.at = "text"
        /\ texts' = [texts EXCEPT ![Identity(r)] = old.vaultKey]
        /\ UNCHANGED <<keys, tombstoned, cache, records, era, restarts, met>>
    BY <1>5 DEF PutStoreText, StoreText, At
  <2>2. Effects(r)
    BY <1>1, <2>1 DEF Effects, TypeOK, cache
  <2>3. /\ done \in Submission /\ done.at = "audit" /\ done.answer = old.answer
        /\ done.idem = old.idem /\ done.event = old.event /\ done.epoch = old.epoch
    BY <1>1 DEF Submission, Steps
  <2> HIDE DEF done
  <2>4. /\ req' \in [Requests -> Submission]
        /\ \A q \in Requests \ {r} : req'[q] = req[q]
        /\ req'[r] = done
    BY <1>1, <2>1, <2>3, SetFacts DEF Set
  <2> QED BY <1>1, <2>2, <2>3, <2>4 DEF Moves, CachePart, PutPart, Answering, Through
<1> QED BY <1>2, <1>3, <1>4, <1>5

LEMMA AuditMoves ==
  ASSUME TypeOK, Consistent, NEW r \in Requests, Audit(r)
  PROVE  Moves(r) /\ Effects(r)
<1>1. /\ req \in [Requests -> Submission] /\ req[r].at = "audit"
      /\ req[r].idem \in IdemKeys \cup {NoIdemKey}
  BY OldFacts DEF Audit, At
<1>2. Effects(r)
  BY DEF Audit, Effects, TypeOK, vault, cache
<1>3. /\ Goto(r, "answered") \/ (Goto(r, "store") /\ req[r].idem # NoIdemKey)
      /\ r \in records'
  BY DEF Audit
<1> QED BY <1>1, <1>2, <1>3, GotoFacts DEF Moves, Steps, CachePart, PutPart, Answering, Through

LEMMA StepMoves ==
  ASSUME TypeOK, Consistent, NEW r \in Requests, ReqStep(r)
  PROVE  Moves(r) /\ Effects(r)
BY LookMoves, CacheStepMoves, StoreMoves, AssessMoves, PutMoves, AuditMoves DEF ReqStep

-----------------------------------------------------------------------------
(* Who has met whom, and who is at work, in a step that lets nobody in.    *)
Onward ==
  /\ UNCHANGED <<restarts, met>>
  /\ \A q \in Requests :
       /\ req'[q].idem = req[q].idem /\ req'[q].event = req[q].event
       /\ req'[q].epoch = req[q].epoch
       /\ req'[q].at = "idle" <=> req[q].at = "idle"
       /\ req'[q].at \notin Through \cup {"idle"} => req[q].at \notin Through \cup {"idle"}
  /\ \A d \in Erasures :
       /\ era'[d].identity = era[d].identity /\ era'[d].epoch = era[d].epoch
       /\ era'[d].at = "idle" <=> era[d].at = "idle"
       /\ era'[d].at \notin {"idle", "erased", "killed"}
            => era[d].at \notin {"idle", "erased", "killed"}

LEMMA OnwardKeeps ==
  ASSUME Onward, Epochs, Together
  PROVE  /\ Epochs' /\ Together'
         /\ \A c, o \in Calls : Overlap(c, o)' <=> Overlap(c, o)
         /\ \A q \in Requests : Identity(q)' = Identity(q)
         /\ \A q \in Requests, i \in Identities : Concerns(q, i)' <=> Concerns(q, i)
<1>1. \A c \in Calls : (InFlight(c)' => InFlight(c)) /\ (Idle(c)' <=> Idle(c))
  BY DEF Onward, InFlight, Idle, At, EraAt, Calls
<1>2. \A c, o \in Calls : Overlap(c, o)' <=> Overlap(c, o)
  BY DEF Onward, Overlap
<1>3. Epochs'
  BY <1>1 DEF Onward, Epochs, Now, Calls
<1>4. Together'
  BY <1>1, <1>2 DEF Together
<1>5. \A q \in Requests : Identity(q)' = Identity(q)
  BY DEF Onward, Identity
<1>6. \A q \in Requests, i \in Identities : Concerns(q, i)' <=> Concerns(q, i)
  BY DEF Onward, Concerns, At
<1> QED BY <1>2, <1>3, <1>4, <1>5, <1>6

LEMMA ReqStepKeeps ==
  ASSUME IInv, NEW r \in Requests, ReqStep(r)
  PROVE  IInv'
<1> USE CallsAssumption
<1>1. Moves(r) /\ Effects(r)
  BY StepMoves DEF IInv
<1>2. Onward
  BY <1>1 DEF Moves, Effects, Onward, Through
<1>3. /\ Epochs' /\ Together'
      /\ \A c, o \in Calls : Overlap(c, o)' <=> Overlap(c, o)
      /\ \A q \in Requests : Identity(q)' = Identity(q)
      /\ \A q \in Requests, i \in Identities : Concerns(q, i)' <=> Concerns(q, i)
  BY <1>2, OnwardKeeps DEF IInv
<1>4. /\ \A q \in Requests \ {r} : req'[q] = req[q]
      /\ \A q \in Requests : /\ req'[q].idem = req[q].idem /\ req'[q].event = req[q].event
                             /\ req'[q].epoch = req[q].epoch
                             /\ req'[q].at = "idle" <=> req[q].at = "idle"
      /\ UNCHANGED <<era, restarts, met, tombstoned>>
      /\ records \subseteq records'
  BY <1>1, <1>2 DEF Effects, Moves, Onward
<1>5. \A d \in Erasures : (Barred(d)' <=> Barred(d)) /\ (EraAt(d, "bar")' <=> EraAt(d, "bar"))
  BY <1>4 DEF Barred, EraAt
<1>6. TypeOK'
  BY <1>1 DEF IInv, TypeOK, Moves, Effects, Calls
<1>7. Consistent'
  BY <1>1 DEF IInv, Consistent, Moves
<1>8. \A a \in Requests : \A k, e : Answer(a, k, e) => Answer(a, k, e)'
  BY <1>4 DEF Answer
<1>9. CacheHonest'
  <2> SUFFICES ASSUME NEW k \in IdemKeys, Cached(k)'
               PROVE  Answer(entries[k].by, k, entries[k].event)' /\ entries'[k].by \in records'
    BY DEF CacheHonest
  <2>1. CASE entries'[k] = entries[k]
    <3>1. Cached(k)
      BY <2>1 DEF Cached
    <3>2. Answer(entries[k].by, k, entries[k].event) /\ entries[k].by \in records
      BY <3>1 DEF IInv, CacheHonest
    <3> QED BY <1>4, <2>1, <3>2 DEF Answer
  <2>2. CASE /\ req[r].at = "store" /\ k = req[r].idem
             /\ entries'[k] = [event |-> req[r].event, by |-> r]
    <3>1. r \in records
      BY <2>2 DEF IInv, Recorded, Epochs, InFlight, Through
    <3>2. req'[r].at # "idle"
      BY <1>1 DEF Moves
    <3> QED BY <1>4, <2>2, <3>1, <3>2 DEF Answer
  <2> QED BY <1>1, <2>1, <2>2 DEF Effects, Cached
<1>10. TakenHonest'
  <2> SUFFICES ASSUME NEW q \in Requests, req'[q].at \in {"touch", "replayed"}
               PROVE  /\ Answer(req[q].answer, req[q].idem, req[q].event)'
                      /\ Now(q)' => req'[q].answer \in records'
    BY DEF TakenHonest
  <2>1. CASE req[q].at \in {"touch", "replayed"} /\ req'[q].answer = req[q].answer
    <3>1. /\ Answer(req[q].answer, req[q].idem, req[q].event)
          /\ Now(q) => req[q].answer \in records
      BY <2>1 DEF IInv, TakenHonest
    <3> QED BY <1>4, <2>1, <3>1 DEF Answer, Now
  <2>2. CASE /\ q = r /\ Cached(req[r].idem) /\ entries[req[r].idem].event = req[r].event
             /\ req'[r].answer = entries[req[r].idem].by
    <3>1. req[r].idem \in IdemKeys
      BY <1>1, <2>2 DEF Moves, CachePart
    <3>2. /\ Answer(entries[req[r].idem].by, req[r].idem, req[r].event)
          /\ entries[req[r].idem].by \in records
      BY <2>2, <3>1 DEF IInv, CacheHonest
    <3> QED BY <1>4, <2>2, <3>2 DEF Answer
  <2> QED BY <1>1, <1>4, <2>1, <2>2 DEF Moves
<1>11. Recorded'
  BY <1>1, <1>4 DEF IInv, Recorded, Moves, Answering, PutPart, Now
<1>12. Tombstones'
  BY <1>4, <1>5 DEF IInv, Tombstones
<1>13. PutsMet'
  <2> SUFFICES ASSUME NEW q \in Requests, NEW d \in Erasures, req'[q].at \in PutPart,
                      Barred(d), era[d].identity = Identity(q)
               PROVE  Overlap(q, d)
    BY <1>3, <1>4, <1>5 DEF PutsMet, Calls
  <2>1. Identity(q) \in tombstoned
    BY DEF IInv, Tombstones
  <2>2. req[q].at \in PutPart
    BY <1>1, <1>4, <2>1 DEF Moves, IsErased
  <2> QED BY <2>2 DEF IInv, PutsMet
<1>14. RefusedMet'
  <2> SUFFICES ASSUME NEW q \in Requests, req'[q].at = "vault_refused"
               PROVE  \E d \in Erasures : era[d].identity = Identity(q) /\ Overlap(q, d)
    BY <1>3, <1>4 DEF RefusedMet, At, Calls
  <2>1. CASE req[q].at = "vault_refused"
    BY <2>1 DEF IInv, RefusedMet, At
  <2>2. CASE q = r /\ req[r].at = "put" /\ IsErased(Identity(r))
    <3>1. PICK d \in Erasures : Barred(d) /\ era[d].identity = Identity(r)
      BY <2>2 DEF IInv, Tombstones, IsErased
    <3> QED BY <2>2, <3>1 DEF IInv, PutsMet, PutPart
  <2> QED BY <1>1, <1>4, <2>1, <2>2 DEF Moves
<1>15. Destroyed'
  <2> SUFFICES ASSUME NEW d \in Erasures, Barred(d) \/ EraAt(d, "bar"),
                      keys'[era[d].identity] # NoKey
               PROVE  \E q \in Requests : Concerns(q, era[d].identity) /\ Overlap(q, d)
    BY <1>3, <1>4, <1>5 DEF Destroyed, HasKey, Calls, IInv, TypeOK, Erasure
  <2>1. era[d].identity \in Identities
    BY DEF IInv, TypeOK, Erasure
  <2>2. CASE keys'[era[d].identity] = keys[era[d].identity]
    BY <2>2 DEF IInv, Destroyed, HasKey
  <2>3. CASE req[r].at = "keep" /\ Identity(r) = era[d].identity
    <3>1. Concerns(r, era[d].identity)
      BY <2>3 DEF Concerns, Identity, At
    <3>2. CASE Barred(d)
      BY <2>3, <3>1, <3>2 DEF IInv, PutsMet, PutPart
    <3>3. CASE EraAt(d, "bar")
      <4>1. InFlight(r) /\ InFlight(d) /\ r # d
        BY <2>3, <3>3 DEF InFlight, EraAt, Through
      <4> QED BY <3>1, <4>1 DEF IInv, Together, Calls
    <3> QED BY <3>2, <3>3
  <2> QED BY <1>1, <2>1, <2>2, <2>3 DEF Effects
<1> QED BY <1>3, <1>6, <1>7, <1>9, <1>10, <1>11, <1>12, <1>13, <1>14, <1>15 DEF IInv

-----------------------------------------------------------------------------
(* The steps of an erasure that came in. *)
EraStep(d) == EraseDestroyKey(d) \/ EraseTombstone(d) \/ EraseAudit(d)

LEMMA EraStepKeeps ==
  ASSUME IInv, NEW d \in Erasures, EraStep(d)
  PROVE  IInv'
<1> USE CallsAssumption
<1> DEFINE i == era[d].identity
<1>1. /\ era \in [Erasures -> Erasure] /\ i \in Identities
      /\ keys \in [Identities -> Requests \cup {NoKey}]
  BY DEF IInv, TypeOK, Erasure
<1>2. \/ /\ era[d].at = "destroy" /\ era' = [era EXCEPT ![d].at = "bar"]
         /\ keys' = [keys EXCEPT ![i] = NoKey] /\ UNCHANGED <<tombstoned, records>>
      \/ /\ era[d].at = "bar" /\ era' = [era EXCEPT ![d].at = "audit"]
         /\ tombstoned' = tombstoned \cup {i} /\ UNCHANGED <<keys, records>>
      \/ /\ era[d].at = "audit" /\ era' = [era EXCEPT ![d].at = "erased"]
         /\ records' = records \cup {d} /\ UNCHANGED <<keys, tombstoned>>
  BY DEF EraStep, EraseDestroyKey, EraseTombstone, EraseAudit, EraAt, EraGoto,
         DestroyKey, StoreKey, Tombstone, vault
<1>3. UNCHANGED <<texts, entries, req, restarts, met>>
  BY DEF EraStep, EraseDestroyKey, EraseTombstone, EraseAudit,
         DestroyKey, StoreKey, Tombstone, vault, cache
<1>4. /\ era' \in [Erasures -> Erasure]
      /\ \A o \in Erasures \ {d} : era'[o] = era[o]
      /\ era'[d].identity = i /\ era'[d].epoch = era[d].epoch
      /\ era[d].at = "destroy" => era'[d].at = "bar"
      /\ era[d].at = "bar" => era'[d].at = "audit"
      /\ era[d].at = "audit" => era'[d].at = "erased"
      /\ era[d].at \in {"destroy", "bar", "audit"}
  BY <1>1, <1>2 DEF Erasure, EraSteps
<1>5. Onward
  BY <1>3, <1>4 DEF Onward
<1>6. /\ Epochs' /\ Together'
      /\ \A c, o \in Calls : Overlap(c, o)' <=> Overlap(c, o)
      /\ \A q \in Requests : Identity(q)' = Identity(q)
      /\ \A q \in Requests, j \in Identities : Concerns(q, j)' <=> Concerns(q, j)
  BY <1>5, OnwardKeeps DEF IInv
<1>7. /\ \A o \in Erasures : era'[o].identity = era[o].identity
      /\ \A o \in Erasures : Barred(o) => Barred(o)'
      /\ \A o \in Erasures : Barred(o)' => Barred(o) \/ (o = d /\ era[d].at = "bar")
      /\ records \subseteq records'
  BY <1>2, <1>3, <1>4 DEF Barred
<1>8. InFlight(d)
  BY <1>4 DEF InFlight
<1>9. TypeOK'
  BY <1>1, <1>2, <1>3, <1>4 DEF IInv, TypeOK, Calls
<1>10. Consistent' /\ CacheHonest' /\ TakenHonest' /\ Recorded'
  BY <1>3, <1>7 DEF IInv, Consistent, CacheHonest, TakenHonest, Recorded, Answer, Cached, Now
<1>11. Tombstones'
  <2>1. \/ era[d].at # "bar" /\ tombstoned' = tombstoned
        \/ era[d].at = "bar" /\ tombstoned' = tombstoned \cup {i}
    BY <1>2
  <2>2. era[d].at = "bar" => Barred(d)'
    BY <1>3, <1>4, <1>8 DEF Barred, IInv, Epochs
  <2> QED BY <1>7, <2>1, <2>2 DEF IInv, Tombstones
<1>12. PutsMet'
  <2> SUFFICES ASSUME NEW q \in Requests, NEW o \in Erasures, req[q].at \in PutPart,
                      Barred(o)', era[o].identity = Identity(q)
               PROVE  Overlap(q, o)
    BY <1>3, <1>6, <1>7 DEF PutsMet, Calls
  <2>1. CASE Barred(o)
    BY <2>1 DEF IInv, PutsMet
  <2>2. CASE o = d
    <3>1. InFlight(q) /\ q # d
      BY DEF InFlight, PutPart, Through
    <3> QED BY <1>8, <2>2, <3>1 DEF IInv, Together, Calls
  <2> QED BY <1>7, <2>1, <2>2
<1>13. RefusedMet'
  BY <1>3, <1>6, <1>7 DEF IInv, RefusedMet, At, Calls
<1>14. Destroyed'
  <2> SUFFICES ASSUME NEW o \in Erasures, Barred(o)' \/ EraAt(o, "bar")',
                      keys'[era[o].identity] # NoKey
               PROVE  \E q \in Requests : Concerns(q, era[o].identity) /\ Overlap(q, o)
    BY <1>6, <1>7 DEF Destroyed, HasKey, Calls, IInv, TypeOK, Erasure
  <2>1. /\ era[o].identity \in Identities
        /\ keys'[era[o].identity] = keys[era[o].identity]
    BY <1>1, <1>2 DEF Erasure
  <2>2. Barred(o) \/ EraAt(o, "bar")
    BY <1>1, <1>2, <1>4, <1>7 DEF EraAt
  <2> QED BY <2>1, <2>2 DEF IInv, Destroyed, HasKey
<1> QED BY <1>6, <1>9, <1>10, <1>11, <1>12, <1>13, <1>14 DEF IInv

-----------------------------------------------------------------------------
(* Calls that come in.  What was said of a submission stays true: nobody   *)
(* had met the newcomer, and nothing rests on it.                          *)
LEMMA MeetFacts ==
  ASSUME TypeOK, NEW c \in Calls, Meet(c), Idle(c), Together
  PROVE  /\ met' \in [Calls -> SUBSET Calls]
         /\ \A o \in Calls \ {c} : met'[o] = met[o]
         /\ met'[c] = {o \in Calls : InFlight(o)}
         /\ \A a, b \in Calls \ {c} : Overlap(a, b)' <=> Overlap(a, b)
         /\ \A o \in Calls : Overlap(c, o)' <=> InFlight(o)
         /\ \A o \in Calls : Overlap(o, c)' <=> InFlight(o)
<1>1. /\ met' \in [Calls -> SUBSET Calls]
      /\ \A o \in Calls \ {c} : met'[o] = met[o]
      /\ met'[c] = {o \in Calls : InFlight(o)}
  BY DEF Meet, TypeOK
<1>2. \A o \in Calls : c \notin met[o] /\ ~InFlight(c)
  BY DEF Together, Overlap, Idle, InFlight, At, EraAt, Through, Calls
<1>3. \A a, b \in Calls \ {c} : Overlap(a, b)' <=> Overlap(a, b)
  BY <1>1 DEF Overlap
<1>4. \A o \in Calls : (Overlap(c, o)' <=> InFlight(o)) /\ (Overlap(o, c)' <=> InFlight(o))
  BY <1>1, <1>2 DEF Overlap
<1> QED BY <1>1, <1>3, <1>4

LEMMA EnterKeeps ==
  ASSUME IInv, NEW r \in Requests, NEW s \in Submissions, Enter(r, s[1], s[2])
  PROVE  IInv'
<1> USE CallsAssumption, EventsAssumption
<1> DEFINE new == [NoRequest EXCEPT !.at = IF s[1] = NoIdemKey THEN "assess" ELSE "look",
                                    !.idem = s[1], !.event = s[2], !.epoch = restarts]
<1>1. /\ req \in [Requests -> Submission] /\ restarts \in Nat
      /\ s[1] \in IdemKeys \cup {NoIdemKey} /\ s[2] \in Events
  BY DEF IInv, TypeOK
<1>2. /\ new \in Submission /\ new.at \in {"assess", "look"}
      /\ new.at = "look" => s[1] \in IdemKeys
      /\ new.idem = s[1] /\ new.event = s[2] /\ new.epoch = restarts
  BY <1>1 DEF Submission, NoRequest, Steps, CachePart
<1>3. /\ req[r].at = "idle" /\ req' = [req EXCEPT ![r] = new] /\ Meet(r)
      /\ UNCHANGED <<keys, texts, tombstoned, entries, records, era, restarts>>
  BY DEF Enter, Set, At, vault, cache
<1> HIDE DEF new
<1>4. /\ req' \in [Requests -> Submission]
      /\ \A q \in Requests \ {r} : req'[q] = req[q]
      /\ req'[r] = new
  BY <1>1, <1>2, <1>3, SetFacts
<1>5. Idle(r) /\ Together /\ TypeOK /\ r \in Calls
  BY <1>3 DEF Idle, At, IInv, Calls
<1>6. /\ met' \in [Calls -> SUBSET Calls]
      /\ \A a, b \in Calls \ {r} : Overlap(a, b)' <=> Overlap(a, b)
      /\ \A o \in Calls : (Overlap(r, o)' <=> InFlight(o)) /\ (Overlap(o, r)' <=> InFlight(o))
  BY <1>3, <1>5, MeetFacts
<1>7. /\ \A c \in Calls \ {r} : (InFlight(c)' <=> InFlight(c)) /\ (Idle(c)' <=> Idle(c))
      /\ InFlight(r)' /\ ~Idle(r)' /\ ~InFlight(r)
  BY <1>2, <1>3, <1>4 DEF InFlight, Idle, At, EraAt, Through, Calls
<1>8. TypeOK'
  BY <1>1, <1>3, <1>4, <1>6 DEF IInv, TypeOK
<1>9. Consistent'
  BY <1>2, <1>4 DEF IInv, Consistent, CachePart
<1>10. Epochs'
  BY <1>1, <1>2, <1>3, <1>4, <1>7 DEF IInv, Epochs, Now, Calls
<1>11. Together'
  <2> SUFFICES ASSUME NEW c \in Calls, NEW o \in Calls
               PROVE  /\ c # o /\ InFlight(c)' /\ InFlight(o)' => Overlap(c, o)'
                      /\ Idle(c)' => ~Overlap(c, o)'
    BY DEF Together
  <2>1. Idle(c) => ~InFlight(c)
    BY DEF Idle, InFlight, At, EraAt, Through
  <2> QED BY <1>6, <1>7, <2>1 DEF IInv, Together
<1>12. /\ \A a \in Requests : \A k, e : Answer(a, k, e) => Answer(a, k, e)'
       /\ \A q \in Requests \ {r} : Identity(q)' = Identity(q) /\ (Now(q)' <=> Now(q))
       /\ \A d \in Erasures : Barred(d)' <=> Barred(d)
  BY <1>3, <1>4 DEF Answer, Identity, Now, Barred
<1>13. CacheHonest'
  BY <1>3, <1>12 DEF IInv, CacheHonest, Cached, Answer
<1>14. TakenHonest' /\ Recorded'
  BY <1>2, <1>3, <1>4, <1>12 DEF IInv, TakenHonest, Recorded, PutPart, Answer
<1>15. Tombstones'
  BY <1>3, <1>12 DEF IInv, Tombstones
<1>16. PutsMet' /\ RefusedMet'
  BY <1>2, <1>3, <1>4, <1>6, <1>12 DEF IInv, PutsMet, RefusedMet, At, PutPart, Calls
<1>17. Destroyed'
  <2> SUFFICES ASSUME NEW d \in Erasures, Barred(d) \/ EraAt(d, "bar"), HasKey(era[d].identity)
               PROVE  \E q \in Requests : Concerns(q, era[d].identity)' /\ Overlap(q, d)'
    BY <1>3, <1>12 DEF Destroyed, EraAt, HasKey
  <2>1. PICK q \in Requests : Concerns(q, era[d].identity) /\ Overlap(q, d)
    BY DEF IInv, Destroyed
  <2>2. q # r
    BY <1>3, <2>1 DEF Concerns, At
  <2> QED BY <1>3, <1>4, <1>6, <2>1, <2>2 DEF Concerns, At, Calls
<1> QED BY <1>8, <1>9, <1>10, <1>11, <1>13, <1>14, <1>15, <1>16, <1>17 DEF IInv

LEMMA EraseEnterKeeps ==
  ASSUME IInv, NEW d \in Erasures, NEW i \in Identities, EraseEnter(d, i)
  PROVE  IInv'
<1> USE CallsAssumption
<1> DEFINE new == [at |-> "destroy", identity |-> i, epoch |-> restarts]
<1>1. /\ era[d].at = "idle" /\ era' = [era EXCEPT ![d] = new] /\ Meet(d)
      /\ UNCHANGED <<keys, texts, tombstoned, entries, records, req, restarts>>
  BY DEF EraseEnter, EraAt, vault, cache
<1>2. /\ era \in [Erasures -> Erasure] /\ restarts \in Nat /\ new \in Erasure
  BY DEF IInv, TypeOK, Erasure, EraSteps
<1>3. /\ era' \in [Erasures -> Erasure]
      /\ \A o \in Erasures \ {d} : era'[o] = era[o]
      /\ era'[d] = new
  BY <1>1, <1>2
<1>4. Idle(d) /\ Together /\ TypeOK /\ d \in Calls /\ d \notin Requests
  BY <1>1 DEF Idle, EraAt, IInv, Calls
<1>5. /\ met' \in [Calls -> SUBSET Calls]
      /\ \A a, b \in Calls \ {d} : Overlap(a, b)' <=> Overlap(a, b)
      /\ \A o \in Calls : (Overlap(d, o)' <=> InFlight(o)) /\ (Overlap(o, d)' <=> InFlight(o))
  BY <1>1, <1>4, MeetFacts
<1>6. /\ \A c \in Calls \ {d} : (InFlight(c)' <=> InFlight(c)) /\ (Idle(c)' <=> Idle(c))
      /\ InFlight(d)' /\ ~Idle(d)' /\ ~InFlight(d)
  BY <1>1, <1>3, <1>4 DEF InFlight, Idle, At, EraAt, Calls
<1>7. /\ \A o \in Erasures : Barred(o)' <=> Barred(o)
      /\ ~Barred(d) /\ ~EraAt(d, "bar")'
  BY <1>1, <1>3 DEF Barred, EraAt
<1>8. TypeOK'
  BY <1>1, <1>3, <1>5 DEF IInv, TypeOK
<1>9. Consistent' /\ CacheHonest' /\ TakenHonest' /\ Recorded'
  BY <1>1 DEF IInv, Consistent, CacheHonest, TakenHonest, Recorded, Answer, Cached, Now
<1>10. Epochs'
  BY <1>1, <1>2, <1>3, <1>6 DEF IInv, Epochs, Now, Calls
<1>11. Together'
  <2> SUFFICES ASSUME NEW c \in Calls, NEW o \in Calls
               PROVE  /\ c # o /\ InFlight(c)' /\ InFlight(o)' => Overlap(c, o)'
                      /\ Idle(c)' => ~Overlap(c, o)'
    BY DEF Together
  <2>1. Idle(c) => ~InFlight(c)
    BY DEF Idle, InFlight, At, EraAt, Through
  <2> QED BY <1>5, <1>6, <2>1 DEF IInv, Together
<1>12. Tombstones'
  BY <1>1, <1>3, <1>7 DEF IInv, Tombstones
<1>13. PutsMet'
  BY <1>1, <1>3, <1>4, <1>5, <1>7 DEF IInv, PutsMet, Identity, Calls
<1>14. RefusedMet'
  <2> SUFFICES ASSUME NEW q \in Requests, At(q, "vault_refused")
               PROVE  \E o \in Erasures : era'[o].identity = Identity(q) /\ Overlap(q, o)'
    BY <1>1 DEF RefusedMet, At, Identity
  <2>1. PICK o \in Erasures : era[o].identity = Identity(q) /\ Overlap(q, o)
    BY DEF IInv, RefusedMet
  <2>2. o # d
    BY <1>4, <2>1 DEF Together, Overlap, Calls
  <2> QED BY <1>3, <1>4, <1>5, <2>1, <2>2 DEF Calls
<1>15. Destroyed'
  <2> SUFFICES ASSUME NEW o \in Erasures \ {d}, Barred(o) \/ EraAt(o, "bar"),
                      HasKey(era[o].identity)
               PROVE  \E q \in Requests : Concerns(q, era[o].identity) /\ Overlap(q, o)'
    BY <1>1, <1>3, <1>7 DEF Destroyed, EraAt, HasKey, Concerns, At
  <2>1. PICK q \in Requests : Concerns(q, era[o].identity) /\ Overlap(q, o)
    BY DEF IInv, Destroyed
  <2> QED BY <1>4, <1>5, <2>1 DEF Calls
<1> QED BY <1>8, <1>9, <1>10, <1>11, <1>12, <1>13, <1>14, <1>15 DEF IInv

LEMMA RestartKeeps ==
  ASSUME IInv, Restart
  PROVE  IInv'
<1> USE CallsAssumption
<1>1. /\ restarts' = restarts + 1 /\ restarts \in Nat /\ UNCHANGED met
      /\ keys' = [i \in Identities |-> NoKey] /\ texts' = [i \in Identities |-> NoKey]
      /\ tombstoned' = {} /\ records' = {}
      /\ entries' = [k \in IdemKeys |-> Absent]
      /\ req \in [Requests -> Submission] /\ era \in [Erasures -> Erasure]
  BY DEF Restart, IInv, TypeOK
<1>2. \A r \in Requests :
        LET killed == [req[r] EXCEPT !.at = "killed"]
        IN  /\ killed \in Submission /\ killed.at = "killed" /\ killed.idem = req[r].idem
            /\ killed.event = req[r].event /\ killed.epoch = req[r].epoch
            /\ killed.answer = req[r].answer
            /\ req'[r] = IF InFlight(r) THEN killed ELSE req[r]
  <2> SUFFICES ASSUME NEW r \in Requests
               PROVE  LET killed == [req[r] EXCEPT !.at = "killed"]
                      IN  /\ killed \in Submission /\ killed.at = "killed"
                          /\ killed.idem = req[r].idem /\ killed.event = req[r].event
                          /\ killed.epoch = req[r].epoch /\ killed.answer = req[r].answer
                          /\ req'[r] = IF InFlight(r) THEN killed ELSE req[r]
    OBVIOUS
  <2>1. req[r] \in Submission
    BY <1>1
  <2>2. req'[r] = IF InFlight(r) THEN [req[r] EXCEPT !.at = "killed"] ELSE req[r]
    BY DEF Restart
  <2> QED BY <2>1, <2>2 DEF Submission, Steps, Through
<1>3. \A r \in Requests :
        /\ req'[r] \in Submission
        /\ req'[r].idem = req[r].idem /\ req'[r].event = req[r].event
        /\ req'[r].epoch = req[r].epoch /\ req'[r].answer = req[r].answer
        /\ req'[r].at = "killed" \/ (req'[r].at = req[r].at /\ req[r].at \in Through \cup {"idle"})
        /\ req'[r].at = "idle" <=> req[r].at = "idle"
        /\ ~InFlight(r)' /\ ~Now(r)'
  <2> SUFFICES ASSUME NEW r \in Requests
               PROVE  /\ req'[r] \in Submission
                      /\ req'[r].idem = req[r].idem /\ req'[r].event = req[r].event
                      /\ req'[r].epoch = req[r].epoch /\ req'[r].answer = req[r].answer
                      /\ \/ req'[r].at = "killed"
                         \/ req'[r].at = req[r].at /\ req[r].at \in Through \cup {"idle"}
                      /\ req'[r].at = "idle" <=> req[r].at = "idle"
                      /\ ~InFlight(r)' /\ ~Now(r)'
    OBVIOUS
  <2>1. req[r] \in Submission /\ req[r].epoch \in Nat /\ req[r].epoch <= restarts
    BY <1>1 DEF Submission, IInv, Epochs
  <2>2. req'[r].epoch # restarts'
    <3>1. req'[r].epoch = req[r].epoch
      BY <1>2
    <3> QED BY <1>1, <2>1, <3>1
  <2>3. CASE InFlight(r)
    BY <1>2, <2>2, <2>3 DEF InFlight, Now, Through
  <2>4. CASE ~InFlight(r)
    <3>1. req'[r] = req[r]
      BY <1>2, <2>4
    <3> QED BY <2>1, <2>2, <2>4, <3>1 DEF InFlight, Now
  <2> QED BY <2>3, <2>4
<1>4. req' \in [Requests -> Submission]
  BY <1>3 DEF Restart
<1>5. \A d \in Erasures :
        /\ era'[d] \in Erasure
        /\ era'[d].identity = era[d].identity /\ era'[d].epoch = era[d].epoch
        /\ era'[d].at \in {"killed", "idle", "erased"}
        /\ era'[d].at = "idle" <=> era[d].at = "idle"
        /\ ~InFlight(d)' /\ ~Barred(d)' /\ ~EraAt(d, "bar")'
  <2> SUFFICES ASSUME NEW d \in Erasures
               PROVE  /\ era'[d] \in Erasure
                      /\ era'[d].identity = era[d].identity /\ era'[d].epoch = era[d].epoch
                      /\ era'[d].at \in {"killed", "idle", "erased"}
                      /\ era'[d].at = "idle" <=> era[d].at = "idle"
                      /\ ~InFlight(d)' /\ ~Barred(d)' /\ ~EraAt(d, "bar")'
    OBVIOUS
  <2>1. era[d] \in Erasure /\ era[d].epoch \in Nat /\ era[d].epoch <= restarts
    BY <1>1 DEF Erasure, IInv, Epochs
  <2>2. era'[d] = IF InFlight(d) THEN [era[d] EXCEPT !.at = "killed"] ELSE era[d]
    BY DEF Restart
  <2> QED BY <1>1, <2>1, <2>2 DEF InFlight, Barred, EraAt, Erasure, EraSteps
<1>6. era' \in [Erasures -> Erasure]
  BY <1>5 DEF Restart
<1>7. TypeOK'
  BY <1>1, <1>4, <1>6 DEF IInv, TypeOK, Absent
<1>8. Consistent'
  BY <1>3 DEF IInv, Consistent, Through, CachePart
<1>9. Epochs'
  BY <1>1, <1>3, <1>5 DEF IInv, Epochs, TypeOK, Submission, Erasure
<1>10. Together'
  BY <1>1, <1>3, <1>5 DEF IInv, Together, Overlap, Idle, At, EraAt, Calls
<1>11. CacheHonest'
  BY <1>1 DEF CacheHonest, Cached, Absent
<1>12. TakenHonest'
  BY <1>3 DEF IInv, TakenHonest, Answer, Through
<1>13. Recorded'
  BY <1>3 DEF IInv, Recorded, PutPart, Through
<1>14. Tombstones' /\ PutsMet' /\ Destroyed'
  BY <1>1, <1>5 DEF Tombstones, PutsMet, Destroyed
<1>15. RefusedMet'
  BY <1>1, <1>3, <1>5 DEF IInv, RefusedMet, At, Identity, Overlap
<1> QED BY <1>7, <1>8, <1>9, <1>10, <1>11, <1>12, <1>13, <1>14, <1>15 DEF IInv

-----------------------------------------------------------------------------
LEMMA Initially == Init => IInv
<1> SUFFICES ASSUME Init PROVE IInv
  OBVIOUS
<1> USE CallsAssumption, EventsAssumption
<1>1. /\ NoRequest \in Submission /\ NoRequest.at = "idle" /\ NoRequest.epoch = 0
  BY DEF NoRequest, Submission, Steps
<1>2. TypeOK
  <2>1. NoErasure \in Erasure
    BY DEF NoErasure, Erasure, EraSteps
  <2> QED BY <1>1, <2>1 DEF Init, VaultInit, TypeOK, Absent, Calls
<1>3. /\ \A r \in Requests : req[r] = NoRequest
      /\ \A d \in Erasures : era[d].at = "idle" /\ era[d].epoch = 0
      /\ tombstoned = {} /\ restarts = 0 /\ \A k \in IdemKeys : ~Cached(k)
  BY DEF Init, VaultInit, NoErasure, Cached, Absent
<1>4. Consistent /\ Epochs /\ CacheHonest /\ TakenHonest /\ Recorded
  BY <1>1, <1>3 DEF Consistent, Epochs, InFlight, CacheHonest, TakenHonest, Recorded,
                    CachePart, PutPart, Through
<1>5. Together
  BY <1>1, <1>3 DEF Init, Together, InFlight, Overlap, Calls
<1>6. Tombstones /\ PutsMet /\ RefusedMet /\ Destroyed
  BY <1>1, <1>3 DEF Tombstones, PutsMet, RefusedMet, Destroyed, Barred, At, EraAt, PutPart
<1> QED BY <1>2, <1>4, <1>5, <1>6 DEF IInv

LEMMA Stuttering == IInv /\ UNCHANGED vars => IInv'
BY DEF vars, IInv, TypeOK, Consistent, Epochs, Together, CacheHonest, TakenHonest, Recorded,
       Tombstones, PutsMet, RefusedMet, Destroyed, Idle, At, EraAt, InFlight, Now, Overlap,
       Answer, Cached, Barred, Identity, HasKey, IsErased, Concerns

THEOREM Invariance == Spec => []IInv
<1>1. IInv /\ Next => IInv'
  <2> SUFFICES ASSUME IInv, Next PROVE IInv'
    OBVIOUS
  <2>1. CASE \E r \in Requests : ReqStep(r)
    BY <2>1, ReqStepKeeps
  <2>2. CASE \E r \in Requests, s \in Submissions : Enter(r, s[1], s[2])
    BY <2>2, EnterKeeps
  <2>3. CASE \E d \in Erasures : EraStep(d)
    BY <2>3, EraStepKeeps
  <2>4. CASE \E d \in Erasures, i \in Identities : EraseEnter(d, i)
    BY <2>4, EraseEnterKeeps
  <2>5. CASE Restart
    BY <2>5, RestartKeeps
  <2> QED BY <2>1, <2>2, <2>3, <2>4, <2>5 DEF Next, ReqStep, EraStep
<1> QED BY <1>1, Initially, Stuttering, PTL DEF Spec

(* Every variable keeps its range. *)
THEOREM TypeCorrect == Spec => []TypeOK
<1>1. IInv => TypeOK
  BY DEF IInv
<1> QED BY <1>1, Invariance, PTL

(* Whatever the threads and the evictions do, the answer a retry gets was  *)
(* computed for its own key and payload (ingest_event's fingerprint).      *)
THEOREM AnswersNotLaundered == Spec => []NeverLaundered
<1>1. IInv => NeverLaundered
  BY DEF IInv, TakenHonest, NeverLaundered, Answer, At
<1> QED BY <1>1, Invariance, PTL

(* What is answered or replayed is in the audit log; only an erasure met   *)
(* on the way makes put refuse an event that was scored.                   *)
THEOREM AnswersRecorded == Spec => []AnsweredIsRecorded
<1>1. IInv => AnsweredIsRecorded
  BY DEF IInv, TakenHonest, Recorded, RefusedMet, AnsweredIsRecorded, Answering, At
<1> QED BY <1>1, Invariance, PTL

(* After an erasure the identity has no key, unless an event about it was  *)
(* on its way during the erasure.                                          *)
THEOREM ErasureLasts == Spec => []ErasedUnlessRaced
<1>1. IInv => ErasedUnlessRaced
  BY DEF IInv, Destroyed, ErasedUnlessRaced, Barred
<1> QED BY <1>1, Invariance, PTL

-----------------------------------------------------------------------------
(* The cache and the vault in detail: what a step of a submission does to  *)
(* its flags, to the order of the cache's keys and to the vault's keys.    *)

Details(r) ==
  LET old == req[r]
      new == req'[r]
  IN  /\ old.stored => new.stored
      /\ new.stored => old.stored \/ old.at = "store"
      /\ new.scored => old.scored \/ old.at = "assess"
      /\ new.vaulted => old.vaulted \/ old.at = "text"
      /\ new.at = "look" => old.at = "look"
      /\ new.at = "assess" => old.at = "look" /\ ~Cached(old.idem)
      /\ new.at \in {"touch", "replayed", "conflict"} => old.at \in {"look", "touch"}
      /\ new.at = "missed" => old.at \in {"touch", "bump", "evict"}
      /\ new.at = "answered" =>
           old.at = "measure" \/ (old.at = "audit" /\ old.idem = NoIdemKey)
      /\ new.at = "bump" => old.at = "store"
      /\ new.at \in {"measure", "evict"} => old.at \in {"bump", "measure", "evict"}
      /\ old.at = "store" => new.stored
      /\ new.at = "evict" => old.at = "measure" /\ Full
      /\ new.at = "put" => old.at = "assess"
      /\ new.at = "key" => old.at = "put"
      /\ new.at = "keep" => old.at = "key" /\ new.vaultKey = KeyFor(Identity(r), r)
      /\ new.at = "text" => old.at = "keep" /\ new.vaultKey = old.vaultKey

Objects(r) ==
  LET k == req[r].idem
      i == Identity(r)
  IN  /\ \/ ~At(r, "store") /\ UNCHANGED cache
         \/ /\ At(r, "store") /\ entries' = [entries EXCEPT ![k] = [event |-> req[r].event, by |-> r]]
            /\ order' = IF Cached(k) THEN order ELSE Append(order, k)
         \/ /\ req[r].at \in {"touch", "bump"} /\ Cached(k)
            /\ order' = Append(Others(k), k) /\ UNCHANGED entries
         \/ /\ At(r, "evict") /\ order # <<>> /\ order' = Tail(order)
            /\ entries' = [entries EXCEPT ![Head(order)] = Absent]
      /\ keys' = IF At(r, "keep") THEN [keys EXCEPT ![i] = req[r].vaultKey] ELSE keys
      /\ texts' = IF At(r, "text") THEN [texts EXCEPT ![i] = req[r].vaultKey] ELSE texts

LEMMA StepObjects ==
  ASSUME NEW r \in Requests, ReqStep(r)
  PROVE  Objects(r)
<1>1. CASE Look(r)
  BY <1>1 DEF Look, Objects, At, vault, cache
<1>2. CASE Touch(r) \/ Bump(r) \/ Measure(r) \/ Evict(r)
  BY <1>2 DEF Touch, Bump, Measure, Evict, MoveToEnd, Objects, At, vault, cache
<1>3. CASE Assess(r) \/ AssessRaises(r) \/ Audit(r) \/ StoreAnswer(r)
  BY <1>3 DEF Assess, AssessRaises, Audit, StoreAnswer, Objects, At, vault, cache
<1>4. CASE PutTest(r) \/ PutGetKey(r) \/ PutStoreKey(r) \/ PutStoreText(r)
  BY <1>4 DEF PutTest, PutGetKey, PutStoreKey, PutStoreText, StoreKey, StoreText,
              Objects, At, vault, cache
<1> QED BY <1>1, <1>2, <1>3, <1>4 DEF ReqStep

LEMMA StepDetails ==
  ASSUME TypeOK, Consistent, NEW r \in Requests, ReqStep(r)
  PROVE  Details(r)
<1> DEFINE old == req[r]
<1>1. req \in [Requests -> Submission] /\ old \in Submission
  BY DEF TypeOK
<1>2. CASE Look(r)
  <2>1. old.at = "look"
    BY <1>2 DEF Look, At
  <2>2. CASE ~Cached(old.idem) /\ Goto(r, "assess")
    BY <1>1, <2>1, <2>2, GotoFacts DEF Details, Steps
  <2>3. CASE Goto(r, "conflict")
    BY <1>1, <2>1, <2>3, GotoFacts DEF Details, Steps, Through
  <2>4. CASE Set(r, [old EXCEPT !.at = "touch", !.answer = entries[old.idem].by])
    <3>1. req'[r] = [old EXCEPT !.at = "touch", !.answer = entries[old.idem].by]
      BY <1>1, <2>4 DEF Set
    <3> QED BY <1>1, <2>1, <3>1 DEF Details, Submission
  <2> QED BY <1>2, <2>2, <2>3, <2>4 DEF Look
<1>3. CASE Touch(r) \/ Bump(r) \/ Measure(r) \/ Evict(r)
  <2>1. \/ old.at = "touch" /\ (Goto(r, "replayed") \/ Goto(r, "missed"))
        \/ old.at = "bump" /\ (Goto(r, "measure") \/ Goto(r, "missed"))
        \/ old.at = "measure" /\ ((Goto(r, "evict") /\ Full) \/ Goto(r, "answered"))
        \/ old.at = "evict" /\ (Goto(r, "measure") \/ Goto(r, "missed"))
    BY <1>3 DEF Touch, Bump, Measure, Evict, MoveToEnd, At
  <2> QED BY <1>1, <2>1, GotoFacts DEF Details, Steps, CachePart, Through
<1>4. CASE Assess(r)
  <2>1. PICK step \in {"audit", "put"} :
          req'[r] = [old EXCEPT !.at = step, !.scored = TRUE, !.answer = r]
    BY <1>1, <1>4 DEF Assess, Set
  <2> QED BY <1>1, <1>4, <2>1 DEF Details, Assess, At, Submission
<1>5. CASE AssessRaises(r)
  <2>1. PICK w \in BOOLEAN : req'[r] = [old EXCEPT !.at = "engine_failed", !.scored = w]
    BY <1>1, <1>5 DEF AssessRaises, Set
  <2> QED BY <1>1, <1>5, <2>1 DEF Details, AssessRaises, At, Submission
<1>6. CASE PutTest(r) \/ PutStoreKey(r)
  <2>1. \/ old.at = "put" /\ (Goto(r, "vault_refused") \/ Goto(r, "key"))
        \/ old.at = "keep" /\ Goto(r, "text")
    BY <1>6 DEF PutTest, PutStoreKey, At
  <2> QED BY <1>1, <2>1, GotoFacts DEF Details, Steps, PutPart, Through
<1>7. CASE PutGetKey(r)
  <2>1. req'[r] = [old EXCEPT !.at = "keep", !.vaultKey = KeyFor(Identity(r), r)]
    BY <1>1, <1>7 DEF PutGetKey, Set
  <2> QED BY <1>1, <1>7, <2>1 DEF Details, PutGetKey, At, Submission
<1>8. CASE PutStoreText(r)
  <2>1. req'[r] = [old EXCEPT !.at = "audit", !.vaultKey = NoKey, !.vaulted = TRUE]
    BY <1>1, <1>8 DEF PutStoreText, Set
  <2> QED BY <1>1, <1>8, <2>1 DEF Details, PutStoreText, At, Submission
<1>9. CASE Audit(r)
  <2>1. /\ old.at = "audit"
        /\ (old.idem = NoIdemKey /\ Goto(r, "answered")) \/ Goto(r, "store")
    BY <1>9 DEF Audit, At
  <2> QED BY <1>1, <2>1, GotoFacts DEF Details, Steps, CachePart, Through
<1>10. CASE StoreAnswer(r)
  <2>1. req'[r] = [old EXCEPT !.at = "bump", !.stored = TRUE]
    BY <1>1, <1>10 DEF StoreAnswer, Set
  <2> QED BY <1>1, <1>10, <2>1 DEF Details, StoreAnswer, At, Submission
<1> QED BY <1>2, <1>3, <1>4, <1>5, <1>6, <1>7, <1>8, <1>9, <1>10 DEF ReqStep

-----------------------------------------------------------------------------
(* The vault.  A submission keeps material once, and from the first one    *)
(* on that met no other about its identity, the identity has one key.      *)

VaultFlags ==
  \A r \in Requests :
    /\ req[r].at \in {"idle", "look", "assess"} \cup PutPart => ~req[r].vaulted
    /\ req[r].at \in {"keep", "text"} => req[r].vaultKey # NoKey

Undisturbed(r, i) == Concerns(r, i) /\ Now(r) /\ Alone(r, i) /\ NeverAsked(i)

OneKey(r, i) ==
  /\ At(r, "keep") /\ HasKey(i) => req[r].vaultKey = keys[i]
  /\ At(r, "text") => req[r].vaultKey = keys[i]
  /\ req[r].vaulted =>
       /\ Readable(i)
       /\ \A q \in Requests : Concerns(q, i) /\ req[q].at \in {"keep", "text"}
                                => req[q].vaultKey = keys[i]

Settled == \A r \in Requests, i \in Identities : Undisturbed(r, i) => OneKey(r, i)

(* What is left of a submission when the process ends. *)
LEMMA RestartFacts ==
  ASSUME IInv, Restart, NEW r \in Requests
  PROVE  /\ req'[r].at = "killed" \/ (req'[r].at = req[r].at /\ req[r].at \in Through \cup {"idle"})
         /\ req'[r].at = "killed" =>
              InFlight(r) \/ (req[r].at = "killed" /\ req'[r] = req[r])
         /\ req'[r].idem = req[r].idem /\ req'[r].event = req[r].event
         /\ req'[r].epoch = req[r].epoch /\ req'[r].scored = req[r].scored
         /\ req'[r].stored = req[r].stored /\ req'[r].vaulted = req[r].vaulted
         /\ req[r].epoch \in Nat /\ req[r].epoch <= restarts
         /\ restarts \in Nat /\ restarts' = restarts + 1 /\ ~Now(r)'
<1>1. /\ req[r] \in Submission /\ restarts \in Nat /\ restarts' = restarts + 1
      /\ req'[r] = IF InFlight(r) THEN [req[r] EXCEPT !.at = "killed"] ELSE req[r]
      /\ req[r].epoch \in Nat /\ req[r].epoch <= restarts
  BY DEF IInv, TypeOK, Epochs, Restart, Submission
<1>2. /\ req'[r].idem = req[r].idem /\ req'[r].event = req[r].event
      /\ req'[r].epoch = req[r].epoch /\ req'[r].scored = req[r].scored
      /\ req'[r].stored = req[r].stored /\ req'[r].vaulted = req[r].vaulted
      /\ InFlight(r) => req'[r].at = "killed"
  BY <1>1 DEF Submission
<1>3. ~InFlight(r) => req'[r] = req[r] /\ req[r].at \in Through \cup {"idle"}
  BY <1>1 DEF InFlight
<1>4. req'[r].epoch # restarts'
  BY <1>1, <1>2
<1> QED BY <1>1, <1>2, <1>3, <1>4 DEF Now, Through

LEMMA VaultFlagsKept ==
  ASSUME IInv, VaultFlags, [Next]_vars
  PROVE  VaultFlags'
<1> USE CallsAssumption
<1>1. CASE \E r \in Requests : ReqStep(r)
  <2>1. PICK r \in Requests : ReqStep(r)
    BY <1>1
  <2>2. Moves(r) /\ Effects(r) /\ Details(r) /\ TypeOK
    BY <2>1, StepMoves, StepDetails DEF IInv
  <2>3. ASSUME NEW q \in Requests \ {r}
        PROVE  req'[q] = req[q]
    BY <2>2 DEF Moves
  <2>4. /\ req'[r].at \in {"idle", "look", "assess"} \cup PutPart => ~req'[r].vaulted
    BY <2>2 DEF VaultFlags, Moves, Details, PutPart
  <2>5. req'[r].at = "keep" => req'[r].vaultKey # NoKey
    BY <2>2 DEF Details, KeyFor
  <2>6. req'[r].at = "text" => req'[r].vaultKey # NoKey
    BY <2>2 DEF Details, VaultFlags
  <2> QED BY <2>3, <2>4, <2>5, <2>6 DEF VaultFlags
<1>2. CASE \E r \in Requests, s \in Submissions : Enter(r, s[1], s[2])
  <2>1. PICK r \in Requests, s \in Submissions : Enter(r, s[1], s[2])
    BY <1>2
  <2>2. /\ req' = [req EXCEPT ![r] =
             [NoRequest EXCEPT !.at = IF s[1] = NoIdemKey THEN "assess" ELSE "look",
                               !.idem = s[1], !.event = s[2], !.epoch = restarts]]
        /\ req \in [Requests -> Submission]
    BY <2>1 DEF Enter, Set, IInv, TypeOK
  <2>3. \A q \in Requests \ {r} : req'[q] = req[q]
    BY <2>2
  <2>4. ~req'[r].vaulted /\ req'[r].at \in {"assess", "look"}
    BY <2>2 DEF NoRequest
  <2> QED BY <2>3, <2>4 DEF VaultFlags
<1>3. CASE UNCHANGED req
  BY <1>3 DEF VaultFlags
<1>4. CASE Restart
  BY <1>4, RestartFacts DEF VaultFlags, Through, PutPart
<1>5. CASE UNCHANGED vars
  BY <1>3, <1>5 DEF vars
<1> QED BY <1>1, <1>2, <1>3, <1>4, <1>5 DEF Next, ReqStep, EraseEnter, EraseDestroyKey,
           EraseTombstone, EraseAudit

LEMMA SettledReqStep ==
  ASSUME IInv, VaultFlags, VaultFlags', Settled, NEW p \in Requests, ReqStep(p),
         NEW r \in Requests, NEW i \in Identities, Undisturbed(r, i)'
  PROVE  OneKey(r, i)'
<1> USE CallsAssumption
<1>1. Moves(p) /\ Effects(p) /\ Details(p) /\ Objects(p) /\ TypeOK /\ Epochs /\ Together
  BY StepMoves, StepDetails, StepObjects DEF IInv
<1>2. Onward
  BY <1>1 DEF Moves, Effects, Onward, Through
<1>3. /\ \A c, o \in Calls : Overlap(c, o)' <=> Overlap(c, o)
      /\ \A q \in Requests : Identity(q)' = Identity(q)
      /\ \A q \in Requests, j \in Identities : Concerns(q, j)' <=> Concerns(q, j)
      /\ UNCHANGED <<era, restarts>> /\ \A q \in Requests : req'[q].epoch = req[q].epoch
  BY <1>1, <1>2, OnwardKeeps DEF Onward, Effects
<1>4. Undisturbed(r, i)
  BY <1>3 DEF Undisturbed, Alone, Now, NeverAsked, EraAt, Calls
<1>5. OneKey(r, i)
  BY <1>4 DEF Settled
<1>6. /\ \A q \in Requests \ {p} : req'[q] = req[q]
      /\ req[p].at \notin Through \cup {"idle"}
  BY <1>1 DEF Moves
<1>7. \A q \in Requests \ {r} : Concerns(q, i) /\ InFlight(q) => ~InFlight(r)
  BY <1>1, <1>4 DEF Undisturbed, Alone, Together, Calls
<1>8. /\ keys'[i] = IF At(p, "keep") /\ Identity(p) = i THEN req[p].vaultKey ELSE keys[i]
      /\ texts'[i] = IF At(p, "text") /\ Identity(p) = i THEN req[p].vaultKey ELSE texts[i]
  BY <1>1 DEF Objects, TypeOK
<1>9. Concerns(p, i) <=> Identity(p) = i
  BY <1>6 DEF Concerns, Identity, At
<1>10. CASE p = r
  <2>1. Identity(r) = i
    BY <1>4 DEF Undisturbed, Concerns, Identity
  <2>2. req'[r].at = "keep" /\ keys'[i] # NoKey => req'[r].vaultKey = keys'[i]
    BY <1>1, <1>8, <1>10, <2>1 DEF Details, KeyFor, At
  <2>3. req'[r].at = "text" => req'[r].vaultKey = keys'[i]
    BY <1>1, <1>8, <1>10, <2>1 DEF Details, At
  <2>4. ASSUME req'[r].vaulted
        PROVE  /\ keys'[i] # NoKey /\ texts'[i] = keys'[i]
               /\ \A q \in Requests : Concerns(q, i) /\ req'[q].at \in {"keep", "text"}
                                        => req'[q].vaultKey = keys'[i]
    <3>1. req'[r].at \notin {"keep", "text"}
      BY <2>4 DEF VaultFlags, PutPart
    <3>2. CASE req[r].vaulted
      <4>1. req[r].at \notin {"keep", "text"}
        BY <3>2 DEF VaultFlags, PutPart
      <4> QED BY <1>5, <1>6, <1>8, <1>10, <3>1, <3>2, <4>1 DEF OneKey, Readable, HasKey, At
    <3>3. CASE req[r].at = "text"
      <4>1. /\ keys'[i] = keys[i] /\ texts'[i] = keys[i]
            /\ req[r].vaultKey = keys[i] /\ keys[i] # NoKey
        BY <1>5, <1>8, <1>10, <2>1, <3>3 DEF OneKey, VaultFlags, At
      <4>2. InFlight(r)
        BY <3>3 DEF InFlight, Through
      <4>3. \A q \in Requests \ {r} : Concerns(q, i) => req'[q].at \notin {"keep", "text"}
        BY <1>6, <1>7, <1>10, <4>2 DEF InFlight, Through
      <4> QED BY <3>1, <4>1, <4>3
    <3> QED BY <1>1, <1>10, <2>4, <3>2, <3>3 DEF Details
  <2> QED BY <1>3, <2>2, <2>3, <2>4 DEF OneKey, Readable, HasKey, At
<1>11. CASE p # r
  <2>1. req'[r] = req[r]
    BY <1>6, <1>11
  <2>2. CASE Identity(p) # i
    <3>1. keys'[i] = keys[i] /\ texts'[i] = texts[i]
      BY <1>8, <2>2
    <3>2. \A q \in Requests : Concerns(q, i) => req'[q] = req[q]
      BY <1>6, <1>9, <2>2
    <3> QED BY <1>3, <1>5, <2>1, <3>1, <3>2 DEF OneKey, Readable, HasKey, At
  <2>3. CASE Identity(p) = i
    <3>1. InFlight(p) /\ Concerns(p, i)
      BY <1>6, <1>9, <2>3 DEF InFlight
    <3>2. req[r].at \notin {"keep", "text"}
      BY <1>7, <1>11, <3>1 DEF InFlight, Through
    <3>3. ASSUME req[r].vaulted
          PROVE  /\ keys'[i] # NoKey /\ texts'[i] = keys'[i]
                 /\ \A q \in Requests : Concerns(q, i) /\ req'[q].at \in {"keep", "text"}
                                          => req'[q].vaultKey = keys'[i]
      <4>1. /\ keys[i] # NoKey /\ texts[i] = keys[i]
            /\ \A q \in Requests : Concerns(q, i) /\ req[q].at \in {"keep", "text"}
                                     => req[q].vaultKey = keys[i]
        BY <1>5, <3>3 DEF OneKey, Readable, HasKey
      <4>2. req[p].at \in {"keep", "text"} => req[p].vaultKey = keys[i]
        BY <3>1, <4>1
      <4>3. keys'[i] = keys[i] /\ texts'[i] = keys[i]
        BY <1>8, <4>1, <4>2 DEF At
      <4>4. req'[p].at \in {"keep", "text"} => req'[p].vaultKey = keys[i]
        BY <1>1, <2>3, <4>1, <4>2 DEF Details, KeyFor
      <4> QED BY <1>6, <4>1, <4>3, <4>4
    <3> QED BY <1>3, <2>1, <3>2, <3>3 DEF OneKey, Readable, HasKey, At
  <2> QED BY <2>2, <2>3
<1> QED BY <1>10, <1>11

LEMMA SettledElsewhere ==
  ASSUME IInv, VaultFlags, Settled, Next, ~\E p \in Requests : ReqStep(p),
         NEW r \in Requests, NEW i \in Identities, Undisturbed(r, i)'
  PROVE  OneKey(r, i)'
<1> USE CallsAssumption, EventsAssumption
<1>1. CASE \E p \in Requests, s \in Submissions : Enter(p, s[1], s[2])
  <2>1. PICK p \in Requests, s \in Submissions : Enter(p, s[1], s[2])
    BY <1>1
  <2> DEFINE new == [NoRequest EXCEPT !.at = IF s[1] = NoIdemKey THEN "assess" ELSE "look",
                                      !.idem = s[1], !.event = s[2], !.epoch = restarts]
  <2>2. /\ req \in [Requests -> Submission] /\ req' = [req EXCEPT ![p] = new]
        /\ req[p].at = "idle" /\ Meet(p) /\ TypeOK /\ Together
        /\ UNCHANGED <<keys, texts, tombstoned, era, restarts>>
    BY <2>1 DEF Enter, Set, At, IInv, TypeOK, vault
  <2>3. new.at \in {"assess", "look"} /\ ~new.vaulted
    BY DEF NoRequest
  <2> HIDE DEF new
  <2>4. req'[p] = new /\ \A q \in Requests \ {p} : req'[q] = req[q]
    BY <2>2
  <2>5. \A a, b \in Calls \ {p} : Overlap(a, b)' <=> Overlap(a, b)
    BY <2>2, MeetFacts DEF Idle, At, Calls
  <2>6. CASE r = p
    BY <2>3, <2>4, <2>6 DEF OneKey, At
  <2>7. CASE r # p
    <3>1. \A q \in Requests : Concerns(q, i) => Concerns(q, i)' /\ q # p
      BY <2>2, <2>4 DEF Concerns, At
    <3>2. Undisturbed(r, i)
      BY <2>2, <2>4, <2>5, <2>7, <3>1
      DEF Undisturbed, Alone, Now, NeverAsked, EraAt, Concerns, At, Calls
    <3>3. OneKey(r, i)
      BY <3>2 DEF Settled
    <3> QED BY <2>2, <2>3, <2>4, <2>7, <3>3
            DEF OneKey, Readable, HasKey, At, Concerns
  <2> QED BY <2>6, <2>7
<1>2. CASE \E d \in Erasures : EraStep(d)
  <2>1. PICK d \in Erasures : EraStep(d)
    BY <1>2
  <2>2. /\ UNCHANGED <<texts, req, restarts, met>>
        /\ \A j \in Identities \ {era[d].identity} : keys'[j] = keys[j]
    BY <2>1 DEF EraStep, EraseDestroyKey, EraseTombstone, EraseAudit, DestroyKey, StoreKey,
                Tombstone, vault, cache, IInv, TypeOK
  <2>3. PICK step \in {"bar", "audit", "erased"} :
          /\ era' = [era EXCEPT ![d].at = step]
          /\ era[d].at # "idle" /\ era \in [Erasures -> Erasure]
    BY <2>1 DEF EraStep, EraseDestroyKey, EraseTombstone, EraseAudit, EraAt, EraGoto,
                IInv, TypeOK
  <2>4. /\ \A o \in Erasures : era'[o].identity = era[o].identity
        /\ \A o \in Erasures : EraAt(o, "idle")' <=> EraAt(o, "idle")
        /\ ~EraAt(d, "idle")
    BY <2>3 DEF EraAt, Erasure
  <2>5. Undisturbed(r, i) /\ era[d].identity # i
    BY <2>2, <2>4 DEF Undisturbed, Alone, Now, NeverAsked, Overlap, Concerns, At
  <2>6. OneKey(r, i)
    BY <2>5 DEF Settled
  <2>7. keys'[i] = keys[i] /\ texts'[i] = texts[i]
    BY <2>2, <2>5
  <2> QED BY <2>2, <2>6, <2>7 DEF OneKey, Readable, HasKey, At, Concerns
<1>3. CASE \E d \in Erasures, j \in Identities : EraseEnter(d, j)
  <2>1. PICK d \in Erasures, j \in Identities : EraseEnter(d, j)
    BY <1>3
  <2>2. /\ UNCHANGED <<keys, texts, req, restarts>> /\ Meet(d) /\ Idle(d)
        /\ TypeOK /\ Together /\ d \in Calls /\ d \notin Requests
        /\ \A o \in Erasures \ {d} : era'[o] = era[o]
        /\ EraAt(d, "idle")
    BY <2>1 DEF EraseEnter, vault, IInv, TypeOK, EraAt, Idle, Calls
  <2>3. \A a, b \in Requests : Overlap(a, b)' <=> Overlap(a, b)
    BY <2>2, MeetFacts DEF Calls
  <2>4. Undisturbed(r, i)
    BY <2>2, <2>3 DEF Undisturbed, Alone, Now, NeverAsked, EraAt, Concerns, At
  <2>5. OneKey(r, i)
    BY <2>4 DEF Settled
  <2> QED BY <2>2, <2>5 DEF OneKey, Readable, HasKey, At, Concerns
<1>4. CASE Restart
  BY <1>4, RestartFacts DEF Undisturbed
<1> QED BY <1>1, <1>2, <1>3, <1>4 DEF Next, ReqStep, EraStep

LEMMA VaultInitially == Init => VaultFlags /\ Settled
<1> SUFFICES ASSUME Init PROVE VaultFlags /\ Settled
  OBVIOUS
<1>1. \A r \in Requests : req[r] = NoRequest
  BY DEF Init
<1> QED BY <1>1 DEF VaultFlags, Settled, Undisturbed, Concerns, At, NoRequest

(* Once the first event of an identity was through before the next came    *)
(* in, the vault has one key for it and what it keeps can be read, however *)
(* later events overlap (KeyedPiiStore.put), unless it is erased.          *)
THEOREM MaterialReadable == Spec => []ReadableAfterFirst
<1>1. IInv /\ VaultFlags /\ Settled /\ [Next]_vars => (VaultFlags /\ Settled)'
  <2> SUFFICES ASSUME IInv, VaultFlags, Settled, [Next]_vars PROVE VaultFlags' /\ Settled'
    OBVIOUS
  <2>1. VaultFlags'
    BY VaultFlagsKept
  <2>2. CASE \E p \in Requests : ReqStep(p)
    BY <2>1, <2>2, SettledReqStep DEF Settled
  <2>3. CASE Next /\ ~\E p \in Requests : ReqStep(p)
    BY <2>1, <2>3, SettledElsewhere DEF Settled
  <2>4. CASE UNCHANGED vars
    BY <2>1, <2>4 DEF vars, Settled, Undisturbed, OneKey, Concerns, At, EraAt, Now, Alone, NeverAsked,
                Overlap, Readable, HasKey
  <2> QED BY <2>1, <2>2, <2>3, <2>4
<1>2. VaultFlags /\ Settled => ReadableAfterFirst
  BY DEF Settled, Undisturbed, OneKey, ReadableAfterFirst
<1> QED BY <1>1, <1>2, VaultInitially, Invariance, PTL DEF Spec

-----------------------------------------------------------------------------
(* The cache.  Its order lists the keys it holds, once each, all of them   *)
(* stored in this life of the process; a key stored and gone, or one on    *)
(* its way out, tells that more of them were stored than the cache holds.  *)

Stored(rq, e) == {rq[q].idem : q \in {p \in Requests : rq[p].stored /\ rq[p].epoch = e}}
Filled(e) == Cardinality(Stored(req, e)) > IdemMax

OrderOK ==
  /\ order \in Seq(IdemKeys)
  /\ \A a, b \in 1..Len(order) : order[a] = order[b] => a = b
  /\ \A a \in 1..Len(order) : Cached(order[a]) /\ order[a] \in Stored(req, restarts)
  /\ \A k \in IdemKeys : Cached(k) => \E a \in 1..Len(order) : order[a] = k

CacheFlags ==
  \A r \in Requests :
    /\ req[r].at \in {"idle", "look", "touch", "replayed", "conflict", "assess"}
         => ~req[r].scored
    /\ At(r, "idle") => ~req[r].stored
    /\ req[r].stored => req[r].idem \in IdemKeys
    /\ req[r].at \in {"bump", "measure", "evict"} => req[r].stored
    /\ req[r].at \in {"answered", "missed"} /\ req[r].scored /\ req[r].idem # NoIdemKey
         => req[r].stored
    /\ At(r, "killed") => req[r].epoch < restarts
    /\ At(r, "evict") => Filled(req[r].epoch)

Kept == \A k \in Stored(req, restarts) : Cached(k) \/ Filled(restarts)

(* Of two calls that never met the later one found the key gone. *)
Counted(r) == req[r].scored /\ req[r].at \notin {"engine_failed", "vault_refused"}
Apart(r, q) ==
  /\ r # q /\ req[r].idem = req[q].idem /\ req[r].idem # NoIdemKey
  /\ req[r].event = req[q].event /\ req[r].epoch = req[q].epoch /\ ~Overlap(r, q)
Twice ==
  \A r, q \in Requests :
    Apart(r, q) /\ Counted(q) /\ (Counted(r) \/ At(r, "assess")) => Filled(req[r].epoch)

CInv == OrderOK /\ CacheFlags /\ Kept /\ Twice

LEMMA StoredFinite ==
  ASSUME NEW rq, NEW e
  PROVE  IsFiniteSet(Stored(rq, e)) /\ Cardinality(Stored(rq, e)) \in Nat
<1> DEFINE S == {p \in Requests : rq[p].stored /\ rq[p].epoch = e}
           f == [q \in S |-> rq[q].idem]
<1>1. IsFiniteSet(S)
  BY CallsAssumption, FS_Subset
<1>2. f \in Surjection(S, Stored(rq, e))
  BY DEF Surjection, Stored
<1>3. IsFiniteSet(Stored(rq, e))
  <2> HIDE DEF f, S
  <2> QED BY <1>1, <1>2, FS_Surjection
<1> QED BY <1>3, FS_CardinalityType

LEMMA StoredGrow ==
  ASSUME \A q \in Requests : req[q].stored =>
           req'[q].stored /\ req'[q].idem = req[q].idem /\ req'[q].epoch = req[q].epoch
  PROVE  \A e : Stored(req, e) \subseteq Stored(req', e) /\ (Filled(e) => Filled(e)')
<1> SUFFICES ASSUME NEW e
             PROVE  Stored(req, e) \subseteq Stored(req', e) /\ (Filled(e) => Filled(e)')
  OBVIOUS
<1>1. Stored(req, e) \subseteq Stored(req', e)
  BY DEF Stored
<1>2. /\ Cardinality(Stored(req, e)) <= Cardinality(Stored(req', e))
      /\ Cardinality(Stored(req, e)) \in Nat /\ Cardinality(Stored(req', e)) \in Nat
  <2>1. IsFiniteSet(Stored(req', e)) /\ Cardinality(Stored(req', e)) \in Nat
    BY StoredFinite
  <2>2. Cardinality(Stored(req, e)) \in Nat
    BY StoredFinite
  <2> QED BY <1>1, <2>1, <2>2, FS_Subset
<1>3. IdemMax \in Nat
  BY EventsAssumption
<1> QED BY <1>1, <1>2, <1>3 DEF Filled

(* A sequence without repetition is no longer than a set it is drawn from. *)
LEMMA DistinctBound ==
  ASSUME NEW K, NEW s \in Seq(K), IsFiniteSet(K),
         \A a, b \in 1..Len(s) : s[a] = s[b] => a = b
  PROVE  Len(s) <= Cardinality(K)
<1>1. s \in Injection(1..Len(s), K)
  BY DEF Injection, IsInjective
<1>2. Cardinality(1..Len(s)) <= Cardinality(K)
  BY <1>1, FS_Injection
<1>3. Len(s) \in Nat
  OBVIOUS
<1>4. Cardinality(1..Len(s)) = Len(s)
  <2> DEFINE n == Len(s)
  <2>1. n \in Nat
    BY <1>3
  <2> HIDE DEF n
  <2>2. Cardinality(1..n) = IF 1 > n THEN 0 ELSE n - 1 + 1
    BY <2>1, FS_Interval
  <2>3. Cardinality(1..n) = n
    BY <2>1, <2>2
  <2> QED BY <2>3 DEF n
<1> QED BY <1>2, <1>4

LEMMA AppendFacts ==
  ASSUME NEW K, NEW u \in Seq(K), NEW x \in K
  PROVE  /\ Append(u, x) \in Seq(K) /\ Len(u) \in Nat /\ Len(Append(u, x)) = Len(u) + 1
         /\ \A a \in 1..Len(u) : Append(u, x)[a] = u[a]
         /\ Append(u, x)[Len(u) + 1] = x
  OBVIOUS

(* An element taken out, and put last. *)
LEMMA TakenOut ==
  ASSUME NEW K, NEW s \in Seq(K), NEW p \in 1..Len(s)
  PROVE  LET u == SubSeq(s, 1, p - 1) \o SubSeq(s, p + 1, Len(s))
         IN  /\ u \in Seq(K) /\ Len(u) = Len(s) - 1
             /\ \A a \in 1..(Len(s) - 1) : u[a] = IF a < p THEN s[a] ELSE s[a + 1]
<1> DEFINE front == SubSeq(s, 1, p - 1)
           back == SubSeq(s, p + 1, Len(s))
<1>1. /\ front \in Seq(K) /\ Len(front) = p - 1
      /\ \A a \in 1..(p - 1) : front[a] = s[a]
  OBVIOUS
<1>2. /\ back \in Seq(K) /\ Len(back) = Len(s) - p
      /\ \A a \in 1..(Len(s) - p) : back[a] = s[p + a]
  OBVIOUS
<1> HIDE DEF front, back
<1>3. front \o back \in Seq(K) /\ Len(front \o back) = Len(s) - 1
  BY <1>1, <1>2
<1>4. ASSUME NEW a \in 1..(Len(s) - 1)
      PROVE  (front \o back)[a] = IF a < p THEN s[a] ELSE s[a + 1]
  <2>1. CASE a < p
    BY <1>1, <1>2, <2>1
  <2>2. CASE ~(a < p)
    <3>1. a - (p - 1) \in 1..(Len(s) - p)
      BY <2>2
    <3>2. (front \o back)[a] = back[a - (p - 1)]
      BY <1>1, <1>2, <2>2
    <3>3. back[a - (p - 1)] = s[p + (a - (p - 1))]
      BY <1>2, <3>1
    <3> QED BY <2>2, <3>2, <3>3
  <2> QED BY <2>1, <2>2
<1> QED BY <1>3, <1>4 DEF front, back

LEMMA MovedLast ==
  ASSUME NEW K, NEW s \in Seq(K), NEW p \in 1..Len(s), NEW u \in Seq(K),
         Len(u) = Len(s) - 1,
         \A a \in 1..(Len(s) - 1) : u[a] = IF a < p THEN s[a] ELSE s[a + 1]
  PROVE  /\ Append(u, s[p]) \in Seq(K) /\ Len(Append(u, s[p])) = Len(s)
         /\ \A a \in 1..Len(s) : Append(u, s[p])[a] =
              IF a < p THEN s[a] ELSE IF a < Len(s) THEN s[a + 1] ELSE s[p]
<1> DEFINE t == Append(u, s[p])
           n == Len(s)
<1>1. n \in Nat /\ s[p] \in K
  OBVIOUS
<1>2. /\ t \in Seq(K) /\ Len(t) = Len(u) + 1
      /\ \A a \in 1..Len(u) : t[a] = u[a]
      /\ t[Len(u) + 1] = s[p]
  BY <1>1, AppendFacts
<1> HIDE DEF t, n
<1>3. Len(u) = n - 1 /\ \A a \in 1..(n - 1) : u[a] = IF a < p THEN s[a] ELSE s[a + 1]
  BY DEF n
<1>4. Len(t) = n /\ t[n] = s[p] /\ \A a \in 1..(n - 1) : t[a] = u[a]
  BY <1>1, <1>2, <1>3
<1>5. \A a \in 1..n : t[a] = IF a < p THEN s[a] ELSE IF a < n THEN s[a + 1] ELSE s[p]
  <2> SUFFICES ASSUME NEW a \in 1..n
               PROVE  t[a] = IF a < p THEN s[a] ELSE IF a < n THEN s[a + 1] ELSE s[p]
    OBVIOUS
  <2>1. CASE a = n
    BY <1>1, <1>4, <2>1 DEF n
  <2>2. CASE a # n
    BY <1>1, <1>3, <1>4, <2>2
  <2> QED BY <2>1, <2>2
<1> QED BY <1>2, <1>4, <1>5 DEF t, n

(* A step at the end of which the sequence is the same but for what is     *)
(* said leaves it in order; what the cache holds is what the order lists.  *)
Listed(o, e) ==
  /\ o \in Seq(IdemKeys)
  /\ \A a, b \in 1..Len(o) : o[a] = o[b] => a = b
  /\ \A a \in 1..Len(o) : e[o[a]].by # NoCall
  /\ \A k \in IdemKeys : e[k].by # NoCall => \E a \in 1..Len(o) : o[a] = k

LEMMA OrderStored ==
  ASSUME TypeOK, OrderOK, NEW k \in IdemKeys, NEW entry, entry.by # NoCall
  PROVE  Listed(IF Cached(k) THEN order ELSE Append(order, k), [entries EXCEPT ![k] = entry])
<1> DEFINE e == [entries EXCEPT ![k] = entry]
<1>1. \A j \in IdemKeys : e[j] = IF j = k THEN entry ELSE entries[j]
  BY DEF TypeOK
<1> HIDE DEF e
<1>2. /\ order \in Seq(IdemKeys)
      /\ \A a, b \in 1..Len(order) : order[a] = order[b] => a = b
      /\ \A a \in 1..Len(order) : entries[order[a]].by # NoCall /\ order[a] \in IdemKeys
      /\ \A j \in IdemKeys : Cached(j) => \E a \in 1..Len(order) : order[a] = j
  BY DEF OrderOK, Cached
<1>3. CASE Cached(k)
  BY <1>1, <1>2, <1>3 DEF Listed, Cached, e
<1>4. CASE ~Cached(k)
  <2> DEFINE o == Append(order, k)
             n == Len(order)
  <2>1. /\ o \in Seq(IdemKeys) /\ n \in Nat /\ Len(o) = n + 1 /\ o[n + 1] = k
        /\ \A a \in 1..n : o[a] = order[a]
    BY <1>2, AppendFacts
  <2>2. \A a \in 1..n : order[a] # k
    BY <1>2, <1>4 DEF Cached
  <2>3. /\ \A a, b \in 1..n : order[a] = order[b] => a = b
        /\ \A a \in 1..n : entries[order[a]].by # NoCall /\ order[a] \in IdemKeys
        /\ \A j \in IdemKeys : Cached(j) => \E a \in 1..n : order[a] = j
    BY <1>2
  <2> HIDE DEF o, n
  <2>4. \A a, b \in 1..(n + 1) : o[a] = o[b] => a = b
    BY <2>1, <2>2, <2>3
  <2>5. \A a \in 1..(n + 1) : e[o[a]].by # NoCall
    BY <1>1, <2>1, <2>2, <2>3
  <2>6. ASSUME NEW j \in IdemKeys, e[j].by # NoCall
        PROVE  \E a \in 1..(n + 1) : o[a] = j
    <3>1. CASE j = k
      BY <2>1, <3>1
    <3>2. CASE j # k
      BY <1>1, <2>1, <2>3, <2>6, <3>2 DEF Cached
    <3> QED BY <3>1, <3>2
  <2>7. Listed(o, e)
    BY <2>1, <2>4, <2>5, <2>6 DEF Listed
  <2> QED BY <1>4, <2>7 DEF o, e
<1> QED BY <1>3, <1>4

LEMMA OrderMoved ==
  ASSUME OrderOK, NEW k \in IdemKeys, Cached(k)
  PROVE  Listed(Append(Others(k), k), entries)
<1> DEFINE n == Len(order)
           u == Others(k)
           o == Append(u, k)
           p == Place(k)
<1>1. /\ order \in Seq(IdemKeys) /\ n \in Nat
      /\ \A a, b \in 1..n : order[a] = order[b] => a = b
      /\ \A a \in 1..n : entries[order[a]].by # NoCall
      /\ \A j \in IdemKeys : entries[j].by # NoCall => \E a \in 1..n : order[a] = j
  BY DEF OrderOK, Cached
<1>2. DOMAIN order = 1..n
  BY <1>1
<1>3. p \in 1..n /\ order[p] = k
  BY <1>1, <1>2 DEF Place, Cached
<1>4. /\ u \in Seq(IdemKeys) /\ Len(u) = n - 1
      /\ \A a \in 1..(n - 1) : u[a] = IF a < p THEN order[a] ELSE order[a + 1]
  <2> DEFINE w == SubSeq(order, 1, p - 1) \o SubSeq(order, p + 1, n)
  <2>1. u = w
    BY DEF Others
  <2> HIDE DEF p, u
  <2>2. /\ w \in Seq(IdemKeys) /\ Len(w) = n - 1
        /\ \A a \in 1..(n - 1) : w[a] = IF a < p THEN order[a] ELSE order[a + 1]
    <3>1. order \in Seq(IdemKeys) /\ p \in 1..Len(order)
      BY <1>1, <1>3
    <3> HIDE DEF w
    <3>2. /\ w \in Seq(IdemKeys) /\ Len(w) = Len(order) - 1
          /\ \A a \in 1..(Len(order) - 1) : w[a] = IF a < p THEN order[a] ELSE order[a + 1]
      BY <3>1, TakenOut, Zenon DEF w, n
    <3> QED BY <3>2 DEF n
  <2> HIDE DEF w
  <2> QED BY <2>1, <2>2
<1>5. /\ o \in Seq(IdemKeys) /\ Len(o) = n
      /\ \A a \in 1..n : o[a] = IF a < p THEN order[a] ELSE IF a < n THEN order[a + 1] ELSE k
  <2> HIDE DEF p, u
  <2>1. order \in Seq(IdemKeys) /\ p \in 1..Len(order) /\ u \in Seq(IdemKeys)
    BY <1>1, <1>3, <1>4
  <2>2. /\ Len(u) = Len(order) - 1
        /\ \A a \in 1..(Len(order) - 1) : u[a] = IF a < p THEN order[a] ELSE order[a + 1]
    BY <1>4
  <2>3. /\ Append(u, order[p]) \in Seq(IdemKeys) /\ Len(Append(u, order[p])) = Len(order)
        /\ \A a \in 1..Len(order) : Append(u, order[p])[a] =
             IF a < p THEN order[a] ELSE IF a < Len(order) THEN order[a + 1] ELSE order[p]
    BY <2>1, <2>2, MovedLast
  <2>4. order[p] = k
    BY <1>3
  <2> QED BY <2>3, <2>4, Zenon
<1> HIDE DEF n, u, o, p
<1>6. \A a, b \in 1..n : o[a] = o[b] => a = b
  BY <1>1, <1>3, <1>5
<1>7. \A a \in 1..n : entries[o[a]].by # NoCall
  BY <1>1, <1>3, <1>5
<1>8. ASSUME NEW j \in IdemKeys, entries[j].by # NoCall
      PROVE  \E a \in 1..n : o[a] = j
  <2>1. PICK a \in 1..n : order[a] = j
    BY <1>1, <1>8
  <2>2. CASE a < p
    BY <1>5, <2>1, <2>2
  <2>3. CASE a = p
    <3>1. n \in 1..n /\ o[n] = k
      BY <1>1, <1>3, <1>5
    <3> QED BY <1>3, <2>1, <2>3, <3>1
  <2>4. CASE a > p
    <3>1. a - 1 \in 1..n /\ ~(a - 1 < p) /\ a - 1 < n /\ (a - 1) + 1 = a
      BY <1>1, <1>3, <2>4
    <3>2. o[a - 1] = order[(a - 1) + 1]
      BY <1>5, <3>1
    <3> QED BY <2>1, <3>1, <3>2
  <2> QED BY <1>1, <1>3, <2>2, <2>3, <2>4
<1>9. Listed(o, entries)
  BY <1>5, <1>6, <1>7, <1>8 DEF Listed
<1> QED BY <1>9 DEF o, u

LEMMA OrderPopped ==
  ASSUME TypeOK, OrderOK, order # <<>>
  PROVE  /\ Listed(Tail(order), [entries EXCEPT ![Head(order)] = Absent])
         /\ Head(order) \in IdemKeys
<1> DEFINE n == Len(order)
           o == Tail(order)
           e == [entries EXCEPT ![Head(order)] = Absent]
<1>1. /\ order \in Seq(IdemKeys) /\ n \in Nat
      /\ \A a, b \in 1..n : order[a] = order[b] => a = b
      /\ \A a \in 1..n : entries[order[a]].by # NoCall
      /\ \A j \in IdemKeys : entries[j].by # NoCall => \E a \in 1..n : order[a] = j
  BY DEF OrderOK, Cached
<1>2. /\ n >= 1 /\ Head(order) = order[1] /\ order[1] \in IdemKeys
      /\ o \in Seq(IdemKeys) /\ Len(o) = n - 1
      /\ \A a \in 1..(n - 1) : o[a] = order[a + 1]
  BY <1>1
<1>3. \A j \in IdemKeys : e[j] = IF j = order[1] THEN Absent ELSE entries[j]
  BY <1>2 DEF TypeOK
<1>4. Absent.by = NoCall
  BY DEF Absent
<1> HIDE DEF n, o, e
<1>5. \A a, b \in 1..(n - 1) : o[a] = o[b] => a = b
  BY <1>1, <1>2
<1>6. ASSUME NEW a \in 1..(n - 1)
      PROVE  e[o[a]].by # NoCall
  <2>1. /\ a + 1 \in 1..n /\ 1 \in 1..n /\ a + 1 # 1
    BY <1>1, <1>2
  <2>2. order[a + 1] # order[1]
    BY <1>1, <2>1
  <2>3. o[a] = order[a + 1] /\ o[a] \in IdemKeys
    BY <1>2
  <2>4. entries[order[a + 1]].by # NoCall
    BY <1>1, <2>1
  <2> QED BY <1>3, <2>2, <2>3, <2>4
<1>7. ASSUME NEW j \in IdemKeys, e[j].by # NoCall
      PROVE  \E a \in 1..(n - 1) : o[a] = j
  <2>1. j # order[1] /\ entries[j].by # NoCall
    BY <1>3, <1>4, <1>7
  <2>2. PICK a \in 1..n : order[a] = j
    BY <1>1, <2>1
  <2>3. a - 1 \in 1..(n - 1) /\ (a - 1) + 1 = a
    BY <1>1, <2>1, <2>2
  <2> QED BY <1>2, <2>2, <2>3
<1>8. Listed(o, e)
  BY <1>2, <1>5, <1>6, <1>7 DEF Listed
<1> QED BY <1>2, <1>8 DEF o, e

LEMMA CacheReqStep ==
  ASSUME IInv, IInv', CInv, NEW p \in Requests, ReqStep(p)
  PROVE  CInv'
<1> USE CallsAssumption
<1> DEFINE k == req[p].idem
<1>1. /\ Moves(p) /\ Effects(p) /\ Details(p) /\ Objects(p)
      /\ TypeOK /\ Epochs /\ Together /\ OrderOK /\ CacheFlags /\ Kept /\ Twice
  BY StepMoves, StepDetails, StepObjects DEF IInv, CInv
<1>2. Onward
  BY <1>1 DEF Moves, Effects, Onward, Through
<1>3. /\ \A c, o \in Calls : Overlap(c, o)' <=> Overlap(c, o)
      /\ UNCHANGED restarts
      /\ \A q \in Requests : /\ req'[q].epoch = req[q].epoch /\ req'[q].idem = req[q].idem
                             /\ req'[q].event = req[q].event
  BY <1>1, <1>2, OnwardKeeps DEF Onward
<1>4. /\ \A q \in Requests \ {p} : req'[q] = req[q]
      /\ req[p].at \notin Through \cup {"idle"} /\ req'[p].at \notin {"idle", "killed"}
      /\ InFlight(p) /\ req[p].epoch = restarts
  BY <1>1 DEF Moves, InFlight, Epochs, Now
<1>5. \A q \in Requests : req[q].stored => req'[q].stored
  BY <1>1, <1>4 DEF Details
<1>6. \A e : Stored(req, e) \subseteq Stored(req', e) /\ (Filled(e) => Filled(e)')
  BY <1>3, <1>5, StoredGrow
<1>7. req[p].at \in CachePart => k \in IdemKeys
  BY <1>1, OldFacts, <1>4 DEF IInv
<1>8. At(p, "store") => k \in Stored(req', restarts)
  BY <1>1, <1>3, <1>4 DEF Details, At, Stored
<1>9. OrderOK'
  <2>1. Listed(order', entries') /\ \A a \in 1..Len(order') :
          order'[a] \in Stored(req, restarts) \/ (At(p, "store") /\ order'[a] = k)
    <3>1. /\ Listed(order, entries)
          /\ \A a \in 1..Len(order) : order[a] \in Stored(req, restarts)
      BY <1>1 DEF OrderOK, Listed, Cached
    <3>2. CASE UNCHANGED cache
      BY <3>1, <3>2 DEF cache
    <3>3. CASE /\ At(p, "store")
               /\ entries' = [entries EXCEPT ![k] = [event |-> req[p].event, by |-> p]]
               /\ order' = IF Cached(k) THEN order ELSE Append(order, k)
      <4>1. k \in IdemKeys /\ p # NoCall
        BY <1>7, <3>3 DEF At, CachePart
      <4>2. Listed(order', entries')
        BY <1>1, <3>3, <4>1, OrderStored
      <4>3. CASE order' = order
        BY <3>1, <4>2, <4>3
      <4>4. CASE order' = Append(order, k)
        <5>1. /\ order \in Seq(IdemKeys) /\ Len(order) \in Nat /\ Len(order') = Len(order) + 1
              /\ order'[Len(order) + 1] = k
              /\ \A a \in 1..Len(order) : order'[a] = order[a]
          BY <1>1, <4>1, <4>4, AppendFacts DEF OrderOK
        <5> QED BY <3>1, <3>3, <4>2, <5>1
      <4> QED BY <3>3, <4>3, <4>4
    <3>4. CASE /\ req[p].at \in {"touch", "bump"} /\ Cached(k)
               /\ order' = Append(Others(k), k) /\ UNCHANGED entries
      <4>1. k \in IdemKeys
        BY <1>7, <3>4 DEF CachePart
      <4>2. Listed(order', entries)
        BY <1>1, <3>4, <4>1, OrderMoved
      <4>3. ASSUME NEW a \in 1..Len(order')
            PROVE  order'[a] \in Stored(req, restarts)
        <5>1. order'[a] \in IdemKeys /\ Cached(order'[a])
          BY <4>2 DEF Listed, Cached
        <5>2. PICK b \in 1..Len(order) : order[b] = order'[a]
          BY <1>1, <5>1 DEF OrderOK
        <5> QED BY <3>1, <5>2
      <4> QED BY <3>4, <4>2, <4>3
    <3>5. CASE /\ At(p, "evict") /\ order # <<>> /\ order' = Tail(order)
               /\ entries' = [entries EXCEPT ![Head(order)] = Absent]
      <4>1. Listed(order', entries')
        BY <1>1, <3>5, OrderPopped
      <4>2. /\ order \in Seq(IdemKeys) /\ Len(order) \in Nat /\ Len(order') = Len(order) - 1
            /\ \A a \in 1..(Len(order) - 1) : order'[a] = order[a + 1]
        BY <1>1, <3>5 DEF OrderOK
      <4> QED BY <3>1, <4>1, <4>2
    <3> QED BY <1>1, <3>2, <3>3, <3>4, <3>5 DEF Objects
  <2> QED BY <1>3, <1>6, <1>8, <2>1 DEF OrderOK, Listed, Cached
<1>10. Full => Filled(restarts)
  <2> SUFFICES ASSUME Full PROVE Filled(restarts)
    OBVIOUS
  <2> DEFINE K == Stored(req, restarts)
  <2>1. /\ IsFiniteSet(K) /\ Cardinality(K) \in Nat
    BY StoredFinite
  <2>2. /\ order \in Seq(K) /\ Len(order) \in Nat
        /\ \A a, b \in 1..Len(order) : order[a] = order[b] => a = b
    BY <1>1 DEF OrderOK
  <2>3. Len(order) <= Cardinality(K)
    <3> HIDE DEF K
    <3> QED BY <2>1, <2>2, DistinctBound
  <2> QED BY <2>1, <2>2, <2>3, EventsAssumption DEF Full, Filled
<1>11. CacheFlags'
  <2>1. ASSUME NEW q \in Requests \ {p}
        PROVE  /\ req'[q].at \in {"idle", "look", "touch", "replayed", "conflict", "assess"}
                    => ~req'[q].scored
               /\ req'[q].at = "idle" => ~req'[q].stored
               /\ req'[q].stored => req'[q].idem \in IdemKeys
               /\ req'[q].at \in {"bump", "measure", "evict"} => req'[q].stored
               /\ req'[q].at \in {"answered", "missed"} /\ req'[q].scored
                  /\ req'[q].idem # NoIdemKey => req'[q].stored
               /\ req'[q].at = "killed" => req'[q].epoch < restarts'
               /\ req'[q].at = "evict" => Filled(req[q].epoch)'
    BY <1>1, <1>3, <1>4, <1>6 DEF CacheFlags, At
  <2>2. /\ req'[p].at \in {"idle", "look", "touch", "replayed", "conflict", "assess"}
             => ~req'[p].scored
        /\ req'[p].at = "idle" => ~req'[p].stored
        /\ req'[p].stored => req'[p].idem \in IdemKeys
        /\ req'[p].at \in {"bump", "measure", "evict"} => req'[p].stored
        /\ req'[p].at = "killed" => req'[p].epoch < restarts'
    BY <1>1, <1>3, <1>4, <1>5, <1>7 DEF Details, CacheFlags, CachePart
  <2>3. req'[p].at \in {"answered", "missed"} /\ req'[p].scored /\ req'[p].idem # NoIdemKey
          => req'[p].stored
    BY <1>1, <1>3, <1>4, <1>5 DEF Details, CacheFlags
  <2>4. req'[p].at = "evict" => Filled(req[p].epoch)'
    BY <1>1, <1>3, <1>4, <1>6, <1>10 DEF Details
  <2> QED BY <1>3, <2>1, <2>2, <2>3, <2>4 DEF CacheFlags, At
<1>12. Kept'
  <2> SUFFICES ASSUME NEW j \in Stored(req', restarts)
               PROVE  entries'[j].by # NoCall \/ Filled(restarts)'
    BY <1>3 DEF Kept, Cached
  <2>1. j \in Stored(req, restarts) \/ (At(p, "store") /\ j = k)
    BY <1>1, <1>3, <1>4 DEF Stored, Details, At
  <2>2. CASE At(p, "store") /\ j = k
    <3>1. k \in IdemKeys /\ p # NoCall
      BY <1>7, <2>2 DEF At, CachePart
    <3>2. entries' = [entries EXCEPT ![k] = [event |-> req[p].event, by |-> p]]
      BY <1>1, <2>2 DEF Objects, At
    <3> QED BY <1>1, <2>2, <3>1, <3>2 DEF TypeOK
  <2>3. CASE j \in Stored(req, restarts) /\ ~Filled(restarts)
    <3>1. /\ entries[j].by # NoCall /\ ~At(p, "evict")
      BY <1>1, <1>4, <2>3 DEF Kept, Cached, CacheFlags, At
    <3>2. CASE At(p, "store") /\ j = k
      BY <2>2, <3>2
    <3>3. CASE ~(At(p, "store") /\ j = k)
      <4>1. j \in IdemKeys
        BY <1>1, <2>3 DEF CacheFlags, Stored
      <4> QED BY <1>1, <3>1, <3>3, <4>1 DEF Objects, cache, TypeOK
    <3> QED BY <3>2, <3>3
  <2>4. Filled(restarts) => Filled(restarts)'
    <3> DEFINE e == restarts
    <3>1. Filled(e) => Cardinality(Stored(req', e)) > IdemMax
      BY <1>6 DEF Filled
    <3> HIDE DEF e
    <3>2. Cardinality(Stored(req', e)) > IdemMax => Filled(restarts)'
      BY <1>3 DEF Filled, e
    <3> QED BY <3>1, <3>2 DEF e
  <2> QED BY <2>1, <2>2, <2>3, <2>4
<1>13. Twice'
  <2> SUFFICES ASSUME NEW r \in Requests, NEW q \in Requests, Apart(r, q)', Counted(q)',
                      (Counted(r) \/ At(r, "assess"))'
               PROVE  Filled(req[r].epoch)'
    BY DEF Twice
  <2>1. /\ Apart(r, q) /\ Apart(q, r) /\ req'[r].epoch = req[r].epoch
        /\ req[q].epoch = req[r].epoch
    BY <1>3 DEF Apart, Overlap, Calls
  <2>2. Filled(req[r].epoch) => Filled(req[r].epoch)'
    <3> DEFINE e == req[r].epoch
    <3>1. req'[r].epoch = e
      BY <2>1
    <3>2. Filled(e) => Cardinality(Stored(req', e)) > IdemMax
      BY <1>6 DEF Filled
    <3> HIDE DEF e
    <3>3. Cardinality(Stored(req', e)) > IdemMax => Filled(req[r].epoch)'
      BY <3>1 DEF Filled
    <3> QED BY <3>2, <3>3 DEF e
  <2>3. ~(InFlight(r) /\ InFlight(q))
    BY <1>1, <2>1 DEF Together, Apart, Calls
  <2>4. \A c \in Requests : Counted(c)' => Counted(c) \/ (c = p /\ At(c, "assess"))
    BY <1>1, <1>4 DEF Counted, Details, At, Through
  <2>5. CASE ~Counted(q)
    <3>1. q = p /\ At(q, "assess") /\ r # q
      BY <2>1, <2>4, <2>5 DEF Apart
    <3>2. Counted(r)
      BY <1>4, <2>3, <2>4, <3>1 DEF InFlight, At, Through
    <3> QED BY <1>1, <2>1, <2>2, <3>1, <3>2 DEF Twice
  <2>6. CASE Counted(q) /\ (Counted(r) \/ At(r, "assess"))
    BY <1>1, <2>1, <2>2, <2>6 DEF Twice
  <2>7. CASE Counted(q) /\ ~Counted(r) /\ ~At(r, "assess")
    <3>1. r = p /\ req'[r].at = "assess"
      BY <1>4, <2>4, <2>7 DEF At
    <3>2. req[r].at = "look" /\ ~Cached(k) /\ q # p /\ ~InFlight(q)
      BY <1>1, <1>4, <2>1, <2>3, <3>1 DEF Details, Apart
    <3>3. req[q].at \in {"answered", "missed"} /\ req[q].scored /\ req[q].epoch = restarts
      <4>1. req[q].at \in Through \cup {"idle"} /\ req[q].scored /\ req[q].epoch = restarts
        BY <1>4, <2>1, <2>7, <3>1, <3>2 DEF InFlight, Counted
      <4>2. req[q].at \notin {"idle", "replayed", "conflict"}
        BY <1>1, <4>1 DEF CacheFlags
      <4>3. req[q].at # "killed"
        BY <1>1, <4>1 DEF CacheFlags, At, TypeOK
      <4> QED BY <2>7, <4>1, <4>2, <4>3 DEF Counted, Through
    <3>4. k \in Stored(req, restarts)
      <4>1. req[q].stored /\ req[q].idem = k
        BY <1>1, <2>1, <3>1, <3>3 DEF CacheFlags, Apart
      <4> QED BY <3>3, <4>1 DEF Stored
    <3>5. Filled(restarts)
      BY <1>1, <3>2, <3>4 DEF Kept
    <3> QED BY <1>4, <2>2, <3>1, <3>5
  <2> QED BY <2>5, <2>6, <2>7
<1> QED BY <1>9, <1>11, <1>12, <1>13 DEF CInv

LEMMA CacheElsewhere ==
  ASSUME IInv, CInv, Next, ~\E p \in Requests : ReqStep(p)
  PROVE  CInv'
<1> USE CallsAssumption, EventsAssumption
<1>1. OrderOK /\ CacheFlags /\ Kept /\ Twice /\ TypeOK /\ Epochs /\ Together
  BY DEF CInv, IInv
<1>2. CASE \E p \in Requests, s \in Submissions : Enter(p, s[1], s[2])
  <2>1. PICK p \in Requests, s \in Submissions : Enter(p, s[1], s[2])
    BY <1>2
  <2> DEFINE new == [NoRequest EXCEPT !.at = IF s[1] = NoIdemKey THEN "assess" ELSE "look",
                                      !.idem = s[1], !.event = s[2], !.epoch = restarts]
  <2>2. /\ req \in [Requests -> Submission] /\ req' = [req EXCEPT ![p] = new]
        /\ req[p].at = "idle" /\ Meet(p) /\ UNCHANGED <<entries, order, restarts>>
    BY <1>1, <2>1 DEF Enter, Set, At, TypeOK, cache
  <2>3. /\ new.at \in {"assess", "look"} /\ ~new.scored /\ ~new.stored
        /\ new.at = "assess" => new.idem = NoIdemKey
    BY DEF NoRequest
  <2> HIDE DEF new
  <2>4. req'[p] = new /\ \A q \in Requests \ {p} : req'[q] = req[q]
    BY <2>2
  <2>5. \A a, b \in Calls \ {p} : Overlap(a, b)' <=> Overlap(a, b)
    BY <1>1, <2>2, MeetFacts DEF Idle, At, Calls
  <2>6. ~req[p].stored
    BY <1>1, <2>2 DEF CacheFlags, At
  <2>7. \A e : Stored(req', e) = Stored(req, e)
    BY <2>3, <2>4, <2>6 DEF Stored
  <2>8. \A e : Filled(e) => Cardinality(Stored(req', e)) > IdemMax
    BY <2>7 DEF Filled
  <2>9. OrderOK' /\ Kept'
    BY <1>1, <2>2, <2>7 DEF OrderOK, Kept, Cached, Filled
  <2>10. CacheFlags'
    <3>1. ASSUME NEW q \in Requests \ {p}, req'[q].at = "evict"
          PROVE  Filled(req[q].epoch)'
      BY <1>1, <2>4, <2>8, <3>1 DEF CacheFlags, Filled, At
    <3> QED BY <1>1, <2>2, <2>3, <2>4, <3>1 DEF CacheFlags, At
  <2>11. Twice'
    <3> SUFFICES ASSUME NEW r \in Requests, NEW q \in Requests, Apart(r, q)', Counted(q)',
                        (Counted(r) \/ At(r, "assess"))'
                 PROVE  Filled(req[r].epoch)'
      BY DEF Twice
    <3>1. r # p /\ q # p
      BY <2>3, <2>4 DEF Apart, Counted, At
    <3>2. req'[r] = req[r] /\ req'[q] = req[q] /\ (Overlap(r, q)' <=> Overlap(r, q))
      BY <2>4, <2>5, <3>1 DEF Calls
    <3>3. Filled(req[r].epoch)
      BY <1>1, <3>2 DEF Twice, Apart, Counted, At
    <3> QED BY <2>8, <3>2, <3>3 DEF Filled
  <2> QED BY <2>9, <2>10, <2>11 DEF CInv
<1>3. CASE \E d \in Erasures : EraStep(d)
  <2>1. UNCHANGED <<entries, order, req, restarts, met>>
    BY <1>3 DEF EraStep, EraseDestroyKey, EraseTombstone, EraseAudit, cache
  <2> QED BY <1>1, <2>1 DEF CInv, OrderOK, CacheFlags, Kept, Twice, Cached, Filled, At,
                            Apart, Counted, Overlap
<1>4. CASE \E d \in Erasures, i \in Identities : EraseEnter(d, i)
  <2>1. PICK d \in Erasures, i \in Identities : EraseEnter(d, i)
    BY <1>4
  <2>2. /\ UNCHANGED <<entries, order, req, restarts>> /\ Meet(d) /\ Idle(d)
        /\ d \in Calls /\ d \notin Requests
    BY <2>1 DEF EraseEnter, cache, EraAt, Idle, Calls
  <2>3. \A a, b \in Requests : Overlap(a, b)' <=> Overlap(a, b)
    BY <1>1, <2>2, MeetFacts DEF Calls
  <2> QED BY <1>1, <2>2, <2>3 DEF CInv, OrderOK, CacheFlags, Kept, Twice, Cached, Filled, At,
                                  Apart, Counted
<1>5. CASE Restart
  <2>1. /\ order' = <<>> /\ UNCHANGED met
        /\ \A k \in IdemKeys : entries'[k].by = NoCall
    BY <1>5 DEF Restart, Absent
  <2>2. \A q \in Requests :
          /\ req'[q].idem = req[q].idem /\ req'[q].event = req[q].event
          /\ req'[q].epoch = req[q].epoch /\ req'[q].scored = req[q].scored
          /\ req'[q].stored = req[q].stored /\ req[q].epoch < restarts'
          /\ \/ req'[q].at = "killed" /\ req[q].at \notin {"engine_failed", "vault_refused"}
             \/ req'[q].at = req[q].at /\ req[q].at \in Through \cup {"idle"}
    <3> SUFFICES ASSUME NEW q \in Requests
                 PROVE  /\ req'[q].idem = req[q].idem /\ req'[q].event = req[q].event
                        /\ req'[q].epoch = req[q].epoch /\ req'[q].scored = req[q].scored
                        /\ req'[q].stored = req[q].stored /\ req[q].epoch < restarts'
                        /\ \/ /\ req'[q].at = "killed"
                              /\ req[q].at \notin {"engine_failed", "vault_refused"}
                           \/ req'[q].at = req[q].at /\ req[q].at \in Through \cup {"idle"}
      OBVIOUS
    <3>1. req[q].epoch < restarts'
      BY <1>5, RestartFacts
    <3> QED BY <1>5, <3>1, RestartFacts DEF InFlight, Through
  <2>3. \A e : Stored(req', e) = Stored(req, e)
    BY <2>2 DEF Stored
  <2>4. Stored(req', restarts') = {}
    <3>1. \A q \in Requests : req'[q].epoch # restarts'
      BY <1>5, RestartFacts DEF Now
    <3> QED BY <3>1 DEF Stored
  <2>5. OrderOK' /\ Kept'
    BY <2>1, <2>4 DEF OrderOK, Kept, Cached
  <2>6. CacheFlags'
    BY <1>1, <2>2 DEF CacheFlags, At, Through
  <2>7. Twice'
    <3> SUFFICES ASSUME NEW r \in Requests, NEW q \in Requests, Apart(r, q)', Counted(q)',
                        (Counted(r) \/ At(r, "assess"))'
                 PROVE  Filled(req[r].epoch)'
      BY DEF Twice
    <3>1. Apart(r, q) /\ Counted(q) /\ Counted(r)
      BY <2>1, <2>2 DEF Apart, Counted, Overlap, At, Through
    <3>2. Filled(req[r].epoch)
      BY <1>1, <3>1 DEF Twice
    <3> QED BY <2>2, <2>3, <3>2 DEF Filled
  <2> QED BY <2>5, <2>6, <2>7 DEF CInv
<1> QED BY <1>2, <1>3, <1>4, <1>5 DEF Next, ReqStep, EraStep

LEMMA CacheInitially == Init => CInv
<1> SUFFICES ASSUME Init PROVE CInv
  OBVIOUS
<1>1. /\ order = <<>> /\ \A k \in IdemKeys : ~Cached(k)
      /\ \A r \in Requests : req[r] = NoRequest
  BY DEF Init, Cached, Absent
<1>2. Stored(req, restarts) = {}
  BY <1>1 DEF Stored, NoRequest
<1> QED BY <1>1, <1>2 DEF CInv, OrderOK, CacheFlags, Kept, Twice, Counted, At, NoRequest

(* An event submitted again under its key moves trust again only if the    *)
(* two calls overlapped, one of them failed, more keys were stored than    *)
(* the cache holds, or the process restarted (ingest_event and its cache,  *)
(* which several threads may evict from at once).                          *)
THEOREM ScoredOnce == Spec => []ScoredOnceUnlessEvicted
<1>1. IInv /\ IInv' /\ CInv /\ [Next]_vars => CInv'
  <2> SUFFICES ASSUME IInv, IInv', CInv, [Next]_vars PROVE CInv'
    OBVIOUS
  <2>1. CASE \E p \in Requests : ReqStep(p)
    BY <2>1, CacheReqStep
  <2>2. CASE Next /\ ~\E p \in Requests : ReqStep(p)
    BY <2>2, CacheElsewhere
  <2>3. CASE UNCHANGED vars
    BY <2>3 DEF vars, cache, CInv, OrderOK, CacheFlags, Kept, Twice, Cached, Filled, At,
                Apart, Counted, Overlap
  <2> QED BY <2>1, <2>2, <2>3
<1>2. CInv => ScoredOnceUnlessEvicted
  <2> SUFFICES ASSUME CInv, NEW r \in Requests, NEW q \in Requests, r # q,
                      req[r].scored, req[q].scored, req[r].idem = req[q].idem,
                      req[r].idem # NoIdemKey, req[r].event = req[q].event,
                      ~Overlap(r, q), req[r].epoch = req[q].epoch,
                      ~\E c \in {r, q} : req[c].at \in {"engine_failed", "vault_refused"}
               PROVE  Cardinality(KeysStored(r) \ {req[r].idem}) >= IdemMax
    BY DEF ScoredOnceUnlessEvicted
  <2> DEFINE K == KeysStored(r)
  <2>1. Filled(req[r].epoch)
    BY DEF CInv, Twice, Apart, Counted
  <2>2. K = Stored(req, req[r].epoch)
    BY DEF KeysStored, Stored
  <2>3. IsFiniteSet(K) /\ Cardinality(K) \in Nat /\ Cardinality(K) > IdemMax
    BY <2>1, <2>2, StoredFinite DEF Filled
  <2> HIDE DEF K
  <2>4. Cardinality(K \ {req[r].idem}) \in {Cardinality(K), Cardinality(K) - 1}
    BY <2>3, FS_RemoveElement
  <2>5. Cardinality(K \ {req[r].idem}) >= IdemMax
    BY <2>3, <2>4, EventsAssumption
  <2> QED BY <2>5 DEF K
<1> QED BY <1>1, <1>2, CacheInitially, Invariance, PTL DEF Spec
=============================================================================
