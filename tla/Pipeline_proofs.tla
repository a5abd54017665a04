--------------------------- MODULE Pipeline_proofs ---------------------------
(***************************************************************************)
(* The chain in the database verifies for any number of overlapping,       *)
(* failing and unconfirmed appends, and so under the pods that call        *)
(* append; the decisions the pods store are audited and final; an identity *)
(* is scored in the order of its events unless a pod stopped or was too    *)
(* slow.                                                                   *)
(***************************************************************************)
EXTENDS Pipeline, FiniteSetTheorems, TLAPS

RowBy(r, c) == r = RowOf(r.seq, c, r.prev_hash)
Record(r) == r.seq \in Nat /\ \E c \in Calls : RowBy(r, c)

(* A row that continues the committed ones, wherever its place is. *)
Continues(r) ==
  IF r.seq = 0 THEN r.prev_hash = Genesis
  ELSE \E q \in rows : q.seq = r.seq - 1 /\ r.prev_hash = q.hash

(* Why the chain is intact: what a call is about to insert continues a     *)
(* committed row (which no step removes), and a place that a call has      *)
(* inserted is nobody else's, committed or not.  A committed row is that   *)
(* of a call that is through.                                              *)
IInv ==
  /\ pc \in [Calls -> Places]
  /\ row = [c \in Calls |-> row[c]]
  /\ \A c \in Calls : RowBy(row[c], c)
  /\ \A r \in rows : \E c \in Calls : r = row[c] /\ pc[c] \in {"appended", "failed"}
  /\ \A r \in rows : Record(r) /\ Continues(r)
  /\ Numbered
  /\ rows # {} => \E r \in rows : IsLast(r)
  /\ \A c \in Calls : pc[c] \in {"insert", "commit"} =>
       Record(row[c]) /\ Continues(row[c])
  /\ \A c \in Calls : pc[c] = "commit" => ~Taken(row[c].seq)
  /\ \A c, d \in Calls : pc[c] = "commit" /\ pc[d] = "commit" /\ c # d
       => row[c].seq # row[d].seq

(* What a row consists of: the hash is that of the payload that was given, *)
(* the payload what the column makes of it.                                *)
LEMMA RowOfFields ==
  ASSUME NEW seq, NEW c, NEW prev
  PROVE  /\ RowOf(seq, c, prev).seq = seq
         /\ RowOf(seq, c, prev).prev_hash = prev
         /\ RowOf(seq, c, prev).payload = Jsonb[c]
         /\ RowOf(seq, c, prev).hash = HashOf(Body(seq, c, prev))
         /\ RowOf(seq, c, prev).hmac = MacOf(HashOf(Body(seq, c, prev)))
         /\ RowBy(RowOf(seq, c, prev), c)
<1>1. RecordOf(seq, c, prev) =
        [seq |-> seq, payload |-> c, prev_hash |-> prev,
         hash |-> HashOf(Body(seq, c, prev)), hmac |-> MacOf(HashOf(Body(seq, c, prev)))]
  BY DEF RecordOf
<1>2. /\ RowOf(seq, c, prev).seq = seq
      /\ RowOf(seq, c, prev).prev_hash = prev
      /\ RowOf(seq, c, prev).payload = Jsonb[c]
      /\ RowOf(seq, c, prev).hash = HashOf(Body(seq, c, prev))
      /\ RowOf(seq, c, prev).hmac = MacOf(HashOf(Body(seq, c, prev)))
  BY <1>1 DEF RowOf
<1> QED BY <1>2 DEF RowBy

LEMMA RowOfIsRecord ==
  ASSUME NEW seq \in Nat, NEW c \in Calls, NEW prev
  PROVE  Record(RowOf(seq, c, prev))
BY RowOfFields DEF Record

(* A row verifies exactly if its payload came back as it was hashed.       *)
LEMMA RowVerifies ==
  ASSUME NEW c, NEW r, RowBy(r, c)
  PROVE  /\ r.hash = HashOf(BodyOf(r)) <=> Jsonb[c] = c
         /\ r.hmac = MacOf(r.hash)
<1> DEFINE seq == r.seq
           prev == r.prev_hash
<1>1. r = RowOf(seq, c, prev)
  BY DEF RowBy
<1> HIDE DEF seq, prev
<1>2. /\ r.seq = seq /\ r.prev_hash = prev /\ r.payload = Jsonb[c]
      /\ r.hash = HashOf(Body(seq, c, prev)) /\ r.hmac = MacOf(HashOf(Body(seq, c, prev)))
  BY <1>1, RowOfFields
<1>3. BodyOf(r) = Body(seq, Jsonb[c], prev)
  BY <1>2 DEF BodyOf
<1>4. HashOf(Body(seq, c, prev)) = HashOf(Body(seq, Jsonb[c], prev)) <=> Jsonb[c] = c
  <2>1. Body(seq, c, prev).payload = c /\ Body(seq, Jsonb[c], prev).payload = Jsonb[c]
    BY DEF Body
  <2>2. \A x, y : HashOf(x) = HashOf(y) <=> x = y
    BY DEF HashOf
  <2> QED BY <2>1, <2>2
<1> QED BY <1>2, <1>3, <1>4

LEMMA IInvIntact == IInv => ChainIntact
<1> SUFFICES ASSUME IInv PROVE ChainIntact
  OBVIOUS
<1>1. Linked
  BY DEF IInv, Linked, Continues
<1>2. ASSUME Signed, NEW c \in Calls, row[c] \in rows
      PROVE  Jsonb[c] = c
  BY <1>2, RowVerifies DEF IInv, Signed
<1>3. ASSUME \A c \in Calls : row[c] \in rows => Jsonb[c] = c, NEW r \in rows
      PROVE  r.hash = HashOf(BodyOf(r)) /\ r.hmac = MacOf(r.hash)
  BY <1>3, RowVerifies DEF IInv
<1> QED BY <1>1, <1>2, <1>3 DEF IInv, ChainIntact, Signed

LEMMA NextRowContinues ==
  ASSUME IInv, NEW c \in Calls
  PROVE  Record(NextRow(c)) /\ Continues(NextRow(c)) /\ RowBy(NextRow(c), c)
<1>1. CASE rows = {}
  BY <1>1, RowOfFields, RowOfIsRecord DEF NextRow, Continues
<1>2. CASE rows # {}
  <2> DEFINE last == CHOOSE r \in rows : IsLast(r)
  <2>1. last \in rows
    BY <1>2 DEF IInv
  <2>2. last.seq \in Nat
    BY <2>1 DEF IInv, Record
  <2>3. NextRow(c) = RowOf(last.seq + 1, c, last.hash)
    BY <1>2 DEF NextRow
  <2> HIDE DEF last
  <2>4. /\ Record(NextRow(c)) /\ NextRow(c).seq = last.seq + 1
        /\ NextRow(c).prev_hash = last.hash /\ RowBy(NextRow(c), c)
    BY <2>2, <2>3, RowOfFields, RowOfIsRecord
  <2> QED BY <2>1, <2>2, <2>4 DEF Continues
<1> QED BY <1>1, <1>2

LEMMA CommitKeeps ==
  ASSUME IInv, NEW c \in Calls, pc[c] = "commit",
         pc' \in [Calls -> Places], pc'[c] \in {"appended", "failed"},
         \A d \in Calls : d # c => pc'[d] = pc[d],
         rows' = rows \cup {row[c]}, row' = row
  PROVE  IInv'
<1>1. Record(row[c]) /\ Continues(row[c]) /\ ~Taken(row[c].seq)
  BY DEF IInv
<1>2. \A r : Continues(r) => Continues(r)'
  BY DEF Continues
<1>3. \A r \in rows' : Record(r) /\ Continues(r)'
  BY <1>1, <1>2 DEF IInv
<1>4. Numbered'
  BY <1>1 DEF IInv, Numbered, Taken
<1>5. \E r \in rows' : IsLast(r)'
  <2>1. CASE rows = {}
    BY <1>1, <2>1 DEF IsLast, Record
  <2>2. CASE rows # {}
    <3>1. PICK last \in rows : IsLast(last)
      BY <2>2 DEF IInv
    <3>2. /\ last.seq \in Nat /\ row[c].seq \in Nat
          /\ \A q \in rows : q.seq \in Nat
      BY <1>1 DEF IInv, Record
    <3>3. CASE row[c].seq <= last.seq
      BY <3>1, <3>2, <3>3 DEF IsLast
    <3>4. CASE last.seq <= row[c].seq
      BY <3>1, <3>2, <3>4 DEF IsLast
    <3> QED BY <3>2, <3>3, <3>4
  <2> QED BY <2>1, <2>2
<1>6. (\A d \in Calls : pc[d] \in {"insert", "commit"} =>
         Record(row[d]) /\ Continues(row[d]))'
  <2> SUFFICES ASSUME NEW d \in Calls, pc'[d] \in {"insert", "commit"}
               PROVE  (Record(row[d]) /\ Continues(row[d]))'
    OBVIOUS
  <2>1. pc[d] \in {"insert", "commit"} /\ row'[d] = row[d]
    OBVIOUS
  <2>2. Record(row[d]) /\ Continues(row[d])
    BY <2>1 DEF IInv
  <2> QED BY <2>1, <2>2 DEF Continues, Record
<1>7. (\A d \in Calls : pc[d] = "commit" => ~Taken(row[d].seq))'
  BY DEF IInv, Taken
<1>8. (\A d, f \in Calls : pc[d] = "commit" /\ pc[f] = "commit" /\ d # f
         => row[d].seq # row[f].seq)'
  BY DEF IInv
<1>9. (pc \in [Calls -> Places] /\ row = [d \in Calls |-> row[d]])'
  BY DEF IInv
<1>10. (/\ \A d \in Calls : RowBy(row[d], d)
        /\ \A r \in rows : \E d \in Calls : r = row[d] /\ pc[d] \in {"appended", "failed"})'
  <2>1. ASSUME NEW r \in rows
        PROVE  \E d \in Calls : r = row'[d] /\ pc'[d] \in {"appended", "failed"}
    BY DEF IInv
  <2> QED BY <2>1 DEF IInv, RowBy
<1> QED BY <1>3, <1>4, <1>5, <1>6, <1>7, <1>8, <1>9, <1>10 DEF IInv, Record, RowBy

(* A step that commits nothing keeps the invariant if what it leaves in    *)
(* the hands of the calls is as the invariant says.                        *)
LEMMA RowsKept ==
  ASSUME IInv, rows' = rows, pc' \in [Calls -> Places], row' = [d \in Calls |-> row'[d]],
         \A d \in Calls : RowBy(row'[d], d),
         \A d \in Calls : pc[d] \in {"appended", "failed"} =>
           row'[d] = row[d] /\ pc'[d] = pc[d],
         \A d \in Calls : pc'[d] \in {"insert", "commit"} =>
           Record(row'[d]) /\ Continues(row'[d]),
         \A d \in Calls : pc'[d] = "commit" => ~Taken(row'[d].seq),
         \A d, f \in Calls : pc'[d] = "commit" /\ pc'[f] = "commit" /\ d # f
           => row'[d].seq # row'[f].seq
  PROVE  IInv'
<1>2. (\A r \in rows : Record(r) /\ Continues(r))'
  <2>1. \A r \in rows : Record(r) /\ Continues(r)
    BY DEF IInv
  <2> QED BY <2>1 DEF Record, Continues
<1>3. Numbered'
  <2>1. Numbered
    BY DEF IInv
  <2> QED BY <2>1 DEF Numbered
<1>4. (rows # {} => \E r \in rows : IsLast(r))'
  <2>1. rows # {} => \E r \in rows : IsLast(r)
    BY DEF IInv
  <2> QED BY <2>1 DEF IsLast
<1>5. (\A d \in Calls : pc[d] \in {"insert", "commit"} =>
         Record(row[d]) /\ Continues(row[d]))'
  BY DEF Record, Continues
<1>6. (\A d \in Calls : pc[d] = "commit" => ~Taken(row[d].seq))'
  BY DEF Taken
<1>7. (\A d, f \in Calls : pc[d] = "commit" /\ pc[f] = "commit" /\ d # f
         => row[d].seq # row[f].seq)'
  OBVIOUS
<1>8. (\A r \in rows : \E d \in Calls : r = row[d] /\ pc[d] \in {"appended", "failed"})'
  BY DEF IInv
<1>9. (\A d \in Calls : RowBy(row[d], d))'
  BY DEF RowBy
<1> QED BY <1>2, <1>3, <1>4, <1>5, <1>6, <1>7, <1>8, <1>9 DEF IInv

(* What the calls hold, as the invariant says it. *)
LEMMA HeldRows ==
  ASSUME IInv
  PROVE  /\ pc \in [Calls -> Places] /\ row = [d \in Calls |-> row[d]]
         /\ \A d \in Calls : RowBy(row[d], d)
         /\ \A d \in Calls : pc[d] \in {"insert", "commit"} =>
              Record(row[d]) /\ Continues(row[d])
         /\ \A d \in Calls : pc[d] = "commit" => ~Taken(row[d].seq)
         /\ \A d, f \in Calls : pc[d] = "commit" /\ pc[f] = "commit" /\ d # f
              => row[d].seq # row[f].seq
BY DEF IInv

LEMMA NextKeeps == IInv /\ [Next]_vars => IInv'
<1> SUFFICES ASSUME IInv, [Next]_vars PROVE IInv'
  OBVIOUS
<1>1. ASSUME NEW c \in Calls, Select(c) PROVE IInv'
  <2>1. Record(NextRow(c)) /\ Continues(NextRow(c)) /\ RowBy(NextRow(c), c)
    BY NextRowContinues
  <2>2. /\ pc' = [pc EXCEPT ![c] = "insert"] /\ pc[c] = "select"
        /\ row' = [row EXCEPT ![c] = NextRow(c)] /\ rows' = rows
    BY <1>1 DEF Select, Goto
  <2> DEFINE following == NextRow(c)
  <2> HIDE DEF following
  <2>3. /\ pc' \in [Calls -> Places] /\ pc'[c] = "insert" /\ row'[c] = following
        /\ \A d \in Calls \ {c} : pc'[d] = pc[d] /\ row'[d] = row[d]
        /\ row' = [d \in Calls |-> row'[d]]
    BY <2>2, HeldRows DEF Places, following
  <2>4. \A d \in Calls : pc'[d] \in {"insert", "commit"} =>
          Record(row'[d]) /\ Continues(row'[d])
    BY <2>1, <2>3, HeldRows DEF following
  <2>5. \A d \in Calls : pc'[d] = "commit" => d # c /\ pc[d] = "commit" /\ row'[d] = row[d]
    BY <2>3
  <2>6. \A d \in Calls : RowBy(row'[d], d)
    BY <2>1, <2>3, HeldRows DEF following
  <2> QED BY <2>2, <2>3, <2>4, <2>5, <2>6, HeldRows, RowsKept
<1>2. ASSUME NEW c \in Calls, Insert(c) PROVE IInv'
  <2>1. /\ pc[c] = "insert" /\ row' = row /\ rows' = rows
        /\ \A d \in Calls : pc[d] = "commit" => row[d].seq # row[c].seq
    BY <1>2 DEF Insert, Goto
  <2>2. pc' = [pc EXCEPT ![c] = IF Taken(row[c].seq) THEN "failed" ELSE "commit"]
    BY <1>2 DEF Insert, Goto
  <2> DEFINE to == IF Taken(row[c].seq) THEN "failed" ELSE "commit"
  <2>3. to \in {"failed", "commit"} /\ (to = "commit" => ~Taken(row[c].seq))
    OBVIOUS
  <2> HIDE DEF to
  <2>4. /\ pc' \in [Calls -> Places]
        /\ \A d \in Calls : pc'[d] = IF d = c THEN to ELSE pc[d]
    BY <2>2, <2>3, HeldRows DEF Places, to
  <2>5. \A d \in Calls : pc'[d] \in {"insert", "commit"} => pc[d] \in {"insert", "commit"}
    BY <2>1, <2>3, <2>4
  <2>6. \A d \in Calls : pc'[d] = "commit" => ~Taken(row[d].seq)
    BY <2>3, <2>4, HeldRows
  <2>7. \A d, f \in Calls : pc'[d] = "commit" /\ pc'[f] = "commit" /\ d # f
          => row[d].seq # row[f].seq
    BY <2>1, <2>4, HeldRows
  <2> QED BY <2>1, <2>4, <2>5, <2>6, <2>7, HeldRows, RowsKept
<1>3. ASSUME NEW c \in Calls, Commit(c) PROVE IInv'
  BY <1>3, CommitKeeps DEF Commit, Goto, IInv, Places
<1>4. ASSUME NEW c \in Calls, Abort(c) PROVE IInv'
  <2>1. row' = row /\ rows' = rows
    BY <1>4 DEF Abort
  <2>2. /\ pc' \in [Calls -> Places]
        /\ \A d \in Calls : pc'[d] \in {"insert", "commit"} => pc'[d] = pc[d]
        /\ \A d \in Calls : pc[d] \in {"appended", "failed"} => pc'[d] = pc[d]
    BY <1>4, HeldRows DEF Abort, Goto, Places
  <2> QED BY <2>1, <2>2, HeldRows, RowsKept
<1>5. ASSUME NEW c \in Calls, CommitUnconfirmed(c) PROVE IInv'
  BY <1>5, CommitKeeps DEF CommitUnconfirmed, Goto, IInv, Places
<1>6. CASE UNCHANGED vars
  BY <1>6, HeldRows, RowsKept DEF vars
<1> QED BY <1>1, <1>2, <1>3, <1>4, <1>5, <1>6 DEF Next

LEMMA InitIInv == Init => IInv
BY RowOfFields DEF Init, IInv, Places, Numbered

(* The chain has neither gaps nor forks at any moment, for every set of    *)
(* appends, and verify_chain is true exactly as long as JSONB gave every   *)
(* payload back as it was hashed, whatever else it does to payloads.       *)
THEOREM ChainStaysIntact == Spec => []ChainIntact
BY InitIInv, NextKeeps, IInvIntact, PTL DEF Spec

-----------------------------------------------------------------------------
(* The pods.  What the broker, the consumers and the deliveries refer to   *)
(* exists; a call carries its own number; a pod that is past the append    *)
(* has its record in the ledger, and so has what is stored as a decision.  *)
Topics ==
  /\ sent \in Seq(Events)
  /\ topic \in [Partitions -> Seq(Nat)]
  /\ \A q \in Partitions : \A n \in 1 .. Len(topic[q]) : topic[q][n] \in 1 .. Len(sent)

Positions ==
  /\ next \in [Pods -> [Partitions -> Nat]] /\ upto \in [Pods -> [Partitions -> Nat]]
  /\ committed \in [Partitions -> Nat]
  /\ \A p \in Pods, q \in Partitions :
       next[p][q] <= upto[p][q] /\ upto[p][q] <= Len(topic[q])
  /\ \A q \in Partitions : committed[q] <= Len(topic[q])

Deliveries ==
  /\ deliveries \in Seq(Nat)
  /\ \A c \in 1 .. Len(deliveries) : deliveries[c] \in 1 .. Len(sent)

Busy == {"assess", "audit", "put"}

(* A delivery that a call of append may stand for. *)
Known(c) == c \in Calls /\ c \in 1 .. Len(deliveries)

PodsAtWork ==
  /\ pod \in [Pods -> Busy \cup {"poll", "down"}]
  /\ work \in [Pods -> Calls \cup {NoCall}]
  /\ \A p \in Pods : pod[p] \in Busy => Known(work[p])

InLedger(c) == \E r \in rows : RowBy(r, c)

CallsBacked ==
  /\ pc \in [Calls -> Places] /\ row = [c \in Calls |-> row[c]]
  /\ \A c \in Calls : pc[c] \in {"insert", "commit"} => RowBy(row[c], c)
  /\ \A c \in Calls : pc[c] = "appended" => InLedger(c)
  /\ \A p \in Pods : pod[p] = "put" => pc[work[p]] = "appended"

DecisionsBacked ==
  /\ decisions \in [Events -> Calls \cup {NoCall}]
  /\ \A e \in Events : decisions[e] # NoCall =>
       Known(decisions[e]) /\ EventOf(decisions[e]) = e /\ InLedger(decisions[e])

PInv ==
  Topics /\ Positions /\ Deliveries /\ PodsAtWork /\ CallsBacked /\ DecisionsBacked

LEMMA PInvAudited == PInv => DecidedIsAudited
BY DEF PInv, DecisionsBacked, DecidedIsAudited, InLedger, RowBy

LEMMA InitPInv == PipelineInit => PInv
<1> SUFFICES ASSUME PipelineInit PROVE PInv
  OBVIOUS
<1>1. Topics
  BY DEF PipelineInit, Topics
<1>2. Positions
  BY DEF PipelineInit, Positions
<1>3. Deliveries
  BY DEF PipelineInit, Deliveries
<1>4. PodsAtWork
  BY DEF PipelineInit, PodsAtWork, Busy
<1>5. CallsBacked
  BY DEF PipelineInit, Init, CallsBacked, Places
<1>6. DecisionsBacked
  BY DEF PipelineInit, DecisionsBacked
<1> QED BY <1>1, <1>2, <1>3, <1>4, <1>5, <1>6 DEF PInv

(* What the broker has written stays: a delivery keeps its event.          *)
LEMMA EventKept ==
  ASSUME Deliveries, NEW c \in 1 .. Len(deliveries),
         \A n \in 1 .. Len(sent) : sent'[n] = sent[n],
         \A d \in 1 .. Len(deliveries) : deliveries'[d] = deliveries[d]
  PROVE  EventOf(c)' = EventOf(c)
BY DEF Deliveries, EventOf

(* Steps that leave pods, calls and decisions alone. *)
LEMMA Outside ==
  ASSUME PInv, UNCHANGED <<ledger, pod, work, deliveries, decisions>>,
         sent' \in Seq(Events), Len(sent) <= Len(sent'),
         \A n \in 1 .. Len(sent) : sent'[n] = sent[n],
         Topics', Positions'
  PROVE  PInv'
<1> USE DEF ledger
<1>1. Deliveries'
  BY DEF PInv, Topics, Deliveries
<1>2. PodsAtWork'
  BY DEF PInv, PodsAtWork, Known
<1>3. CallsBacked'
  BY DEF PInv, CallsBacked, InLedger
<1>4. DecisionsBacked'
  <2>1. ASSUME NEW e \in Events, decisions'[e] # NoCall
        PROVE  (Known(decisions[e]) /\ EventOf(decisions[e]) = e /\ InLedger(decisions[e]))'
    <3>1. Known(decisions[e]) /\ EventOf(decisions[e]) = e /\ InLedger(decisions[e])
      BY <2>1 DEF PInv, DecisionsBacked
    <3>2. EventOf(decisions[e])' = EventOf(decisions[e])
      <4>1. EventOf(decisions[e]) = sent[deliveries[decisions[e]]]
        BY DEF EventOf
      <4>2. EventOf(decisions[e])' = sent'[deliveries[decisions[e]]]
        BY DEF EventOf
      <4>3. deliveries[decisions[e]] \in 1 .. Len(sent)
        BY <3>1 DEF PInv, Deliveries, Known
      <4> QED BY <4>1, <4>2, <4>3
    <3> QED BY <3>1, <3>2 DEF Known, InLedger
  <2> QED BY <2>1 DEF PInv, DecisionsBacked
<1> QED BY <1>1, <1>2, <1>3, <1>4 DEF PInv

LEMMA LengthIsNat ==
  ASSUME NEW S, NEW s \in Seq(S) PROVE Len(s) \in Nat
OBVIOUS

LEMMA Concatenated ==
  ASSUME NEW S, NEW s \in Seq(S), NEW t \in Seq(S)
  PROVE  /\ s \o t \in Seq(S)
         /\ Len(s \o t) = Len(s) + Len(t) /\ Len(s) \in Nat /\ Len(t) \in Nat
         /\ \A n \in 1 .. Len(s) : (s \o t)[n] = s[n]
         /\ \A n \in 1 .. Len(s \o t) : n > Len(s) => (s \o t)[n] = t[n - Len(s)]
OBVIOUS

(* What a write adds to the broker: messages with new numbers at the end   *)
(* of the partition of the event's identity.                               *)
Written(e) ==
  LET q == PartitionOf[IdentityOf[e]]
  IN  /\ q \in Partitions
      /\ sent' \in Seq(Events) /\ Len(sent) <= Len(sent')
      /\ topic' \in [Partitions -> Seq(Nat)]
      /\ \A n \in 1 .. Len(sent) : sent'[n] = sent[n]
      /\ \A x \in Partitions \ {q} : topic'[x] = topic[x]
      /\ Len(topic[q]) <= Len(topic'[q])
      /\ \A n \in 1 .. Len(topic[q]) : topic'[q][n] = topic[q][n]
      /\ \A n \in 1 .. Len(topic'[q]) : n > Len(topic[q]) =>
           /\ topic'[q][n] = Len(sent) + (n - Len(topic[q]))
           /\ topic'[q][n] \in 1 .. Len(sent') /\ sent'[topic'[q][n]] = e

LEMMA WriteExtends ==
  ASSUME PInv, NEW e \in Events, Produce(e)
  PROVE  Written(e)
<1>1. PICK copies \in 0 .. MaxCopies, q \in {PartitionOf[IdentityOf[e]]} :
        /\ sent' = sent \o [n \in 1 .. copies |-> e]
        /\ topic' = [topic EXCEPT ![q] = @ \o [n \in 1 .. copies |-> Len(sent) + n]]
  BY DEF Produce, Write
<1>2. q \in Partitions /\ copies \in Nat
  BY <1>1, KeysAssumption
<1> DEFINE more == [n \in 1 .. copies |-> e]
           numbers == [n \in 1 .. copies |-> Len(sent) + n]
<1>3. more \in Seq(Events) /\ Len(more) = copies /\ \A n \in 1 .. copies : more[n] = e
  BY <1>2
<1>4. /\ numbers \in Seq(Nat) /\ Len(numbers) = copies
      /\ \A n \in 1 .. copies : numbers[n] = Len(sent) + n
  BY <1>2 DEF PInv, Topics
<1>5. sent' = sent \o more /\ topic' = [topic EXCEPT ![q] = @ \o numbers]
  BY <1>1
<1> HIDE DEF more, numbers
<1>6. sent \in Seq(Events) /\ topic[q] \in Seq(Nat) /\ topic \in [Partitions -> Seq(Nat)]
  BY <1>2 DEF PInv, Topics
<1>7. Len(topic[q]) \in Nat /\ Len(sent) \in Nat
  BY <1>6
<1>8. /\ sent' \in Seq(Events) /\ Len(sent') = Len(sent) + copies
      /\ \A n \in 1 .. Len(sent) : sent'[n] = sent[n]
      /\ \A n \in 1 .. Len(sent') : n > Len(sent) => sent'[n] = more[n - Len(sent)]
  BY <1>3, <1>5, <1>6, Concatenated
<1> DEFINE longer == topic[q] \o numbers
<1>9. /\ longer \in Seq(Nat) /\ Len(longer) = Len(topic[q]) + copies
      /\ \A n \in 1 .. Len(topic[q]) : longer[n] = topic[q][n]
      /\ \A n \in 1 .. Len(longer) : n > Len(topic[q]) => longer[n] = numbers[n - Len(topic[q])]
  <2> DEFINE old == topic[q]
  <2>1. old \in Seq(Nat) /\ numbers \in Seq(Nat) /\ Len(numbers) = copies
    BY <1>4, <1>6
  <2>2. longer = old \o numbers
    OBVIOUS
  <2> HIDE DEF old, longer
  <2>3. /\ longer \in Seq(Nat) /\ Len(longer) = Len(old) + Len(numbers)
        /\ \A n \in 1 .. Len(old) : longer[n] = old[n]
        /\ \A n \in 1 .. Len(longer) : n > Len(old) => longer[n] = numbers[n - Len(old)]
    BY <2>1, <2>2, Concatenated
  <2> QED BY <2>1, <2>3 DEF old
<1>10. topic' = [topic EXCEPT ![q] = longer]
  BY <1>5
<1> HIDE DEF longer
<1>11. /\ topic' \in [Partitions -> Seq(Nat)] /\ topic'[q] = longer
       /\ \A x \in Partitions \ {q} : topic'[x] = topic[x]
  BY <1>2, <1>6, <1>9, <1>10
<1>12. ASSUME NEW n \in 1 .. Len(topic'[q]), n > Len(topic[q])
       PROVE  /\ topic'[q][n] = Len(sent) + (n - Len(topic[q]))
              /\ topic'[q][n] \in 1 .. Len(sent') /\ sent'[topic'[q][n]] = e
  <2>1. n - Len(topic[q]) \in 1 .. copies
    BY <1>2, <1>7, <1>9, <1>11, <1>12
  <2>2. topic'[q][n] = Len(sent) + (n - Len(topic[q]))
    BY <1>4, <1>9, <1>11, <1>12, <2>1
  <2> DEFINE k == n - Len(topic[q])
  <2> HIDE DEF k
  <2>3. /\ k \in 1 .. copies /\ topic'[q][n] = Len(sent) + k
    BY <2>1, <2>2 DEF k
  <2>4. Len(sent) + k \in 1 .. Len(sent') /\ Len(sent) + k > Len(sent) /\ Len(sent) + k - Len(sent) = k
    BY <1>2, <1>7, <1>8, <2>3
  <2>5. sent'[Len(sent) + k] = e
    BY <1>3, <1>8, <2>3, <2>4
  <2> QED BY <2>2, <2>3, <2>4, <2>5
<1>13. Len(sent) <= Len(sent') /\ Len(topic[q]) <= Len(topic'[q])
  BY <1>2, <1>7, <1>8, <1>9, <1>11
<1>14. q = PartitionOf[IdentityOf[e]] /\ \A n \in 1 .. Len(topic[q]) : topic'[q][n] = topic[q][n]
  BY <1>1, <1>9, <1>11
<1> QED BY <1>2, <1>8, <1>11, <1>12, <1>13, <1>14 DEF Written

LEMMA WriteKeeps ==
  ASSUME PInv, NEW e \in Events, Produce(e)
  PROVE  PInv'
<1> DEFINE q == PartitionOf[IdentityOf[e]]
<1>1. UNCHANGED <<ledger, pod, work, deliveries, decisions, next, upto, committed>>
  BY DEF Produce, Write, kafka, results
<1>2. /\ q \in Partitions
      /\ sent' \in Seq(Events) /\ Len(sent) <= Len(sent')
      /\ topic' \in [Partitions -> Seq(Nat)]
      /\ \A n \in 1 .. Len(sent) : sent'[n] = sent[n]
      /\ \A x \in Partitions \ {q} : topic'[x] = topic[x]
      /\ Len(topic[q]) <= Len(topic'[q])
      /\ \A n \in 1 .. Len(topic[q]) : topic'[q][n] = topic[q][n]
      /\ \A n \in 1 .. Len(topic'[q]) : n > Len(topic[q]) => topic'[q][n] \in 1 .. Len(sent')
  BY WriteExtends DEF Written
<1>3. /\ Len(sent) \in Nat /\ Len(sent') \in Nat
      /\ \A x \in Partitions : Len(topic[x]) \in Nat /\ Len(topic'[x]) \in Nat
  <2>1. sent \in Seq(Events) /\ \A x \in Partitions : topic[x] \in Seq(Nat) /\ topic'[x] \in Seq(Nat)
    BY <1>2 DEF PInv, Topics
  <2> QED BY <1>2, <2>1
<1> HIDE DEF q
<1>4. Topics'
  <2>1. ASSUME NEW x \in Partitions, NEW n \in 1 .. Len(topic'[x])
        PROVE  topic'[x][n] \in 1 .. Len(sent')
    <3>1. CASE n \in 1 .. Len(topic[x])
      <4>1. topic'[x][n] = topic[x][n] /\ topic[x][n] \in 1 .. Len(sent)
        BY <1>2, <3>1 DEF PInv, Topics
      <4> QED BY <1>2, <1>3, <4>1
    <3>2. CASE n \notin 1 .. Len(topic[x])
      <4>1. x = q /\ n \in 1 .. Len(topic'[q])
        BY <1>2, <3>2
      <4>2. n > Len(topic[q])
        BY <1>2, <1>3, <3>2, <4>1
      <4> QED BY <1>2, <4>1, <4>2
    <3> QED BY <3>1, <3>2
  <2> QED BY <1>2, <2>1 DEF Topics
<1>5. \A x \in Partitions : Len(topic[x]) <= Len(topic'[x])
  BY <1>2, <1>3
<1>6. Positions'
  <2>1. \A p \in Pods, x \in Partitions :
          next[p][x] <= upto[p][x] /\ upto[p][x] <= Len(topic[x]) /\ upto[p][x] \in Nat
    BY DEF PInv, Positions
  <2>2. \A x \in Partitions : committed[x] \in Nat /\ committed[x] <= Len(topic[x])
    BY DEF PInv, Positions
  <2>3. \A p \in Pods, x \in Partitions : upto[p][x] <= Len(topic'[x])
    BY <1>3, <1>5, <2>1
  <2>4. \A x \in Partitions : committed[x] <= Len(topic'[x])
    BY <1>3, <1>5, <2>2
  <2> QED BY <1>1, <2>1, <2>3, <2>4 DEF PInv, Positions
<1> QED BY <1>1, <1>2, <1>4, <1>6, Outside

(* Positions move within what the broker has. *)
LEMMA PositionsKeep ==
  ASSUME PInv, UNCHANGED <<ledger, ingress, pod, work, deliveries, decisions>>, Positions'
  PROVE  PInv'
<1>1. Topics'
  BY DEF PInv, Topics, ingress
<1>2. /\ UNCHANGED <<ledger, pod, work, deliveries, decisions>> /\ sent' = sent
      /\ sent \in Seq(Events) /\ Len(sent) <= Len(sent)
  BY DEF ingress, PInv, Topics
<1> QED BY <1>1, <1>2, Outside

LEMMA Lengths ==
  ASSUME PInv, NEW q \in Partitions PROVE Len(topic[q]) \in Nat
<1>1. topic[q] \in Seq(Nat)
  BY DEF PInv, Topics
<1> QED BY <1>1

(* Where a position is after a partition got an owner. *)
LEMMA TakeOverMoves ==
  ASSUME PInv, NEW q \in Partitions, NEW p \in Pods, committed'[q] \in Nat,
         NEW where \in [Pods -> [Partitions -> Nat]]
  PROVE  /\ Moved(where, q, p) \in [Pods -> [Partitions -> Nat]]
         /\ \A x \in Pods, y \in Partitions :
              Moved(where, q, p)[x][y]
                = IF y # q THEN where[x][y]
                  ELSE IF x = p THEN committed'[q]
                  ELSE IF Polling(x) THEN 0 ELSE where[x][y]
BY DEF Moved, StartsFrom

LEMMA TakeOverKeeps ==
  ASSUME PInv, NEW q \in Partitions, NEW p \in Pods, TakeOver(q, p),
         committed' \in [Partitions -> Nat],
         \A x \in Partitions : committed'[x] <= Len(topic[x])
  PROVE  PInv'
<1>1. topic' = topic /\ next' = Moved(next, q, p) /\ upto' = Moved(upto, q, p)
  BY DEF TakeOver, ingress
<1>2. committed'[q] \in Nat
  OBVIOUS
<1>3. next \in [Pods -> [Partitions -> Nat]] /\ upto \in [Pods -> [Partitions -> Nat]]
  BY DEF PInv, Positions
<1>4. ASSUME NEW where \in [Pods -> [Partitions -> Nat]]
      PROVE  \A x \in Pods, y \in Partitions :
               Moved(where, q, p)[x][y]
                 = IF y # q THEN where[x][y]
                   ELSE IF x = p THEN committed'[q]
                   ELSE IF Polling(x) THEN 0 ELSE where[x][y]
  BY <1>2, TakeOverMoves
<1>5. ASSUME NEW x \in Pods, NEW y \in Partitions
      PROVE  next'[x][y] <= upto'[x][y] /\ upto'[x][y] <= Len(topic[y])
  <2>1. next[x][y] <= upto[x][y] /\ upto[x][y] <= Len(topic[y]) /\ Len(topic[y]) \in Nat
    BY Lengths DEF PInv, Positions
  <2>2. committed'[q] <= Len(topic[q])
    OBVIOUS
  <2>3. next'[x][y] = IF y # q THEN next[x][y] ELSE IF x = p THEN committed'[q]
                      ELSE IF Polling(x) THEN 0 ELSE next[x][y]
    BY <1>1, <1>3, <1>4
  <2>4. upto'[x][y] = IF y # q THEN upto[x][y] ELSE IF x = p THEN committed'[q]
                      ELSE IF Polling(x) THEN 0 ELSE upto[x][y]
    BY <1>1, <1>3, <1>4
  <2>5. CASE y # q
    BY <2>1, <2>3, <2>4, <2>5
  <2>6. CASE y = q /\ x = p
    BY <1>2, <2>1, <2>2, <2>3, <2>4, <2>6
  <2>7. CASE y = q /\ x # p
    BY <2>1, <2>3, <2>4, <2>7
  <2> QED BY <2>5, <2>6, <2>7
<1>6. next' \in [Pods -> [Partitions -> Nat]] /\ upto' \in [Pods -> [Partitions -> Nat]]
  BY <1>1, <1>2, <1>3, TakeOverMoves
<1>7. Positions'
  BY <1>1, <1>5, <1>6 DEF Positions
<1>8. UNCHANGED <<ledger, ingress, pod, work, deliveries, decisions>>
  BY DEF TakeOver, results
<1> QED BY <1>7, <1>8, PositionsKeep

LEMMA CommittedKeep ==
  ASSUME PInv, NEW q \in Partitions, NEW p \in Pods,
         committed' = [committed EXCEPT ![q] = CommitsTo(p, q)]
  PROVE  /\ committed' \in [Partitions -> Nat]
         /\ \A x \in Partitions : committed'[x] <= Len(topic[x])
<1>1. /\ next[p][q] \in Nat /\ next[p][q] <= upto[p][q] /\ upto[p][q] \in Nat
      /\ upto[p][q] <= Len(topic[q]) /\ Len(topic[q]) \in Nat
  BY Lengths DEF PInv, Positions
<1>2. next[p][q] <= Len(topic[q])
  BY <1>1
<1> QED BY <1>1, <1>2 DEF PInv, Positions, CommitsTo

LEMMA GroupKeeps ==
  ASSUME PInv, NEW q \in Partitions, NEW p \in Pods,
         AssignOrphan(q, p) \/ Reassign(q, p) \/ Evict(q, p)
  PROVE  PInv'
<1>1. committed \in [Partitions -> Nat] /\ \A x \in Partitions : committed[x] <= Len(topic[x])
  BY DEF PInv, Positions
<1>2. CASE AssignOrphan(q, p) \/ Evict(q, p)
  BY <1>1, <1>2, TakeOverKeeps DEF AssignOrphan, Evict
<1>3. CASE Reassign(q, p)
  BY <1>3, CommittedKeep, TakeOverKeeps DEF Reassign
<1> QED BY <1>2, <1>3

LEMMA AutoCommitKeeps ==
  ASSUME PInv, NEW q \in Partitions, AutoCommit(q)
  PROVE  PInv'
<1>1. committed' \in [Partitions -> Nat] /\ \A x \in Partitions : committed'[x] <= Len(topic[x])
  BY CommittedKeep DEF AutoCommit
<1>2. UNCHANGED <<ledger, ingress, pod, work, deliveries, decisions, next, upto>> /\ topic' = topic
  BY DEF AutoCommit, results, ingress
<1>3. Positions'
  BY <1>1, <1>2 DEF PInv, Positions
<1> QED BY <1>2, <1>3, PositionsKeep

LEMMA FetchKeeps ==
  ASSUME PInv, NEW p \in Pods, Fetch(p)
  PROVE  PInv'
<1> DEFINE end == [q \in Partitions |-> IF owner[q] = p THEN Len(topic[q]) ELSE upto[p][q]]
<1>1. /\ UNCHANGED <<ledger, ingress, pod, work, deliveries, decisions, next, committed>>
      /\ topic' = topic /\ upto' = [upto EXCEPT ![p] = end]
  BY DEF Fetch, results, ingress
<1>2. ASSUME NEW q \in Partitions
      PROVE  /\ end[q] \in Nat /\ end[q] <= Len(topic[q]) /\ upto[p][q] <= end[q]
             /\ next[p][q] <= end[q]
  BY Lengths DEF PInv, Positions
<1>3. end \in [Partitions -> Nat]
  BY <1>2
<1> HIDE DEF end
<1>4. Positions'
  BY <1>1, <1>2, <1>3 DEF PInv, Positions
<1> QED BY <1>1, <1>4, PositionsKeep

(* What a step of a pod that stores no decision and adds no row leaves.    *)
LEMMA DecisionsKept ==
  ASSUME PInv, UNCHANGED <<sent, decisions>>,
         \A c : InLedger(c) => InLedger(c)',
         Len(deliveries) <= Len(deliveries'), Len(deliveries') \in Nat,
         \A d \in 1 .. Len(deliveries) : deliveries'[d] = deliveries[d]
  PROVE  DecisionsBacked'
<1>1. ASSUME NEW e \in Events, decisions'[e] # NoCall
      PROVE  (Known(decisions[e]) /\ EventOf(decisions[e]) = e /\ InLedger(decisions[e]))'
  <2>1. /\ Known(decisions[e]) /\ EventOf(decisions[e]) = e /\ InLedger(decisions[e])
        /\ decisions'[e] = decisions[e]
    BY <1>1 DEF PInv, DecisionsBacked
  <2>2. Len(deliveries) \in Nat
    BY DEF PInv, Deliveries
  <2>3. EventOf(decisions[e])' = EventOf(decisions[e])
    BY <2>1 DEF EventOf, Known
  <2>4. Known(decisions[e])'
    BY <2>1, <2>2 DEF Known
  <2> QED BY <2>1, <2>3, <2>4
<1> QED BY <1>1 DEF PInv, DecisionsBacked

LEMMA HandOutKeeps ==
  ASSUME PInv, NEW p \in Pods, HandOut(p)
  PROVE  PInv'
<1>1. PICK q \in Partitions :
        /\ next[p][q] < upto[p][q]
        /\ next' = [next EXCEPT ![p][q] = @ + 1]
        /\ deliveries' = Append(deliveries, topic[q][next[p][q] + 1])
  BY DEF HandOut
<1>2. /\ pod[p] = "poll" /\ Len(deliveries) + 1 \in Calls
      /\ pod' = [pod EXCEPT ![p] = "assess"]
      /\ work' = [work EXCEPT ![p] = Len(deliveries')]
      /\ UNCHANGED <<ledger, sent, topic, committed, upto, decisions>>
  BY DEF HandOut, ingress, results
<1> DEFINE msg == topic[q][next[p][q] + 1]
<1>3. /\ next[p][q] \in Nat /\ upto[p][q] \in Nat /\ upto[p][q] <= Len(topic[q])
      /\ Len(topic[q]) \in Nat
  BY Lengths DEF PInv, Positions
<1>4. msg \in 1 .. Len(sent) /\ Len(sent) \in Nat
  <2>1. next[p][q] + 1 \in 1 .. Len(topic[q])
    BY <1>1, <1>3
  <2> QED BY <2>1 DEF PInv, Topics
<1>5. deliveries' = Append(deliveries, msg) /\ deliveries \in Seq(Nat)
  BY <1>1 DEF PInv, Deliveries
<1> HIDE DEF msg
<1>6. /\ deliveries' \in Seq(Nat) /\ Len(deliveries') = Len(deliveries) + 1
      /\ Len(deliveries) \in Nat /\ deliveries'[Len(deliveries) + 1] = msg
      /\ \A d \in 1 .. Len(deliveries) : deliveries'[d] = deliveries[d]
  BY <1>4, <1>5
<1>7. Topics'
  BY <1>2 DEF PInv, Topics
<1>8. Positions'
  <2>1. next' \in [Pods -> [Partitions -> Nat]]
    BY <1>1, <1>3 DEF PInv, Positions
  <2>2. ASSUME NEW x \in Pods, NEW y \in Partitions
        PROVE  next'[x][y] <= upto[x][y] /\ upto[x][y] <= Len(topic[y])
    <3>1. next[x][y] <= upto[x][y] /\ upto[x][y] <= Len(topic[y])
      BY DEF PInv, Positions
    <3>2. next'[x][y] = IF x = p /\ y = q THEN next[p][q] + 1 ELSE next[x][y]
      BY <1>1 DEF PInv, Positions
    <3> QED BY <1>1, <1>3, <3>1, <3>2
  <2> QED BY <1>2, <2>1, <2>2 DEF PInv, Positions
<1>9. Deliveries'
  <2>1. ASSUME NEW d \in 1 .. Len(deliveries') PROVE deliveries'[d] \in 1 .. Len(sent)
    <3>1. CASE d \in 1 .. Len(deliveries)
      BY <1>6, <3>1 DEF PInv, Deliveries
    <3>2. CASE d = Len(deliveries) + 1
      BY <1>4, <1>6, <3>2
    <3> QED BY <1>6, <3>1, <3>2
  <2> QED BY <1>2, <1>6, <2>1 DEF Deliveries
<1>10. PodsAtWork'
  <2>1. /\ pod' \in [Pods -> Busy \cup {"poll", "down"}]
        /\ work' \in [Pods -> Calls \cup {NoCall}]
    BY <1>2, <1>6 DEF PInv, PodsAtWork, Busy
  <2>2. ASSUME NEW x \in Pods, pod'[x] \in Busy PROVE Known(work[x])'
    <3>1. CASE x = p
      BY <1>2, <1>6, <3>1 DEF PInv, PodsAtWork, Known
    <3>2. CASE x # p
      <4>1. pod'[x] = pod[x] /\ work'[x] = work[x]
        BY <1>2, <3>2 DEF PInv, PodsAtWork
      <4>2. Known(work[x])
        BY <2>2, <4>1 DEF PInv, PodsAtWork
      <4> QED BY <1>6, <4>1, <4>2 DEF Known
    <3> QED BY <3>1, <3>2
  <2> QED BY <2>1, <2>2 DEF PodsAtWork
<1>11. CallsBacked'
  <2>1. ASSUME NEW x \in Pods, pod'[x] = "put" PROVE pod[x] = "put" /\ work'[x] = work[x]
    BY <1>2, <2>1 DEF PInv, PodsAtWork
  <2> QED BY <1>2, <2>1 DEF PInv, CallsBacked, InLedger, ledger
<1>12. DecisionsBacked'
  <2>1. \A c : InLedger(c) => InLedger(c)'
    BY <1>2 DEF InLedger, ledger
  <2> QED BY <1>2, <1>6, <2>1, DecisionsKept
<1> QED BY <1>7, <1>8, <1>9, <1>10, <1>11, <1>12 DEF PInv

(* A pod goes from one place to another with the delivery it has, or drops it. *)
Moves(p, to) ==
  /\ to \in Busy \cup {"poll", "down"}
  /\ to \in Busy => pod[p] \in Busy
  /\ pod' = [pod EXCEPT ![p] = to]
  /\ work' = work \/ (to \notin Busy /\ work' = [work EXCEPT ![p] = NoCall])

LEMMA OnwardMoves ==
  ASSUME PInv, NEW p \in Pods, NEW to \in Busy \cup {"poll", "down"},
         to \in Busy => pod[p] \in Busy, Onward(p, to)
  PROVE  Moves(p, to)
BY DEF Moves, Onward, Busy

LEMMA MovesKeep ==
  ASSUME PInv, NEW p \in Pods, NEW to, Moves(p, to),
         UNCHANGED <<sent, topic, deliveries>>
  PROVE  /\ Topics' /\ Deliveries' /\ PodsAtWork'
         /\ \A x \in Pods : x # p => pod'[x] = pod[x] /\ work'[x] = work[x]
         /\ pod'[p] = to /\ (to \in Busy => work'[p] = work[p])
<1>1. Topics' /\ Deliveries'
  BY DEF PInv, Topics, Deliveries
<1>2. /\ \A x \in Pods : x # p => pod'[x] = pod[x] /\ work'[x] = work[x]
      /\ pod'[p] = to /\ (to \in Busy => work'[p] = work[p])
  BY DEF PInv, PodsAtWork, Moves
<1>3. /\ pod' \in [Pods -> Busy \cup {"poll", "down"}]
      /\ work' \in [Pods -> Calls \cup {NoCall}]
  BY DEF PInv, PodsAtWork, Moves
<1>4. ASSUME NEW x \in Pods, pod'[x] \in Busy PROVE Known(work[x])'
  <2>1. pod[x] \in Busy /\ work'[x] = work[x]
    BY <1>2, <1>4 DEF Moves
  <2> QED BY <2>1 DEF PInv, PodsAtWork, Known
<1> QED BY <1>1, <1>2, <1>3, <1>4 DEF PodsAtWork

(* One step of one append. *)
LEMMA LedgerStep ==
  ASSUME PInv, NEW c \in Calls,
         Select(c) \/ Insert(c) \/ Commit(c) \/ Abort(c) \/ CommitUnconfirmed(c)
  PROVE  /\ pc' \in [Calls -> Places] /\ row' = [d \in Calls |-> row'[d]]
         /\ \A d \in Calls : pc'[d] \in {"insert", "commit"} => RowBy(row'[d], d)
         /\ \A d \in Calls : pc'[d] = "appended" => InLedger(d)'
         /\ \A d : InLedger(d) => InLedger(d)'
         /\ \A d \in Calls : d # c => pc'[d] = pc[d]
         /\ pc[c] \in {"select", "insert", "commit"}
<1>1. /\ pc \in [Calls -> Places] /\ row = [d \in Calls |-> row[d]]
      /\ \A d \in Calls : pc[d] \in {"insert", "commit"} => RowBy(row[d], d)
      /\ \A d \in Calls : pc[d] = "appended" => InLedger(d)
  BY DEF PInv, CallsBacked
<1>2. CASE Select(c)
  <2>1. RowBy(NextRow(c), c)
    BY RowOfFields DEF NextRow
  <2> DEFINE new == NextRow(c)
  <2>2. /\ pc[c] = "select" /\ pc' = [pc EXCEPT ![c] = "insert"]
        /\ row' = [row EXCEPT ![c] = new] /\ rows' = rows
    BY <1>2 DEF Select, Goto
  <2>3. RowBy(new, c)
    BY <2>1
  <2> HIDE DEF new
  <2>4. /\ pc' \in [Calls -> Places] /\ pc'[c] = "insert" /\ row'[c] = new
        /\ \A d \in Calls : d # c => pc'[d] = pc[d] /\ row'[d] = row[d]
        /\ row' = [d \in Calls |-> row'[d]]
    BY <1>1, <2>2 DEF Places
  <2>5. \A d : InLedger(d) <=> InLedger(d)'
    BY <2>2 DEF InLedger
  <2> QED BY <1>1, <2>2, <2>3, <2>4, <2>5
<1>3. ASSUME NEW to \in {"commit", "failed"}, pc[c] \in {"select", "insert", "commit"},
             to = "commit" => pc[c] = "insert",
             pc' = [pc EXCEPT ![c] = to], rows' = rows, row' = row
      PROVE  /\ pc' \in [Calls -> Places] /\ row' = [d \in Calls |-> row'[d]]
             /\ \A d \in Calls : pc'[d] \in {"insert", "commit"} => RowBy(row'[d], d)
             /\ \A d \in Calls : pc'[d] = "appended" => InLedger(d)'
             /\ \A d : InLedger(d) => InLedger(d)'
             /\ \A d \in Calls : d # c => pc'[d] = pc[d]
  <2>1. \A d : InLedger(d) <=> InLedger(d)'
    BY <1>3 DEF InLedger
  <2>2. /\ pc' \in [Calls -> Places] /\ pc'[c] = to
        /\ \A d \in Calls : d # c => pc'[d] = pc[d]
    BY <1>1, <1>3 DEF Places
  <2> QED BY <1>1, <1>3, <2>1, <2>2
<1>4. ASSUME NEW to \in {"appended", "failed"}, pc[c] = "commit",
             pc' = [pc EXCEPT ![c] = to], rows' = rows \cup {row[c]}, row' = row
      PROVE  /\ pc' \in [Calls -> Places] /\ row' = [d \in Calls |-> row'[d]]
             /\ \A d \in Calls : pc'[d] \in {"insert", "commit"} => RowBy(row'[d], d)
             /\ \A d \in Calls : pc'[d] = "appended" => InLedger(d)'
             /\ \A d : InLedger(d) => InLedger(d)'
             /\ \A d \in Calls : d # c => pc'[d] = pc[d]
  <2>1. RowBy(row[c], c) /\ row[c] \in rows'
    BY <1>1, <1>4
  <2>2. (\A d : InLedger(d) => InLedger(d)') /\ InLedger(c)'
    BY <1>4, <2>1 DEF InLedger
  <2>3. /\ pc' \in [Calls -> Places] /\ pc'[c] = to
        /\ \A d \in Calls : d # c => pc'[d] = pc[d]
    BY <1>1, <1>4 DEF Places
  <2> QED BY <1>1, <1>4, <2>2, <2>3
<1>5. CASE Insert(c)
  <2>1. /\ pc[c] = "insert" /\ row' = row /\ rows' = rows
        /\ pc' = [pc EXCEPT ![c] = IF Taken(row[c].seq) THEN "failed" ELSE "commit"]
    BY <1>5 DEF Insert, Goto
  <2>2. CASE Taken(row[c].seq)
    BY <1>3, <2>1, <2>2
  <2>3. CASE ~Taken(row[c].seq)
    BY <1>3, <2>1, <2>3
  <2> QED BY <2>1, <2>2, <2>3
<1>6. CASE Commit(c)
  BY <1>4, <1>6 DEF Commit, Goto
<1>7. CASE Abort(c)
  BY <1>3, <1>7 DEF Abort, Goto
<1>8. CASE CommitUnconfirmed(c)
  BY <1>4, <1>8 DEF CommitUnconfirmed, Goto
<1> QED BY <1>2, <1>5, <1>6, <1>7, <1>8

LEMMA UntouchedLedger ==
  ASSUME PInv, UNCHANGED ledger,
         \A x \in Pods : pod'[x] = "put" => pod[x] = "put" /\ work'[x] = work[x]
  PROVE  CallsBacked' /\ \A c : InLedger(c) => InLedger(c)'
BY DEF PInv, CallsBacked, InLedger, ledger

LEMMA AssessKeeps ==
  ASSUME PInv, NEW p \in Pods, Assess(p)
  PROVE  PInv'
<1>1. /\ pod[p] = "assess" /\ pod[p] \in Busy
      /\ UNCHANGED <<ledger, sent, topic, decisions, deliveries, next, upto, committed>>
  BY DEF Assess, ingress, kafka, Busy
<1>2. PICK to \in {"poll", "audit"} : Moves(p, to)
  BY <1>1, OnwardMoves DEF Assess, GiveUp, Busy
<1>3. /\ Topics' /\ Deliveries' /\ PodsAtWork'
      /\ \A x \in Pods : x # p => pod'[x] = pod[x] /\ work'[x] = work[x]
      /\ pod'[p] = to
  BY <1>1, <1>2, MovesKeep
<1>4. Positions'
  BY <1>1 DEF PInv, Positions
<1>5. CallsBacked' /\ \A c : InLedger(c) => InLedger(c)'
  BY <1>1, <1>3, UntouchedLedger
<1>6. DecisionsBacked'
  BY <1>1, <1>5, DecisionsKept DEF PInv, Deliveries
<1> QED BY <1>3, <1>4, <1>5, <1>6 DEF PInv

LEMMA AppendAuditKeeps ==
  ASSUME PInv, NEW p \in Pods, AppendAudit(p)
  PROVE  PInv'
<1>1. /\ pod[p] = "audit" /\ pod[p] \in Busy /\ AuditStep(work[p])
      /\ UNCHANGED <<sent, topic, decisions, deliveries, next, upto, committed>>
  BY DEF AppendAudit, ingress, kafka, Busy
<1>2. work[p] \in Calls
  BY <1>1 DEF PInv, PodsAtWork, Known
<1>3. PICK to \in {"poll", "put", "audit"} :
        Moves(p, to) /\ (to = "put" => pc'[work[p]] = "appended")
  <2>1. CASE pc'[work[p]] = "failed"
    BY <1>1, <2>1, OnwardMoves DEF AppendAudit, GiveUp, Busy
  <2>2. CASE pc'[work[p]] = "appended"
    BY <1>1, <2>2, OnwardMoves DEF AppendAudit, Busy
  <2>3. CASE pc'[work[p]] \notin {"failed", "appended"}
    <3>1. pod' = pod /\ work' = work
      BY <2>3 DEF AppendAudit
    <3>2. Moves(p, "audit")
      BY <1>1, <3>1 DEF Moves, Busy, PInv, PodsAtWork
    <3> QED BY <3>2
  <2> QED BY <2>1, <2>2, <2>3
<1>4. /\ Topics' /\ Deliveries' /\ PodsAtWork'
      /\ \A x \in Pods : x # p => pod'[x] = pod[x] /\ work'[x] = work[x]
      /\ pod'[p] = to /\ (to \in Busy => work'[p] = work[p])
  BY <1>1, <1>3, MovesKeep
<1>5. /\ pc' \in [Calls -> Places] /\ row' = [d \in Calls |-> row'[d]]
      /\ \A d \in Calls : pc'[d] \in {"insert", "commit"} => RowBy(row'[d], d)
      /\ \A d \in Calls : pc'[d] = "appended" => InLedger(d)'
      /\ \A d : InLedger(d) => InLedger(d)'
      /\ \A d \in Calls : d # work[p] => pc'[d] = pc[d]
      /\ pc[work[p]] \in {"select", "insert", "commit"}
  BY <1>1, <1>2, LedgerStep DEF AuditStep
<1>6. ASSUME NEW x \in Pods, pod'[x] = "put" PROVE pc'[work'[x]] = "appended"
  <2>1. CASE x = p
    BY <1>3, <1>4, <1>6, <2>1 DEF Busy
  <2>2. CASE x # p
    <3>1. pod[x] = "put" /\ work'[x] = work[x]
      BY <1>4, <1>6, <2>2
    <3>2. pc[work[x]] = "appended" /\ work[x] \in Calls
      BY <3>1 DEF PInv, CallsBacked, PodsAtWork, Known, Busy
    <3> QED BY <1>5, <3>1, <3>2
  <2> QED BY <2>1, <2>2
<1>7. CallsBacked'
  BY <1>5, <1>6 DEF CallsBacked
<1>8. Positions'
  BY <1>1 DEF PInv, Positions
<1>9. DecisionsBacked'
  BY <1>1, <1>5, DecisionsKept DEF PInv, Deliveries
<1> QED BY <1>4, <1>7, <1>8, <1>9 DEF PInv

LEMMA PutKeeps ==
  ASSUME PInv, NEW p \in Pods, Put(p)
  PROVE  PInv'
<1>1. /\ pod[p] = "put" /\ pod[p] \in Busy
      /\ decisions' \in {decisions, Stored(work[p])}
      /\ UNCHANGED <<ledger, sent, topic, deliveries, next, upto, committed>>
  BY DEF Put, ingress, kafka, Busy
<1>2. Moves(p, "poll")
  BY <1>1, OnwardMoves DEF Put, GiveUp, Busy
<1>3. /\ Topics' /\ Deliveries' /\ PodsAtWork'
      /\ \A x \in Pods : x # p => pod'[x] = pod[x] /\ work'[x] = work[x]
      /\ pod'[p] = "poll"
  BY <1>1, <1>2, MovesKeep
<1>4. Positions'
  BY <1>1 DEF PInv, Positions
<1>5. CallsBacked' /\ \A c : InLedger(c) => InLedger(c)'
  BY <1>1, <1>3, UntouchedLedger
<1>6. \A c : (Known(c) => Known(c)') /\ EventOf(c)' = EventOf(c)
  BY <1>1 DEF Known, EventOf
<1>7. Known(work[p]) /\ InLedger(work[p])
  <2>1. Known(work[p]) /\ pc[work[p]] = "appended"
    BY <1>1 DEF PInv, PodsAtWork, CallsBacked
  <2> QED BY <2>1 DEF PInv, CallsBacked, Known
<1>8. ASSUME NEW e \in Events
      PROVE  decisions'[e] \in Calls \cup {NoCall} /\
             (decisions'[e] # NoCall =>
                Known(decisions'[e]) /\ EventOf(decisions'[e]) = e /\ InLedger(decisions'[e]))
  <2>1. /\ decisions[e] \in Calls \cup {NoCall}
        /\ decisions[e] # NoCall =>
             Known(decisions[e]) /\ EventOf(decisions[e]) = e /\ InLedger(decisions[e])
    BY DEF PInv, DecisionsBacked
  <2>2. \/ decisions'[e] = decisions[e]
        \/ e = EventOf(work[p]) /\ decisions'[e] = work[p]
    BY <1>1 DEF Stored, PInv, DecisionsBacked
  <2> QED BY <1>7, <2>1, <2>2 DEF Known
<1>9. decisions' \in [Events -> Calls \cup {NoCall}]
  <2>1. DOMAIN decisions' = Events /\ decisions' = [e \in Events |-> decisions'[e]]
    BY <1>1 DEF Stored, PInv, DecisionsBacked
  <2> QED BY <1>8, <2>1
<1>10. DecisionsBacked'
  <2> SUFFICES ASSUME NEW e \in Events, decisions'[e] # NoCall
               PROVE  (Known(decisions[e]) /\ EventOf(decisions[e]) = e /\ InLedger(decisions[e]))'
    BY <1>9 DEF DecisionsBacked
  <2>1. Known(decisions'[e]) /\ EventOf(decisions'[e]) = e /\ InLedger(decisions'[e])
    BY <1>8
  <2>2. sent' = sent /\ deliveries' = deliveries /\ rows' = rows
    BY <1>1 DEF ledger
  <2> QED BY <2>1, <2>2 DEF Known, EventOf, InLedger
<1> QED BY <1>3, <1>4, <1>5, <1>10 DEF PInv

LEMMA StopKeeps ==
  ASSUME PInv, NEW p \in Pods, Stop(p)
  PROVE  PInv'
<1>1. /\ next' = [next EXCEPT ![p] = [q \in Partitions |-> 0]]
      /\ upto' = [upto EXCEPT ![p] = [q \in Partitions |-> 0]]
      /\ UNCHANGED <<sent, topic, decisions, deliveries, committed>>
  BY DEF Stop, ingress, results
<1>2. Moves(p, "down")
  BY OnwardMoves DEF Stop, Busy
<1>3. /\ Topics' /\ Deliveries' /\ PodsAtWork'
      /\ \A x \in Pods : x # p => pod'[x] = pod[x] /\ work'[x] = work[x]
      /\ pod'[p] = "down"
  BY <1>1, <1>2, MovesKeep
<1>4. Positions'
  BY <1>1, Lengths DEF PInv, Positions
<1>5. CallsBacked' /\ \A c : InLedger(c) => InLedger(c)'
  <2>1. CASE pod[p] = "audit"
    <3>1. work[p] \in Calls /\ Abort(work[p])
      BY <2>1 DEF PInv, PodsAtWork, Known, Busy, Stop
    <3>2. /\ pc' \in [Calls -> Places] /\ row' = [d \in Calls |-> row'[d]]
          /\ \A d \in Calls : pc'[d] \in {"insert", "commit"} => RowBy(row'[d], d)
          /\ \A d \in Calls : pc'[d] = "appended" => InLedger(d)'
          /\ \A d : InLedger(d) => InLedger(d)'
          /\ \A d \in Calls : d # work[p] => pc'[d] = pc[d]
          /\ pc[work[p]] \in {"select", "insert", "commit"}
      BY <3>1, LedgerStep
    <3>3. ASSUME NEW x \in Pods, pod'[x] = "put" PROVE pc'[work'[x]] = "appended"
      <4>1. x # p /\ pod[x] = "put" /\ work'[x] = work[x]
        BY <1>3, <3>3
      <4>2. pc[work[x]] = "appended" /\ work[x] \in Calls
        BY <4>1 DEF PInv, CallsBacked, PodsAtWork, Known, Busy
      <4> QED BY <3>2, <4>1, <4>2
    <3> QED BY <3>2, <3>3 DEF CallsBacked
  <2>2. CASE pod[p] # "audit"
    <3>1. UNCHANGED ledger
      BY <2>2 DEF Stop
    <3> QED BY <1>3, <3>1, UntouchedLedger
  <2> QED BY <2>1, <2>2
<1>6. DecisionsBacked'
  BY <1>1, <1>5, DecisionsKept DEF PInv, Deliveries
<1> QED BY <1>3, <1>4, <1>5, <1>6 DEF PInv

LEMMA StartKeeps ==
  ASSUME PInv, NEW p \in Pods, Start(p)
  PROVE  PInv'
<1>1. UNCHANGED <<ledger, sent, topic, decisions, deliveries, next, upto, committed>>
  BY DEF Start, ingress, results, kafka
<1>2. Moves(p, "poll")
  BY OnwardMoves DEF Start, Busy
<1>3. /\ Topics' /\ Deliveries' /\ PodsAtWork'
      /\ \A x \in Pods : x # p => pod'[x] = pod[x] /\ work'[x] = work[x]
      /\ pod'[p] = "poll"
  BY <1>1, <1>2, MovesKeep
<1>4. Positions'
  BY <1>1 DEF PInv, Positions
<1>5. CallsBacked' /\ \A c : InLedger(c) => InLedger(c)'
  BY <1>1, <1>3, UntouchedLedger
<1>6. DecisionsBacked'
  BY <1>1, <1>5, DecisionsKept DEF PInv, Deliveries
<1> QED BY <1>3, <1>4, <1>5, <1>6 DEF PInv

LEMMA PipelineKeeps == PInv /\ [PipelineNext]_pipeline => PInv'
<1> SUFFICES ASSUME PInv, [PipelineNext]_pipeline PROVE PInv'
  OBVIOUS
<1>1. CASE UNCHANGED pipeline
  <2>1. UNCHANGED <<ledger, pod, work, deliveries, decisions, ingress, next, upto, committed>>
    BY <1>1 DEF pipeline, kafka, results
  <2>2. Positions'
    BY <2>1 DEF PInv, Positions, ingress
  <2> QED BY <2>1, <2>2, PositionsKeep
<1>2. ASSUME NEW p \in Pods, Score(p) PROVE PInv'
  BY <1>2, HandOutKeeps, AssessKeeps, AppendAuditKeeps, PutKeeps DEF Score
<1>3. CASE PipelineNext
  BY <1>2, <1>3, WriteKeeps, AutoCommitKeeps, GroupKeeps, FetchKeeps, StopKeeps, StartKeeps
     DEF PipelineNext
<1> QED BY <1>1, <1>3

(* The pods use the ledger as PostgresAudit says. *)
LEMMA PodsUseLedger == PInv /\ [PipelineNext]_pipeline => [Next]_vars
<1> SUFFICES ASSUME PInv, [PipelineNext]_pipeline PROVE [Next]_vars
  OBVIOUS
<1>1. ASSUME NEW p \in Pods, pod[p] = "audit" PROVE work[p] \in Calls
  BY <1>1 DEF PInv, PodsAtWork, Busy, Known
<1>2. ASSUME NEW p \in Pods, AppendAudit(p) PROVE Next
  BY <1>1, <1>2 DEF AppendAudit, AuditStep, Next
<1>3. ASSUME NEW p \in Pods, Stop(p) PROVE [Next]_vars
  BY <1>1, <1>3 DEF Stop, Next, ledger, vars
<1>4. ASSUME NEW p \in Pods, HandOut(p) \/ Assess(p) \/ Put(p) \/ Fetch(p) \/ Start(p)
      PROVE  UNCHANGED vars
  BY <1>4 DEF HandOut, Assess, Put, Fetch, Start, ledger, vars
<1>5. ASSUME NEW q \in Partitions, NEW p \in Pods,
             AssignOrphan(q, p) \/ Reassign(q, p) \/ Evict(q, p)
      PROVE  UNCHANGED vars
  BY <1>5 DEF AssignOrphan, Reassign, Evict, TakeOver, ledger, vars
<1>6. ASSUME NEW q \in Partitions, AutoCommit(q) PROVE UNCHANGED vars
  BY <1>6 DEF AutoCommit, ledger, vars
<1>7. ASSUME NEW e \in Events, Produce(e) PROVE UNCHANGED vars
  BY <1>7 DEF Produce, Write, ledger, vars
<1>8. CASE UNCHANGED pipeline
  BY <1>8 DEF pipeline, ledger, vars
<1> QED BY <1>2, <1>3, <1>4, <1>5, <1>6, <1>7, <1>8 DEF PipelineNext, Score

LEMMA DecisionsOnlyAdded ==
  PInv /\ [PipelineNext]_pipeline =>
    \A e \in Events : Polled(e) # NoCall => Polled(e)' = Polled(e)
<1> SUFFICES ASSUME PInv, [PipelineNext]_pipeline, NEW e \in Events, decisions[e] # NoCall
             PROVE  decisions'[e] = decisions[e]
  BY DEF Polled
<1>1. ASSUME NEW p \in Pods, Put(p) PROVE decisions'[e] = decisions[e]
  BY <1>1 DEF Put, Stored, PInv, DecisionsBacked
<1>2. CASE decisions' = decisions
  BY <1>2
<1>3. ASSUME NEW p \in Pods, HandOut(p) \/ Assess(p) \/ AppendAudit(p) \/ Fetch(p) \/ Stop(p) \/ Start(p)
      PROVE  decisions' = decisions
  BY <1>3 DEF HandOut, Assess, AppendAudit, Fetch, Stop, Start, results
<1>4. ASSUME NEW q \in Partitions, NEW p \in Pods,
             AssignOrphan(q, p) \/ Reassign(q, p) \/ Evict(q, p)
      PROVE  decisions' = decisions
  BY <1>4 DEF AssignOrphan, Reassign, Evict, TakeOver, results
<1>5. ASSUME NEW q \in Partitions, AutoCommit(q) PROVE decisions' = decisions
  BY <1>5 DEF AutoCommit, results
<1>6. ASSUME NEW f \in Events, Produce(f) PROVE decisions' = decisions
  BY <1>6 DEF Produce, Write, results
<1>7. CASE UNCHANGED pipeline
  BY <1>7 DEF pipeline, results
<1> QED BY <1>1, <1>2, <1>3, <1>4, <1>5, <1>6, <1>7 DEF PipelineNext, Score

(* The same under the pods, whichever of them stop, lose their partitions  *)
(* or their connections: they use the ledger only as ChainStaysIntact      *)
(* assumes (scoring_pod.py:38).                                            *)
THEOREM PipelineChainIntact == PipelineSpec => []ChainIntact
<1>1. PipelineInit => Init
  BY DEF PipelineInit
<1>2. PipelineSpec => Spec
  BY <1>1, InitPInv, PipelineKeeps, PodsUseLedger, PTL DEF PipelineSpec, Spec
<1> QED BY <1>2, ChainStaysIntact, PTL

(* A stored decision has its assessment in the ledger, for any number of   *)
(* events, pods, partitions and redeliveries (scoring_pod.py:38).          *)
THEOREM DecisionsAreAudited == PipelineSpec => []DecidedIsAudited
BY InitPInv, PipelineKeeps, PInvAudited, PTL DEF PipelineSpec

(* A decision never changes once it can be polled (stores.py:138).         *)
THEOREM DecisionsAreFinal == PipelineSpec => DecisionStands
BY InitPInv, PipelineKeeps, DecisionsOnlyAdded, PTL DEF PipelineSpec, DecisionStands

-----------------------------------------------------------------------------
(* The order of scoring.  While no pod is too slow to poll, only the owner *)
(* of a partition works on its messages, in their order and from where the *)
(* owner before it stopped; only a pod that stops sends the group back to  *)
(* what was committed.                                                     *)
Home(m) == PartitionOf[IdentityOf[sent[m]]]

(* Partitions hold the messages of their identities in the order written. *)
Sorted ==
  \A q \in Partitions : \A n \in 1 .. Len(topic[q]) :
    Home(topic[q][n]) = q /\ \A m \in 1 .. n - 1 : topic[q][m] < topic[q][n]

Counted ==
  /\ owner \in [Partitions -> Pods \cup {Nobody}]
  /\ stops \in Nat /\ slow \in Nat

OwnersOnly ==
  \A p \in Pods, q \in Partitions : owner[q] # p => next[p][q] = upto[p][q]

(* The message a pod assesses is the last one it took of its partition. *)
AssessesAt(p, q, m) ==
  /\ q \in Partitions /\ owner[q] = p
  /\ next[p][q] \in 1 .. Len(topic[q]) /\ topic[q][next[p][q]] = m

AssessesInPlace ==
  \A p \in Pods : pod[p] = "assess" =>
    AssessesAt(p, Home(deliveries[work[p]]), deliveries[work[p]])

Scores ==
  /\ score \in [Identities -> Seq(Nat)]
  /\ \A i \in Identities : \A j \in 1 .. Len(score[i]) : score[i][j] \in 1 .. Len(deliveries)

(* The message i was scored with last. *)
LastOf(i) == deliveries[score[i][Len(score[i])]]

(* What comes next for i is later than what it was scored with last. *)
Ahead(i) ==
  LET q == PartitionOf[i]
      p == owner[q]
  IN  /\ p \in Pods /\ next[p][q] \in 1 .. Len(topic[q])
      /\ LastOf(i) <= topic[q][next[p][q]]
      /\ pod[p] = "assess" /\ Home(deliveries[work[p]]) = q => LastOf(i) < topic[q][next[p][q]]

Steps(i) == Cardinality(Backward(score[i]))

Orderly ==
  \A i \in Identities :
    /\ Steps(i) <= stops
    /\ Len(score[i]) = 0 \/ Steps(i) + 1 <= stops \/ Ahead(i)

OInv == Sorted /\ Counted /\ Scores /\ (slow = 0 => OwnersOnly /\ AssessesInPlace /\ Orderly)

LEMMA OrderlyInOrder == OInv => InOrderUnlessStopped
BY DEF OInv, Orderly, InOrderUnlessStopped, Steps

LEMMA InitOInv == PipelineInit => OInv
<1> SUFFICES ASSUME PipelineInit PROVE OInv
  OBVIOUS
<1>1. \A i \in Identities : Backward(score[i]) = {} /\ Len(score[i]) = 0
  BY DEF PipelineInit, Backward
<1>2. \A i \in Identities : Steps(i) = 0
  BY <1>1, FS_EmptySet DEF Steps
<1>3. Orderly
  BY <1>1, <1>2 DEF PipelineInit, Orderly
<1> QED
  BY <1>3, KeysAssumption
  DEF PipelineInit, OInv, Sorted, Counted, OwnersOnly, AssessesInPlace, Scores

(* Backward grows by one at most, and only by a step back. *)
LEMMA BackwardIsFinite ==
  ASSUME NEW h \in Seq(Nat)
  PROVE  IsFiniteSet(Backward(h)) /\ Cardinality(Backward(h)) \in Nat
<1>1. Len(h) - 1 \in Int /\ 1 \in Int
  OBVIOUS
<1> DEFINE places == 1 .. Len(h) - 1
<1>2. IsFiniteSet(places)
  BY <1>1, FS_Interval
<1>3. Backward(h) \in SUBSET places
  BY DEF Backward
<1> HIDE DEF places
<1> QED
  BY <1>2, <1>3, FS_Subset, FS_CardinalityType

LEMMA BackwardAppend ==
  ASSUME NEW h \in Seq(Nat), NEW c \in Nat, deliveries[c] \in Nat,
         Len(h) # 0 => deliveries[h[Len(h)]] \in Nat
  PROVE  /\ Cardinality(Backward(Append(h, c))) <= Cardinality(Backward(h)) + 1
         /\ Len(h) = 0 \/ deliveries[h[Len(h)]] < deliveries[c]
              => Cardinality(Backward(Append(h, c))) = Cardinality(Backward(h))
<1> DEFINE longer == Append(h, c)
<1>1. /\ Len(longer) = Len(h) + 1 /\ Len(h) \in Nat
      /\ \A j \in 1 .. Len(h) : longer[j] = h[j]
      /\ longer[Len(h) + 1] = c
  OBVIOUS
<1> HIDE DEF longer
<1>2. ASSUME NEW j PROVE j \in Backward(longer) => j \in Backward(h) \/ j = Len(h)
  BY <1>1 DEF Backward
<1>3. ASSUME NEW j PROVE j \in Backward(h) => j \in Backward(longer)
  BY <1>1 DEF Backward
<1>4. Len(h) \in Backward(longer) => Len(h) # 0 /\ deliveries[h[Len(h)]] >= deliveries[c]
  BY <1>1 DEF Backward
<1>5. IsFiniteSet(Backward(h)) /\ Cardinality(Backward(h)) \in Nat
  BY BackwardIsFinite
<1>6. Backward(longer) = Backward(h) \/ Backward(longer) = Backward(h) \cup {Len(h)}
  BY <1>2, <1>3
<1>7. \/ Cardinality(Backward(h) \cup {Len(h)}) = Cardinality(Backward(h))
      \/ Cardinality(Backward(h) \cup {Len(h)}) = Cardinality(Backward(h)) + 1
  BY <1>5, FS_AddElement
<1>8. Cardinality(Backward(longer)) <= Cardinality(Backward(h)) + 1
  <2>1. CASE Backward(longer) = Backward(h)
    BY <1>5, <2>1
  <2>2. CASE Backward(longer) = Backward(h) \cup {Len(h)}
    BY <1>5, <1>7, <2>2
  <2> QED BY <1>6, <2>1, <2>2
<1>9. ASSUME Len(h) = 0 \/ deliveries[h[Len(h)]] < deliveries[c]
      PROVE  Backward(longer) = Backward(h)
  BY <1>2, <1>3, <1>4, <1>9 DEF Backward
<1> QED
  BY <1>8, <1>9 DEF longer

(* Steps that bring nothing new to be assessed and score nothing.          *)
Calm ==
  /\ UNCHANGED <<sent, topic, owner, next, deliveries, score, stops, slow>>
  /\ \A p \in Pods : pod'[p] = "assess" => pod[p] = "assess" /\ work'[p] = work[p]
  /\ \A p \in Pods, q \in Partitions : owner[q] # p => upto'[p][q] = upto[p][q]

LEMMA OrderSteps ==
  ASSUME PInv, [PipelineNext]_pipeline
  PROVE  \/ Calm
         \/ \E e \in Events : Produce(e)
         \/ \E q \in Partitions, p \in Pods : AssignOrphan(q, p) \/ Reassign(q, p) \/ Evict(q, p)
         \/ \E p \in Pods : HandOut(p) \/ Assess(p) \/ Stop(p)
<1>1. ASSUME NEW q \in Partitions, AutoCommit(q) PROVE Calm
  BY <1>1 DEF AutoCommit, ingress, results, faults, Calm
<1>2. ASSUME NEW p \in Pods, Fetch(p) PROVE Calm
  <2>1. \A x \in Pods, q \in Partitions : owner[q] # x => upto'[x][q] = upto[x][q]
    BY <1>2 DEF Fetch, PInv, Positions
  <2> QED BY <1>2, <2>1 DEF Fetch, ingress, results, faults, Calm
<1>3. ASSUME NEW p \in Pods, AppendAudit(p) \/ Put(p) \/ Start(p) PROVE Calm
  <2>1. /\ UNCHANGED <<sent, topic, owner, next, upto, deliveries, score, stops, slow>>
        /\ pod[p] # "assess"
    BY <1>3 DEF AppendAudit, Put, Start, ingress, kafka, faults, results
  <2>2. \/ pod' = pod /\ work' = work
        \/ \E to \in {"poll", "put"} : Onward(p, to)
    BY <1>3 DEF AppendAudit, Put, Start, GiveUp
  <2>3. \A x \in Pods : pod'[x] = "assess" => pod[x] = "assess" /\ work'[x] = work[x]
    BY <2>1, <2>2 DEF Onward, PInv, PodsAtWork
  <2> QED BY <2>1, <2>3 DEF Calm
<1>4. CASE UNCHANGED pipeline
  BY <1>4 DEF pipeline, ingress, kafka, faults, results, Calm
<1> QED BY <1>1, <1>2, <1>3, <1>4 DEF PipelineNext, Score

(* Deliveries are numbered for good. *)
LEMMA StepsKept ==
  ASSUME Scores, \A d \in 1 .. Len(deliveries) : deliveries'[d] = deliveries[d],
         NEW i \in Identities, score'[i] = score[i]
  PROVE  /\ Backward(score[i])' = Backward(score[i]) /\ Steps(i)' = Steps(i)
         /\ Len(score[i]) # 0 => LastOf(i)' = LastOf(i)
<1>1. score[i] \in Seq(Nat) /\ \A j \in 1 .. Len(score[i]) : score[i][j] \in 1 .. Len(deliveries)
  BY DEF Scores
<1>2. Len(score[i]) \in Nat
  BY <1>1
<1>3. \A j \in 1 .. Len(score[i]) : deliveries'[score[i][j]] = deliveries[score[i][j]]
  BY <1>1
<1>4. \A j \in 1 .. Len(score[i]) - 1 : j \in 1 .. Len(score[i]) /\ j + 1 \in 1 .. Len(score[i])
  BY <1>2
<1>5. Backward(score[i])' = Backward(score[i])
  BY <1>3, <1>4 DEF Backward
<1>6. Len(score[i]) # 0 => LastOf(i)' = LastOf(i)
  BY <1>2, <1>3 DEF LastOf
<1> QED BY <1>5, <1>6 DEF Steps

LEMMA CalmOrder == ASSUME PInv, OInv, Calm PROVE OInv'
<1>1. Sorted' /\ Counted' /\ Scores'
  BY DEF OInv, Calm, Sorted, Home, Counted, Scores
<1>2. ASSUME slow = 0 PROVE OwnersOnly' /\ AssessesInPlace'
  <2>1. OwnersOnly'
    BY <1>2 DEF OInv, Calm, OwnersOnly
  <2>2. AssessesInPlace'
    <3> SUFFICES ASSUME NEW p \in Pods, pod'[p] = "assess"
                 PROVE  AssessesAt(p, Home(deliveries[work[p]]), deliveries[work[p]])'
      BY DEF AssessesInPlace
    <3>1. /\ pod[p] = "assess" /\ work'[p] = work[p]
          /\ UNCHANGED <<sent, topic, owner, next, deliveries>>
      BY DEF Calm
    <3>2. AssessesAt(p, Home(deliveries[work[p]]), deliveries[work[p]])
      BY <1>2, <3>1 DEF OInv, AssessesInPlace
    <3> QED BY <3>1, <3>2 DEF AssessesAt, Home
  <2> QED BY <2>1, <2>2
<1>3. ASSUME slow = 0 PROVE Orderly'
  <2>1. \A i \in Identities : Steps(i)' = Steps(i) /\ LastOf(i)' = LastOf(i)
    BY DEF Calm, Steps, Backward, LastOf
  <2>2. \A i \in Identities : Ahead(i) => Ahead(i)'
    BY <2>1 DEF Calm, Ahead, Home
  <2> QED BY <1>3, <2>1, <2>2 DEF OInv, Orderly, Calm
<1> QED BY <1>1, <1>2, <1>3 DEF OInv, Calm

LEMMA ProduceOrder == ASSUME PInv, OInv, NEW e \in Events, Produce(e) PROVE OInv'
<1> DEFINE q == PartitionOf[IdentityOf[e]]
<1>1. UNCHANGED <<owner, next, upto, deliveries, score, stops, slow, pod, work>>
  BY DEF Produce, Write, kafka, results, faults
<1>2. /\ q \in Partitions
      /\ \A n \in 1 .. Len(sent) : sent'[n] = sent[n]
      /\ \A x \in Partitions \ {q} : topic'[x] = topic[x]
      /\ Len(topic[q]) <= Len(topic'[q])
      /\ \A n \in 1 .. Len(topic[q]) : topic'[q][n] = topic[q][n]
      /\ \A n \in 1 .. Len(topic'[q]) : n > Len(topic[q]) =>
           topic'[q][n] = Len(sent) + (n - Len(topic[q])) /\ sent'[topic'[q][n]] = e
  BY WriteExtends DEF Written
<1>3. /\ Len(sent) \in Nat
      /\ \A x \in Partitions : Len(topic[x]) \in Nat /\ Len(topic'[x]) \in Nat
  <2>1. PInv'
    BY WriteKeeps
  <2>2. /\ sent \in Seq(Events) /\ \A x \in Partitions : topic[x] \in Seq(Nat)
        /\ \A x \in Partitions : topic'[x] \in Seq(Nat)
    BY <2>1 DEF PInv, Topics
  <2> QED BY <2>2
<1>4. \A m \in 1 .. Len(sent) : Home(m)' = Home(m)
  BY <1>2 DEF Home
<1>5. \A n \in 1 .. Len(topic'[q]) : n > Len(topic[q]) => Home(topic[q][n])' = q
  BY <1>2 DEF Home
<1> HIDE DEF q
<1>6. ASSUME NEW x \in Partitions, NEW n \in 1 .. Len(topic[x])
      PROVE  n \in 1 .. Len(topic'[x]) /\ topic'[x][n] = topic[x][n] /\ topic[x][n] \in 1 .. Len(sent)
  <2>1. topic[x][n] \in 1 .. Len(sent)
    BY DEF PInv, Topics
  <2>2. CASE x = q
    BY <1>2, <1>3, <2>1, <2>2
  <2>3. CASE x # q
    BY <1>2, <1>3, <2>1, <2>3
  <2> QED BY <2>2, <2>3
<1>7. Sorted'
  <2> SUFFICES ASSUME NEW x \in Partitions, NEW n \in 1 .. Len(topic'[x])
               PROVE  Home(topic[x][n])' = x /\ \A m \in 1 .. n - 1 : topic'[x][m] < topic'[x][n]
    BY DEF Sorted
  <2>1. CASE n \in 1 .. Len(topic[x])
    <3>1. \A m \in 1 .. n - 1 : m \in 1 .. Len(topic[x])
      BY <1>3, <2>1
    <3> QED BY <1>4, <1>6, <2>1, <3>1 DEF OInv, Sorted
  <2>2. CASE n \notin 1 .. Len(topic[x])
    <3>1. x = q /\ n > Len(topic[q])
      BY <1>2, <1>3, <2>2
    <3>2. topic'[q][n] = Len(sent) + (n - Len(topic[q])) /\ Home(topic[q][n])' = q
      BY <1>5, <1>2, <3>1
    <3> DEFINE a == Len(topic[q])
               b == Len(sent)
    <3>3. a \in Nat /\ b \in Nat /\ topic'[q][n] = b + (n - a) /\ n > a
      BY <1>2, <1>3, <3>1, <3>2
    <3>4. ASSUME NEW m \in 1 .. n - 1 PROVE topic'[q][m] < topic'[q][n]
      <4>1. CASE m \in 1 .. Len(topic[q])
        <5>1. topic'[q][m] \in 1 .. Len(sent)
          BY <1>2, <1>6, <4>1
        <5>2. topic'[q][m] \in 1 .. b
          BY <5>1
        <5> HIDE DEF a, b
        <5> QED BY <3>3, <5>2
      <4>2. CASE m \notin 1 .. Len(topic[q])
        <5>1. m \in 1 .. Len(topic'[q]) /\ m > Len(topic[q])
          BY <1>2, <1>3, <3>1, <4>2
        <5>2. topic'[q][m] = Len(sent) + (m - Len(topic[q]))
          BY <1>2, <5>1
        <5>3. topic'[q][m] = b + (m - a)
          BY <5>2
        <5> HIDE DEF a, b
        <5> QED BY <3>3, <5>3
      <4> QED BY <4>1, <4>2
    <3> QED BY <3>1, <3>2, <3>4
  <2> QED BY <2>1, <2>2
<1>8. \A p \in Pods : pod[p] = "assess" => deliveries[work[p]] \in 1 .. Len(sent)
  BY DEF PInv, PodsAtWork, Known, Deliveries, Busy
<1>9. Counted' /\ Scores'
  BY <1>1 DEF OInv, Counted, Scores
<1>10. ASSUME slow = 0 PROVE OwnersOnly' /\ AssessesInPlace'
  <2>1. OwnersOnly'
    BY <1>1, <1>10 DEF OInv, OwnersOnly
  <2>2. AssessesInPlace'
    BY <1>1, <1>4, <1>6, <1>8, <1>10 DEF OInv, AssessesInPlace, AssessesAt
  <2> QED BY <2>1, <2>2
<1>11. ASSUME slow = 0 PROVE Orderly'
  <2>1. \A i \in Identities : Steps(i)' = Steps(i) /\ LastOf(i)' = LastOf(i)
    BY <1>1 DEF Steps, Backward, LastOf
  <2>2. ASSUME NEW i \in Identities, Ahead(i) PROVE Ahead(i)'
    <3>1. PartitionOf[i] \in Partitions
      BY KeysAssumption
    <3> QED BY <1>1, <1>4, <1>6, <1>8, <2>1, <2>2, <3>1 DEF Ahead
  <2> QED BY <1>1, <1>11, <2>1, <2>2 DEF OInv, Orderly
<1> QED BY <1>1, <1>7, <1>9, <1>10, <1>11 DEF OInv

(* A score ends with a message that was written. *)
LEMMA Scored ==
  ASSUME PInv, OInv, NEW i \in Identities
  PROVE  /\ Steps(i) \in Nat /\ Len(score[i]) \in Nat /\ score[i] \in Seq(Nat)
         /\ Len(score[i]) # 0 => LastOf(i) \in 1 .. Len(sent) /\ LastOf(i) \in Nat
<1>1. score[i] \in Seq(Nat) /\ \A j \in 1 .. Len(score[i]) : score[i][j] \in 1 .. Len(deliveries)
  BY DEF OInv, Scores
<1>2. Len(score[i]) \in Nat
  BY <1>1
<1>3. ASSUME Len(score[i]) # 0 PROVE LastOf(i) \in 1 .. Len(sent) /\ LastOf(i) \in Nat
  <2>1. score[i][Len(score[i])] \in 1 .. Len(deliveries)
    BY <1>1, <1>2, <1>3
  <2> QED BY <2>1 DEF LastOf, PInv, Deliveries, Topics
<1> QED BY <1>1, <1>2, <1>3, BackwardIsFinite DEF Steps

(* A partition that got an owner while nobody was too slow: it had none, *)
(* or its owner committed where it stood.                                *)
LEMMA TakeOverOrder ==
  ASSUME PInv, OInv, NEW q \in Partitions, NEW p \in Pods,
         AssignOrphan(q, p) \/ Reassign(q, p) \/ Evict(q, p)
  PROVE  OInv'
<1>1. /\ UNCHANGED <<sent, topic, deliveries, score, stops, pod, work>>
      /\ TakeOver(q, p) /\ Polling(p)
  BY DEF AssignOrphan, Reassign, Evict, TakeOver, ingress, results
<1>2. /\ owner' = [owner EXCEPT ![q] = p]
      /\ next' = Moved(next, q, p) /\ upto' = Moved(upto, q, p)
  BY <1>1 DEF TakeOver
<1>3. \/ slow' = slow + 1
      \/ slow' = slow /\ owner[q] = Nobody
      \/ /\ slow' = slow /\ owner[q] \in Pods \ {p} /\ Polling(owner[q])
         /\ committed'[q] = next[owner[q]][q]
  <2>1. CASE AssignOrphan(q, p)
    BY <2>1 DEF AssignOrphan
  <2>2. CASE Reassign(q, p)
    BY <2>2 DEF Reassign, CommitsTo, PInv, Positions
  <2>3. CASE Evict(q, p)
    BY <2>3 DEF Evict
  <2> QED BY <2>1, <2>2, <2>3
<1>4. /\ next \in [Pods -> [Partitions -> Nat]] /\ upto \in [Pods -> [Partitions -> Nat]]
      /\ committed'[q] \in Nat
  <2>1. PInv'
    BY GroupKeeps
  <2> QED BY <2>1 DEF PInv, Positions
<1>5. ASSUME NEW where \in [Pods -> [Partitions -> Nat]]
      PROVE  \A x \in Pods, y \in Partitions :
               Moved(where, q, p)[x][y]
                 = IF y # q THEN where[x][y]
                   ELSE IF x = p THEN committed'[q]
                   ELSE IF Polling(x) THEN 0 ELSE where[x][y]
  BY <1>4, TakeOverMoves
<1>6. \A x \in Pods, y \in Partitions :
        /\ next'[x][y] = IF y # q THEN next[x][y] ELSE IF x = p THEN committed'[q]
                         ELSE IF Polling(x) THEN 0 ELSE next[x][y]
        /\ upto'[x][y] = IF y # q THEN upto[x][y] ELSE IF x = p THEN committed'[q]
                         ELSE IF Polling(x) THEN 0 ELSE upto[x][y]
  BY <1>2, <1>4, <1>5
<1>7. /\ owner \in [Partitions -> Pods \cup {Nobody}] /\ stops \in Nat /\ slow \in Nat
  BY DEF OInv, Counted
<1>8. Sorted' /\ Counted' /\ Scores'
  <2>1. Counted'
    BY <1>1, <1>2, <1>3, <1>7 DEF Counted
  <2> QED BY <1>1, <2>1 DEF OInv, Sorted, Home, Scores
<1>9. ASSUME slow' = 0
      PROVE  /\ OwnersOnly /\ AssessesInPlace /\ Orderly
             /\ \/ owner[q] = Nobody
                \/ /\ owner[q] \in Pods \ {p} /\ Polling(owner[q])
                   /\ committed'[q] = next[owner[q]][q]
  BY <1>3, <1>7, <1>9 DEF OInv
<1>10. \A y \in Partitions : owner'[y] = IF y = q THEN p ELSE owner[y]
  BY <1>2, <1>7
<1>11. pod[p] # "assess"
  BY <1>1 DEF Polling
<1>12. ASSUME slow' = 0 PROVE OwnersOnly'
  <2> SUFFICES ASSUME NEW x \in Pods, NEW y \in Partitions, owner'[y] # x
               PROVE  next'[x][y] = upto'[x][y]
    BY DEF OwnersOnly
  <2>1. CASE y # q
    BY <1>6, <1>9, <1>10, <1>12, <2>1 DEF OwnersOnly
  <2>2. CASE y = q /\ Polling(x)
    BY <1>6, <1>10, <2>2
  <2>3. CASE y = q /\ ~Polling(x)
    <3>1. owner[q] # x
      BY <1>9, <1>12, <2>3, PodsAssumption
    <3> QED BY <1>6, <1>9, <1>10, <1>12, <2>3, <3>1 DEF OwnersOnly
  <2> QED BY <2>1, <2>2, <2>3
<1>13. ASSUME slow' = 0, NEW x \in Pods, pod[x] = "assess", NEW y \in Partitions, owner[y] = x
       PROVE  y # q /\ owner'[y] = x /\ next'[x][y] = next[x][y]
  <2>1. y # q
    <3>1. \A o \in Pods : Polling(o) => pod[o] = "poll"
      BY DEF Polling
    <3>2. owner[q] = Nobody \/ (owner[q] \in Pods /\ Polling(owner[q]))
      BY <1>9, <1>13
    <3>3. owner[q] # x
      BY <1>13, <3>1, <3>2, PodsAssumption, Zenon
    <3> QED BY <1>13, <3>3, Zenon
  <2> QED BY <1>6, <1>10, <1>13, <2>1
<1>14. ASSUME slow' = 0 PROVE AssessesInPlace'
  <2> SUFFICES ASSUME NEW x \in Pods, pod[x] = "assess"
               PROVE  AssessesAt(x, Home(deliveries[work[x]]), deliveries[work[x]])'
    BY <1>1 DEF AssessesInPlace
  <2> DEFINE m == deliveries[work[x]]
  <2>1. AssessesAt(x, Home(m), m)
    BY <1>9, <1>14 DEF AssessesInPlace
  <2>2. owner'[Home(m)] = x /\ next'[x][Home(m)] = next[x][Home(m)]
    BY <1>13, <1>14, <2>1 DEF AssessesAt
  <2> QED BY <1>1, <2>1, <2>2 DEF AssessesAt, Home
<1>15. ASSUME slow' = 0 PROVE Orderly'
  <2>1. \A i \in Identities : Steps(i)' = Steps(i) /\ LastOf(i)' = LastOf(i)
    BY <1>1 DEF Steps, Backward, LastOf
  <2>2. ASSUME NEW i \in Identities, Ahead(i) PROVE Ahead(i)'
    <3>1. PartitionOf[i] \in Partitions
      BY KeysAssumption
    <3>2. CASE PartitionOf[i] # q
      <4> DEFINE y == PartitionOf[i]
                 x == owner[y]
      <4>1. /\ x \in Pods /\ next[x][y] \in 1 .. Len(topic[y])
            /\ LastOf(i) <= topic[y][next[x][y]]
            /\ pod[x] = "assess" /\ Home(deliveries[work[x]]) = y => LastOf(i) < topic[y][next[x][y]]
        BY <2>2 DEF Ahead
      <4>2. owner'[y] = x /\ next'[x][y] = next[x][y]
        BY <1>6, <1>10, <3>1, <3>2, <4>1
      <4>3. Home(deliveries[work[x]])' = Home(deliveries[work[x]])
        BY <1>1, <4>2 DEF Home
      <4> QED BY <1>1, <2>1, <4>1, <4>2, <4>3 DEF Ahead
    <3>3. CASE PartitionOf[i] = q
      <4>1. owner'[q] = p /\ next'[p][q] = next[owner[q]][q]
        BY <1>6, <1>9, <1>10, <1>15, <2>2, <3>3, PodsAssumption DEF Ahead
      <4> QED BY <1>1, <1>11, <2>1, <2>2, <3>3, <4>1 DEF Ahead
    <3> QED BY <3>2, <3>3
  <2> QED BY <1>1, <1>9, <1>15, <2>1, <2>2 DEF Orderly
<1> QED BY <1>8, <1>12, <1>14, <1>15 DEF OInv

(* A pod that stops makes room for one step back of every score. *)
LEMMA StopOrder == ASSUME PInv, OInv, NEW p \in Pods, Stop(p) PROVE OInv'
<1>1. /\ UNCHANGED <<sent, topic, deliveries, score, slow>> /\ stops' = stops + 1
      /\ owner' = [q \in Partitions |-> IF owner[q] = p THEN Nobody ELSE owner[q]]
      /\ next' = [next EXCEPT ![p] = [q \in Partitions |-> 0]]
      /\ upto' = [upto EXCEPT ![p] = [q \in Partitions |-> 0]]
  BY DEF Stop, ingress, results
<1>2. Moves(p, "down")
  BY OnwardMoves DEF Stop, Busy
<1>3. pod'[p] = "down" /\ \A x \in Pods : x # p => pod'[x] = pod[x] /\ work'[x] = work[x]
  BY <1>1, <1>2, MovesKeep
<1>4. stops \in Nat /\ owner \in [Partitions -> Pods \cup {Nobody}] /\ slow \in Nat
  BY DEF OInv, Counted
<1>5. \A x \in Pods, q \in Partitions :
        /\ next'[x][q] = IF x = p THEN 0 ELSE next[x][q]
        /\ upto'[x][q] = IF x = p THEN 0 ELSE upto[x][q]
  BY <1>1 DEF PInv, Positions
<1>6. Sorted' /\ Counted' /\ Scores'
  <2>1. Counted'
    BY <1>1, <1>4 DEF Counted
  <2> QED BY <1>1, <2>1 DEF OInv, Sorted, Home, Scores
<1>7. ASSUME slow = 0 PROVE OwnersOnly'
  BY <1>1, <1>5, <1>7 DEF OInv, OwnersOnly
<1>8. ASSUME slow = 0 PROVE AssessesInPlace'
  <2> SUFFICES ASSUME NEW x \in Pods, pod'[x] = "assess"
               PROVE  AssessesAt(x, Home(deliveries[work[x]]), deliveries[work[x]])'
    BY DEF AssessesInPlace
  <2>1. x # p /\ pod[x] = "assess" /\ work'[x] = work[x]
    BY <1>3
  <2>2. AssessesAt(x, Home(deliveries[work[x]]), deliveries[work[x]])
    BY <1>8, <2>1 DEF OInv, AssessesInPlace
  <2>3. Home(deliveries[work[x]])' = Home(deliveries[work[x]])
    BY <1>1, <2>1 DEF Home
  <2> QED BY <1>1, <1>5, <2>1, <2>2, <2>3 DEF AssessesAt
<1>9. ASSUME slow = 0 PROVE Orderly'
  <2>1. \A i \in Identities : Steps(i)' = Steps(i)
    BY <1>1 DEF Steps, Backward
  <2>2. \A i \in Identities : Steps(i) <= stops
    BY <1>9 DEF OInv, Orderly
  <2>3. \A i \in Identities : Steps(i) \in Nat
    BY Scored
  <2>4. \A i \in Identities : Steps(i)' <= stops' /\ Steps(i)' + 1 <= stops'
    BY <1>1, <1>4, <2>1, <2>2, <2>3
  <2> QED BY <2>4 DEF Orderly
<1> QED BY <1>1, <1>6, <1>7, <1>8, <1>9 DEF OInv

(* The next message of a partition is later than the one before it. *)
LEMMA HandOutOrder == ASSUME PInv, OInv, NEW p \in Pods, HandOut(p) PROVE OInv'
<1>1. PICK q \in Partitions :
        /\ next[p][q] < upto[p][q]
        /\ next' = [next EXCEPT ![p][q] = @ + 1]
        /\ deliveries' = Append(deliveries, topic[q][next[p][q] + 1])
  BY DEF HandOut
<1>2. /\ pod' = [pod EXCEPT ![p] = "assess"]
      /\ work' = [work EXCEPT ![p] = Len(deliveries')]
      /\ UNCHANGED <<sent, topic, owner, upto, score, stops, slow>>
  BY DEF HandOut, ingress, results, faults
<1> DEFINE n == next[p][q] + 1
           m == topic[q][n]
<1>3. /\ next[p][q] \in Nat /\ upto[p][q] \in Nat /\ upto[p][q] <= Len(topic[q])
      /\ Len(topic[q]) \in Nat
  BY Lengths DEF PInv, Positions
<1>4. n \in 1 .. Len(topic[q]) /\ (next[p][q] # 0 => next[p][q] \in 1 .. n - 1)
  BY <1>1, <1>3
<1>5. m \in 1 .. Len(sent) /\ m \in Nat
  BY <1>4 DEF PInv, Topics
<1>6. Home(m) = q /\ \A k \in 1 .. n - 1 : topic[q][k] < m
  BY <1>4 DEF OInv, Sorted
<1>7. /\ Len(deliveries) \in Nat /\ Len(deliveries') = Len(deliveries) + 1
      /\ deliveries'[Len(deliveries')] = m
      /\ \A d \in 1 .. Len(deliveries) : deliveries'[d] = deliveries[d]
  <2>1. deliveries' = Append(deliveries, m) /\ deliveries \in Seq(Nat)
    BY <1>1 DEF PInv, Deliveries
  <2> HIDE DEF m
  <2> QED BY <1>5, <2>1
<1>8. \A x \in Pods, y \in Partitions :
        next'[x][y] = IF x = p /\ y = q THEN n ELSE next[x][y]
  BY <1>1 DEF PInv, Positions
<1> HIDE DEF n, m
<1>9. \A x \in Pods : pod'[x] = "assess" =>
        \/ x = p /\ deliveries'[work'[x]] = m
        \/ /\ x # p /\ pod[x] = "assess" /\ work'[x] = work[x]
           /\ deliveries'[work'[x]] = deliveries[work[x]]
  <2>1. \A x \in Pods : pod[x] = "assess" => work[x] \in 1 .. Len(deliveries)
    BY DEF PInv, PodsAtWork, Known, Busy
  <2>2. deliveries'[work'[p]] = m
    BY <1>2, <1>7 DEF PInv, PodsAtWork
  <2> QED BY <1>2, <1>7, <2>1, <2>2 DEF PInv, PodsAtWork
<1>10. Sorted' /\ Counted'
  BY <1>2 DEF OInv, Sorted, Home, Counted
<1>11. Scores'
  BY <1>2, <1>7 DEF OInv, Scores
<1>12. ASSUME slow = 0 PROVE owner[q] = p
  BY <1>1, <1>3, <1>12 DEF OInv, OwnersOnly
<1>13. ASSUME slow = 0 PROVE OwnersOnly'
  BY <1>2, <1>8, <1>12, <1>13 DEF OInv, OwnersOnly
<1>14. ASSUME slow = 0 PROVE AssessesInPlace'
  <2> SUFFICES ASSUME NEW x \in Pods, pod'[x] = "assess"
               PROVE  AssessesAt(x, Home(deliveries[work[x]]), deliveries[work[x]])'
    BY DEF AssessesInPlace
  <2>1. CASE x = p /\ deliveries'[work'[x]] = m
    <3>1. Home(deliveries[work[x]])' = q
      BY <1>2, <1>6, <2>1 DEF Home
    <3>2. owner'[q] = p /\ next'[p][q] = n /\ topic'[q][n] = m /\ n \in 1 .. Len(topic'[q])
      BY <1>2, <1>4, <1>8, <1>12, <1>14 DEF m
    <3> QED BY <2>1, <3>1, <3>2 DEF AssessesAt
  <2>2. CASE /\ x # p /\ pod[x] = "assess"
             /\ deliveries'[work'[x]] = deliveries[work[x]]
    <3>1. Home(deliveries[work[x]])' = Home(deliveries[work[x]])
      BY <1>2, <2>2 DEF Home
    <3>2. AssessesAt(x, Home(deliveries[work[x]]), deliveries[work[x]])
      BY <1>14, <2>2 DEF OInv, AssessesInPlace
    <3> QED BY <1>2, <1>8, <2>2, <3>1, <3>2 DEF AssessesAt
  <2> QED BY <1>9, <2>1, <2>2
<1>15. \A i \in Identities :
         /\ Steps(i)' = Steps(i)
         /\ Len(score[i]) # 0 => LastOf(i)' = LastOf(i) /\ LastOf(i) \in Nat
  BY <1>2, <1>7, StepsKept, Scored DEF OInv
<1>16. ASSUME slow = 0, NEW i \in Identities, Ahead(i), Len(score[i]) # 0 PROVE Ahead(i)'
  <2>1. PartitionOf[i] \in Partitions
    BY KeysAssumption
  <2>2. CASE PartitionOf[i] = q
    <3>1. owner'[q] = p /\ next'[p][q] = n /\ topic'[q][n] = m /\ n \in 1 .. Len(topic'[q])
      BY <1>2, <1>4, <1>8, <1>12, <1>16 DEF m
    <3>2. /\ next[p][q] \in 1 .. Len(topic[q]) /\ LastOf(i) <= topic[q][next[p][q]]
      BY <1>12, <1>16, <2>2 DEF Ahead
    <3>3. next[p][q] \in 1 .. n - 1
      BY <1>3, <1>4, <3>2
    <3>4. topic[q][next[p][q]] \in Nat /\ topic[q][next[p][q]] < m
      BY <1>6, <3>2, <3>3 DEF PInv, Topics
    <3>5. LastOf(i)' < m
      BY <1>5, <1>15, <1>16, <3>2, <3>4
    <3>6. LastOf(i)' \in Nat
      BY <1>15, <1>16
    <3> QED BY <1>5, <2>2, <3>1, <3>5, <3>6 DEF Ahead
  <2>3. CASE PartitionOf[i] # q
    <3> DEFINE y == PartitionOf[i]
    <3>1. PICK x : x = owner[y]
      OBVIOUS
    <3>2. /\ x \in Pods /\ next[x][y] \in 1 .. Len(topic[y])
          /\ LastOf(i) <= topic[y][next[x][y]]
          /\ pod[x] = "assess" /\ Home(deliveries[work[x]]) = y => LastOf(i) < topic[y][next[x][y]]
      BY <1>16, <3>1 DEF Ahead
    <3>3. owner'[y] = x /\ next'[x][y] = next[x][y] /\ topic'[y] = topic[y]
      BY <1>2, <1>8, <2>1, <2>3, <3>1, <3>2
    <3>4. ASSUME pod'[x] = "assess", Home(deliveries[work[x]])' = y
          PROVE  LastOf(i) < topic[y][next[x][y]]
      <4>1. CASE x = p /\ deliveries'[work'[x]] = m
        <5>1. Home(deliveries[work[x]])' = q
          BY <1>2, <1>6, <4>1 DEF Home
        <5> QED BY <2>3, <3>4, <5>1
      <4>2. CASE pod[x] = "assess" /\ deliveries'[work'[x]] = deliveries[work[x]]
        <5>1. Home(deliveries[work[x]])' = Home(deliveries[work[x]])
          BY <1>2, <4>2 DEF Home
        <5> QED BY <3>2, <3>4, <4>2, <5>1
      <4> QED BY <1>9, <3>2, <3>4, <4>1, <4>2
    <3>5. LastOf(i)' = LastOf(i)
      BY <1>15, <1>16
    <3> QED BY <3>2, <3>3, <3>4, <3>5 DEF Ahead
  <2> QED BY <2>2, <2>3
<1>17. ASSUME slow = 0 PROVE Orderly'
  BY <1>2, <1>15, <1>16, <1>17 DEF OInv, Orderly
<1> QED BY <1>2, <1>10, <1>11, <1>13, <1>14, <1>17 DEF OInv

(* A message is scored while its partition's owner stands at it: it is no  *)
(* earlier than what its identity was scored with, or a pod stopped since. *)
LEMMA ScoreOrder ==
  ASSUME PInv, OInv, slow = 0, NEW p \in Pods, pod[p] = "assess", NEW i \in Identities,
         i = IdentityOf[EventOf(work[p])],
         UNCHANGED <<sent, topic, owner, next, deliveries, stops>>,
         pod'[p] # "assess", score'[i] = Append(score[i], work[p])
  PROVE  Steps(i)' <= stops /\ Ahead(i)'
<1> DEFINE c == work[p]
           m == deliveries[c]
           q == PartitionOf[i]
<1>1. c \in 1 .. Len(deliveries) /\ m \in 1 .. Len(sent) /\ Len(sent) \in Nat
  <2>1. c \in 1 .. Len(deliveries)
    BY DEF PInv, PodsAtWork, Known, Busy
  <2>2. m \in 1 .. Len(sent)
    BY <2>1 DEF PInv, Deliveries
  <2>3. sent \in Seq(Events)
    BY DEF PInv, Topics
  <2>4. Len(sent) \in Nat
    BY <2>3, LengthIsNat, Zenon
  <2> QED BY <2>1, <2>2, <2>4, Zenon
<1>2. Home(m) = q /\ q \in Partitions
  BY KeysAssumption DEF Home, EventOf
<1>3. owner[q] = p /\ next[p][q] \in 1 .. Len(topic[q]) /\ topic[q][next[p][q]] = m
  BY <1>2 DEF OInv, AssessesInPlace, AssessesAt
<1>4. c \in Nat /\ m \in Nat
  BY <1>1 DEF PInv, Deliveries
<1>5. /\ score[i] \in Seq(Nat) /\ Len(score[i]) \in Nat /\ Steps(i) \in Nat /\ stops \in Nat
      /\ Len(score[i]) # 0 => LastOf(i) \in Nat
  BY Scored DEF OInv, Counted
<1>6. /\ Steps(i) <= stops
      /\ Len(score[i]) = 0 \/ Steps(i) + 1 <= stops \/ LastOf(i) < m
  <2>1. Ahead(i) => LastOf(i) < m
    BY <1>2, <1>3 DEF Ahead
  <2> QED BY <2>1 DEF OInv, Orderly
<1>7. Len(score'[i]) = Len(score[i]) + 1 /\ score'[i][Len(score'[i])] = c
  <2> DEFINE h == score[i]
  <2>1. h \in Seq(Nat) /\ score'[i] = Append(h, c)
    BY <1>5
  <2> HIDE DEF h, c
  <2> QED BY <1>4, <2>1 DEF h
<1>8. LastOf(i)' = m
  BY <1>7 DEF LastOf
<1>9. Ahead(i)'
  BY <1>3, <1>4, <1>8 DEF Ahead
<1>10. Steps(i)' = Cardinality(Backward(Append(score[i], c)))
  BY DEF Steps, Backward
<1>11. /\ Cardinality(Backward(Append(score[i], c))) <= Steps(i) + 1
       /\ Len(score[i]) = 0 \/ LastOf(i) < m
            => Cardinality(Backward(Append(score[i], c))) = Steps(i)
  BY <1>4, <1>5, BackwardAppend DEF Steps, LastOf
<1>12. Cardinality(Backward(Append(score[i], c))) \in Nat
  <2>1. Append(score[i], c) \in Seq(Nat)
    BY <1>4, <1>5
  <2> QED BY <2>1, BackwardIsFinite
<1>13. Steps(i)' <= stops
  BY <1>4, <1>5, <1>6, <1>10, <1>11, <1>12
<1> QED BY <1>9, <1>13

LEMMA AssessOrder == ASSUME PInv, OInv, NEW p \in Pods, Assess(p) PROVE OInv'
<1>1. PICK i : i = IdentityOf[EventOf(work[p])]
  OBVIOUS
<1>2. /\ pod[p] = "assess"
      /\ UNCHANGED <<sent, topic, owner, next, upto, deliveries, stops, slow>>
  BY DEF Assess, ingress, kafka, faults
<1>3. pod'[p] # "assess" /\ \A x \in Pods : x # p => pod'[x] = pod[x] /\ work'[x] = work[x]
  <2>1. PICK to \in {"poll", "audit"} : Moves(p, to)
    BY <1>2, OnwardMoves DEF Assess, GiveUp, Busy
  <2> QED BY <1>2, <2>1, MovesKeep
<1>4. i \in Identities /\ work[p] \in 1 .. Len(deliveries)
  <2>1. work[p] \in 1 .. Len(deliveries)
    BY <1>2 DEF PInv, PodsAtWork, Known, Busy
  <2>2. EventOf(work[p]) \in Events
    BY <2>1 DEF EventOf, PInv, Deliveries, Topics
  <2> QED BY <1>1, <2>1, <2>2, KeysAssumption
<1>5. work[p] \in Nat
  BY <1>4 DEF PInv, Deliveries
<1>6. CASE score' = score
  <2>1. Calm
    BY <1>2, <1>3, <1>6 DEF Calm
  <2> QED BY <2>1, CalmOrder
<1>7. CASE score' = [score EXCEPT ![i] = Append(@, work[p])]
  <2>1. /\ score'[i] = Append(score[i], work[p]) /\ score[i] \in Seq(Nat)
        /\ \A j \in Identities \ {i} : score'[j] = score[j]
        /\ score' \in [Identities -> Seq(Nat)]
    BY <1>4, <1>5, <1>7 DEF OInv, Scores
  <2>2. Scores'
    <3>1. ASSUME NEW k \in 1 .. Len(score'[i]) PROVE score'[i][k] \in 1 .. Len(deliveries)
      <4> DEFINE h == score[i]
                 c == work[p]
      <4>1. h \in Seq(Nat) /\ score'[i] = Append(h, c) /\ c \in 1 .. Len(deliveries)
        BY <1>4, <2>1
      <4>2. \A l \in 1 .. Len(h) : h[l] \in 1 .. Len(deliveries)
        BY <1>4 DEF OInv, Scores
      <4> HIDE DEF h, c
      <4>3. (k \in 1 .. Len(h) /\ score'[i][k] = h[k]) \/ score'[i][k] = c
        BY <3>1, <4>1
      <4> QED BY <4>1, <4>2, <4>3
    <3>2. \A j \in Identities \ {i} : \A k \in 1 .. Len(score[j]) : score[j][k] \in 1 .. Len(deliveries)
      BY DEF OInv, Scores
    <3> QED BY <1>2, <2>1, <3>1, <3>2 DEF Scores
  <2>3. Sorted' /\ Counted'
    BY <1>2 DEF OInv, Sorted, Home, Counted
  <2>4. ASSUME slow = 0 PROVE OwnersOnly' /\ AssessesInPlace'
    <3>0. OwnersOnly /\ AssessesInPlace
      BY <2>4 DEF OInv
    <3>1. OwnersOnly'
      BY <1>2, <3>0 DEF OwnersOnly
    <3>2. AssessesInPlace'
      <4> SUFFICES ASSUME NEW x \in Pods, pod'[x] = "assess"
                   PROVE  AssessesAt(x, Home(deliveries[work[x]]), deliveries[work[x]])'
        BY DEF AssessesInPlace
      <4>1. pod[x] = "assess" /\ work'[x] = work[x]
        BY <1>3
      <4>2. AssessesAt(x, Home(deliveries[work[x]]), deliveries[work[x]])
        BY <3>0, <4>1 DEF AssessesInPlace
      <4> QED BY <1>2, <4>1, <4>2 DEF AssessesAt, Home
    <3> QED BY <3>1, <3>2
  <2>5. ASSUME slow = 0 PROVE Orderly'
    <3>1. Steps(i)' <= stops /\ Ahead(i)'
      BY <1>1, <1>2, <1>3, <1>4, <2>1, <2>5, ScoreOrder
    <3>2. ASSUME NEW j \in Identities \ {i}
          PROVE  /\ Steps(j) <= stops
                 /\ Len(score[j]) = 0 \/ Steps(j) + 1 <= stops \/ Ahead(j)
                 /\ Steps(j)' = Steps(j) /\ LastOf(j)' = LastOf(j) /\ score'[j] = score[j]
      BY <1>2, <2>1, <2>5 DEF OInv, Orderly, Steps, Backward, LastOf
    <3>3. ASSUME NEW j \in Identities \ {i}, Ahead(j) PROVE Ahead(j)'
      <4>1. LastOf(j)' = LastOf(j)
        BY <3>2
      <4> QED BY <1>2, <1>3, <3>3, <4>1 DEF Ahead, Home
    <3>4. ASSUME NEW j \in Identities
          PROVE  /\ Steps(j)' <= stops
                 /\ Len(score'[j]) = 0 \/ Steps(j)' + 1 <= stops \/ Ahead(j)'
      BY <3>1, <3>2, <3>3
    <3> QED BY <1>2, <3>4 DEF Orderly
  <2> QED BY <1>2, <2>2, <2>3, <2>4, <2>5 DEF OInv
<1> QED BY <1>1, <1>6, <1>7 DEF Assess

LEMMA OrderKeeps == PInv /\ OInv /\ [PipelineNext]_pipeline => OInv'
BY OrderSteps, CalmOrder, ProduceOrder, TakeOverOrder, HandOutOrder, AssessOrder, StopOrder

(* While no pod is evicted at work, the score of an identity steps back    *)
(* once for every pod that stopped at most, for any number of pods,        *)
(* partitions, moves and failures (bus.py:3, scoring_pod.py:34).           *)
THEOREM ScoredInOrder == PipelineSpec => []InOrderUnlessStopped
BY InitPInv, PipelineKeeps, InitOInv, OrderKeeps, OrderlyInOrder, PTL DEF PipelineSpec
=============================================================================
