--------------------------- MODULE AuditLog_proofs ---------------------------
(***************************************************************************)
(* Proofs about AuditLog.append and head_checkpoint, for any number of     *)
(* threads, with or without a signing key.                                 *)
(***************************************************************************)
EXTENDS AuditLog, TLAPS

(* The hash a record that continues the first k of s points to. *)
HeadAt(s, k) == IF k = 0 THEN Genesis ELSE s[k].hash

Complete(r) ==
  r = RecordOf(r.seq, r.payload, r.prev_hash) /\ r.payload \in Calls /\ r.seq \in Nat

(* A call read the head when the log had k records: exactly the calls that *)
(* appended one of the later ones, up to the n-th, overlapped with it.     *)
ReadAt(s, pairs, c, n, k) ==
  \A j \in 1 .. n : {c, s[j].payload} \in pairs <=> j > k

Typed ==
  /\ \E S : records \in Seq(S)
  /\ pc \in [Calls -> {"head", "length", "append", "done"}]
  /\ DOMAIN prev_hash = Calls /\ DOMAIN seq = Calls
  /\ checkpoint = [length |-> checkpoint.length, head |-> checkpoint.head]

Done ==
  /\ \A i \in 1 .. Len(records) :
       Complete(records[i]) /\ pc[records[i].payload] = "done"
  /\ \A i, j \in 1 .. Len(records) :
       records[i].payload = records[j].payload => i = j

Pairs ==
  /\ \A pair \in overlapped : \E c, d \in Calls :
       pair = {c, d} /\ c # d /\ pc[c] # "head" /\ pc[d] # "head"
  /\ \A c, d \in Calls :
       c # d /\ pc[c] \in Running /\ pc[d] \in Running => {c, d} \in overlapped

AtWork ==
  \A c \in Calls : pc[c] \in Running =>
    \E k \in 0 .. Len(records) :
      /\ prev_hash[c] = HeadAt(records, k)
      /\ pc[c] = "append" => seq[c] \in k .. Len(records)
      /\ ReadAt(records, overlapped, c, Len(records), k)

Written ==
  \A p \in 1 .. Len(records) :
    \E k \in 0 .. p - 1 :
      /\ records[p].prev_hash = HeadAt(records, k)
      /\ records[p].seq \in k .. p - 1
      /\ ReadAt(records, overlapped, records[p].payload, p - 1, k)

Snapshot ==
  ~torn =>
    /\ reader = "length" => checkpoint.head = HeadAt(records, Len(records))
    /\ reader = "done" =>
         /\ checkpoint.length \in 0 .. Len(records)
         /\ checkpoint.head = HeadAt(records, checkpoint.length)

IInv == Typed /\ Done /\ Pairs /\ AtWork /\ Written /\ Snapshot

-----------------------------------------------------------------------------
(* What the three steps of append and the two of head_checkpoint do. *)

LEMMA HeadHashAt ==
  ASSUME NEW S, NEW s \in Seq(S)
  PROVE  HeadHash(s) = HeadAt(s, Len(s))
BY DEF HeadHash, HeadAt

LEMMA Appended ==
  ASSUME Typed, NEW r
  PROVE  /\ \E S : Append(records, r) \in Seq(S)
         /\ Len(records) \in Nat /\ Len(Append(records, r)) = Len(records) + 1
         /\ \A i \in 1 .. Len(records) : Append(records, r)[i] = records[i]
         /\ Append(records, r)[Len(records) + 1] = r
<1>1. PICK S : records \in Seq(S)
  BY DEF Typed
<1>2. records \in Seq(S \cup {r})
  <2>1. /\ Len(records) \in Nat
        /\ records \in [1 .. Len(records) -> S \cup {r}]
    BY <1>1
  <2> QED BY <2>1
<1>3. Append(records, r) \in Seq(S \cup {r})
  BY <1>2
<1> QED BY <1>2, <1>3

LEMMA RecordComplete ==
  ASSUME NEW n \in Nat, NEW c \in Calls, NEW prev
  PROVE  LET r == RecordOf(n, c, prev)
         IN  Complete(r) /\ r.payload = c /\ r.seq = n /\ r.prev_hash = prev
BY DEF Complete, RecordOf

LEMMA ReadHeadKeeps == ASSUME IInv, NEW c \in Calls, ReadHead(c) PROVE IInv'
<1>1. /\ pc[c] = "head" /\ pc' = [pc EXCEPT ![c] = "length"]
      /\ prev_hash' = [prev_hash EXCEPT ![c] = HeadHash(records)]
      /\ overlapped' = overlapped \cup {{c, d} : d \in {d \in Calls : pc[d] \in Running}}
      /\ UNCHANGED <<records, seq, reader, checkpoint, torn>>
  BY DEF ReadHead
<1>2. Typed' /\ Snapshot'
  BY <1>1 DEF IInv, Typed, Snapshot, HeadAt
<1>3. Done'
  BY <1>1 DEF IInv, Typed, Done, Complete
<1>4. pc'[c] = "length" /\ \A d \in Calls \ {c} : pc'[d] = pc[d]
  BY <1>1 DEF IInv, Typed
<1>5. Pairs'
  <2>1. ASSUME NEW pair \in overlapped'
        PROVE  \E a, b \in Calls :
                 pair = {a, b} /\ a # b /\ pc'[a] # "head" /\ pc'[b] # "head"
    <3>1. CASE pair \in overlapped
      BY <1>4, <3>1 DEF IInv, Pairs
    <3>2. CASE \E d \in Calls : pc[d] \in Running /\ pair = {c, d}
      BY <1>1, <1>4, <3>2 DEF Running
    <3> QED BY <1>1, <2>1, <3>1, <3>2
  <2>2. ASSUME NEW a \in Calls, NEW b \in Calls, a # b,
               pc'[a] \in Running, pc'[b] \in Running
        PROVE  {a, b} \in overlapped'
    <3>1. CASE a = c
      BY <1>1, <1>4, <2>2, <3>1
    <3>2. CASE b = c
      <4>1. {c, a} \in overlapped' /\ {a, b} = {c, a}
        BY <1>1, <1>4, <2>2, <3>2
      <4> QED BY <4>1
    <3>3. CASE a # c /\ b # c
      BY <1>1, <1>4, <2>2, <3>3 DEF IInv, Pairs
    <3> QED BY <3>1, <3>2, <3>3
  <2> QED BY <2>1, <2>2 DEF Pairs
<1>6. \A a, b \in Calls : a # c /\ b # c => ({a, b} \in overlapped' <=> {a, b} \in overlapped)
  BY <1>1
<1>7. \A i \in 1 .. Len(records) : records[i].payload \in Calls \ {c}
  BY <1>1 DEF IInv, Done, Complete
<1>8. Len(records) \in Nat
  BY DEF IInv, Typed
<1>9. Written'
  <2>1. ASSUME NEW p \in 1 .. Len(records), NEW k,
               ReadAt(records, overlapped, records[p].payload, p - 1, k)
        PROVE  ReadAt(records, overlapped', records[p].payload, p - 1, k)
    <3>1. \A j \in 1 .. p - 1 : j \in 1 .. Len(records)
      BY <1>8
    <3> QED BY <1>6, <1>7, <2>1, <3>1 DEF ReadAt
  <2> QED BY <1>1, <2>1 DEF IInv, Written
<1>10. AtWork'
  <2>1. ASSUME NEW d \in Calls, pc'[d] \in Running, d # c
        PROVE  \E k \in 0 .. Len(records) :
                 /\ prev_hash'[d] = HeadAt(records, k)
                 /\ pc'[d] = "append" => seq'[d] \in k .. Len(records)
                 /\ ReadAt(records, overlapped', d, Len(records), k)
    <3>1. pc'[d] = pc[d] /\ prev_hash'[d] = prev_hash[d] /\ seq'[d] = seq[d]
      BY <1>1, <1>4, <2>1 DEF IInv, Typed
    <3>2. PICK k \in 0 .. Len(records) :
            /\ prev_hash[d] = HeadAt(records, k)
            /\ pc[d] = "append" => seq[d] \in k .. Len(records)
            /\ ReadAt(records, overlapped, d, Len(records), k)
      BY <2>1, <3>1 DEF IInv, AtWork
    <3>3. ReadAt(records, overlapped', d, Len(records), k)
      BY <1>6, <1>7, <2>1, <3>2 DEF ReadAt
    <3> QED BY <3>1, <3>2, <3>3
  <2>2. /\ prev_hash'[c] = HeadAt(records, Len(records))
        /\ pc'[c] # "append"
        /\ ReadAt(records, overlapped', c, Len(records), Len(records))
    <3>1. prev_hash'[c] = HeadHash(records)
      BY <1>1 DEF IInv, Typed
    <3>2. HeadHash(records) = HeadAt(records, Len(records))
      BY HeadHashAt DEF IInv, Typed
    <3>3. ASSUME NEW j \in 1 .. Len(records)
          PROVE  {c, records[j].payload} \notin overlapped'
      <4> DEFINE d == records[j].payload
      <4>1. d \in Calls \ {c} /\ pc[d] = "done"
        BY <1>7 DEF IInv, Done
      <4> HIDE DEF d
      <4>2. {c, d} \notin overlapped
        BY <1>1 DEF IInv, Pairs
      <4>3. \A e \in Calls : pc[e] \in Running => {c, d} # {c, e}
        BY <4>1 DEF Running
      <4>4. {c, d} \notin overlapped'
        BY <1>1, <4>2, <4>3
      <4> QED BY <4>4 DEF d
    <3> QED BY <1>4, <1>8, <3>1, <3>2, <3>3 DEF ReadAt
  <2>3. Len(records) \in 0 .. Len(records)
    BY <1>8
  <2> QED BY <1>1, <2>1, <2>2, <2>3 DEF AtWork
<1> QED BY <1>2, <1>3, <1>5, <1>9, <1>10 DEF IInv

LEMMA ReadLengthKeeps == ASSUME IInv, NEW c \in Calls, ReadLength(c) PROVE IInv'
<1>1. /\ pc[c] = "length" /\ pc' = [pc EXCEPT ![c] = "append"]
      /\ seq' = [seq EXCEPT ![c] = Len(records)]
      /\ UNCHANGED <<records, prev_hash, overlapped, reader, checkpoint, torn>>
  BY DEF ReadLength
<1>2. pc'[c] = "append" /\ \A d \in Calls \ {c} : pc'[d] = pc[d] /\ seq'[d] = seq[d]
  BY <1>1 DEF IInv, Typed
<1>3. Typed' /\ Snapshot' /\ Written'
  BY <1>1 DEF IInv, Typed, Snapshot, Written
<1>4. Done' /\ Pairs'
  BY <1>1, <1>2 DEF IInv, Done, Complete, Pairs, Running
<1>5. seq'[c] = Len(records) /\ Len(records) \in Nat
  BY <1>1 DEF IInv, Typed
<1>6. AtWork'
  BY <1>1, <1>2, <1>5 DEF IInv, AtWork, Running
<1> QED BY <1>3, <1>4, <1>6 DEF IInv

LEMMA AppendKeeps == ASSUME IInv, NEW c \in Calls, AppendRecord(c) PROVE IInv'
<1> DEFINE r == RecordOf(seq[c], c, prev_hash[c])
           n == Len(records)
<1>1. /\ pc[c] = "append" /\ pc' = [pc EXCEPT ![c] = "done"]
      /\ records' = Append(records, r)
      /\ torn' = (torn \/ reader = "length")
      /\ UNCHANGED <<prev_hash, seq, overlapped, reader, checkpoint>>
  BY DEF AppendRecord
<1>2. PICK k \in 0 .. n :
        /\ prev_hash[c] = HeadAt(records, k)
        /\ seq[c] \in k .. n
        /\ ReadAt(records, overlapped, c, n, k)
  BY <1>1 DEF IInv, AtWork, Running
<1>3. n \in Nat /\ seq[c] \in Nat
  BY <1>2 DEF IInv, Typed
<1>4. Complete(r) /\ r.payload = c /\ r.seq = seq[c] /\ r.prev_hash = prev_hash[c]
  BY <1>3, RecordComplete
<1> HIDE DEF r
<1>5. /\ \E S : records' \in Seq(S)
      /\ Len(records') = n + 1 /\ records'[n + 1] = r
      /\ \A i \in 1 .. n : records'[i] = records[i]
  BY <1>1, Appended DEF IInv
<1>6. pc'[c] = "done" /\ \A d \in Calls \ {c} : pc'[d] = pc[d]
  BY <1>1 DEF IInv, Typed
<1>7. \A i \in 1 .. n : records[i].payload \in Calls \ {c}
  BY <1>1 DEF IInv, Done, Complete
<1>8. \A h \in 0 .. n : HeadAt(records', h) = HeadAt(records, h)
  BY <1>3, <1>5 DEF HeadAt
<1> HIDE DEF n
<1>9. \A i \in 1 .. n + 1 : i \in 1 .. n \/ i = n + 1
  BY <1>3
<1>10. Typed'
  BY <1>1, <1>5 DEF IInv, Typed
<1>11. Done'
  <2>1. ASSUME NEW i \in 1 .. n + 1
        PROVE  Complete(records'[i]) /\ pc'[records'[i].payload] = "done"
    <3>1. CASE i = n + 1
      BY <1>4, <1>5, <1>6, <3>1
    <3>2. CASE i \in 1 .. n
      BY <1>5, <1>6, <1>7, <3>2 DEF IInv, Done, n
    <3> QED BY <1>9, <3>1, <3>2
  <2>2. ASSUME NEW i \in 1 .. n + 1, NEW j \in 1 .. n + 1,
               records'[i].payload = records'[j].payload
        PROVE  i = j
    <3>1. CASE i \in 1 .. n /\ j \in 1 .. n
      BY <1>5, <2>2, <3>1 DEF IInv, Done, n
    <3>2. CASE i = n + 1 \/ j = n + 1
      BY <1>4, <1>5, <1>7, <1>9, <2>2, <3>2
    <3> QED BY <1>9, <3>1, <3>2
  <2> QED BY <1>5, <2>1, <2>2 DEF Done, Complete
<1>12. Pairs'
  BY <1>1, <1>6 DEF IInv, Pairs, Running
<1>13. AtWork'
  <2>1. ASSUME NEW d \in Calls, pc'[d] \in Running
        PROVE  \E h \in 0 .. n + 1 :
                 /\ prev_hash'[d] = HeadAt(records', h)
                 /\ pc'[d] = "append" => seq'[d] \in h .. n + 1
                 /\ ReadAt(records', overlapped, d, n + 1, h)
    <3>1. d # c /\ pc[d] \in Running /\ pc'[d] = pc[d]
      BY <1>6, <2>1 DEF Running
    <3>2. PICK h \in 0 .. n :
            /\ prev_hash[d] = HeadAt(records, h)
            /\ pc[d] = "append" => seq[d] \in h .. n
            /\ ReadAt(records, overlapped, d, n, h)
      BY <3>1 DEF IInv, AtWork, n
    <3>3. {d, c} \in overlapped
      BY <1>1, <3>1 DEF IInv, Pairs, Running
    <3>4. ReadAt(records', overlapped, d, n + 1, h)
      <4>1. ASSUME NEW j \in 1 .. n + 1
            PROVE  {d, records'[j].payload} \in overlapped <=> j > h
        <5>1. CASE j \in 1 .. n
          BY <1>5, <3>2, <5>1 DEF ReadAt
        <5>2. CASE j = n + 1
          <6>1. n + 1 > h
            BY <1>3, <3>2
          <6> QED BY <1>4, <1>5, <3>3, <5>2, <6>1
        <5> QED BY <1>9, <5>1, <5>2
      <4> QED BY <4>1 DEF ReadAt
    <3>5. h \in 0 .. n + 1 /\ (pc[d] = "append" => seq[d] \in h .. n + 1)
      BY <1>3, <3>2
    <3> QED BY <1>1, <1>8, <3>1, <3>2, <3>4, <3>5
  <2> QED BY <1>1, <1>5, <2>1 DEF AtWork
<1>14. Written'
  <2>1. ASSUME NEW p \in 1 .. n + 1
        PROVE  \E h \in 0 .. p - 1 :
                 /\ records'[p].prev_hash = HeadAt(records', h)
                 /\ records'[p].seq \in h .. p - 1
                 /\ ReadAt(records', overlapped, records'[p].payload, p - 1, h)
    <3>1. CASE p \in 1 .. n
      <4>1. PICK h \in 0 .. p - 1 :
              /\ records[p].prev_hash = HeadAt(records, h)
              /\ records[p].seq \in h .. p - 1
              /\ ReadAt(records, overlapped, records[p].payload, p - 1, h)
        BY <3>1 DEF IInv, Written, n
      <4>2. h \in 0 .. n /\ \A j \in 1 .. p - 1 : j \in 1 .. n
        BY <1>3, <3>1
      <4>3. ReadAt(records', overlapped, records[p].payload, p - 1, h)
        BY <1>5, <4>1, <4>2 DEF ReadAt
      <4> QED BY <1>5, <1>8, <3>1, <4>1, <4>2, <4>3
    <3>2. CASE p = n + 1
      <4>1. p - 1 = n
        BY <1>3, <3>2
      <4>2. ReadAt(records', overlapped, c, n, k)
        BY <1>2, <1>5 DEF ReadAt, n
      <4>3. prev_hash[c] = HeadAt(records', k)
        BY <1>2, <1>8 DEF n
      <4>4. k \in 0 .. n /\ seq[c] \in k .. n
        BY <1>2 DEF n
      <4> QED BY <1>4, <1>5, <3>2, <4>1, <4>2, <4>3, <4>4
    <3> QED BY <1>9, <3>1, <3>2
  <2> QED BY <1>1, <1>5, <2>1 DEF Written
<1>15. Snapshot'
  <2> SUFFICES ASSUME ~torn'
               PROVE  /\ reader' # "length"
                      /\ reader' = "done" =>
                           /\ checkpoint.length \in 0 .. n + 1
                           /\ checkpoint.head = HeadAt(records', checkpoint.length)
    BY <1>1, <1>5 DEF Snapshot
  <2>1. ~torn /\ reader # "length"
    BY <1>1
  <2>2. reader = "done" =>
          /\ checkpoint.length \in 0 .. n
          /\ checkpoint.head = HeadAt(records, checkpoint.length)
    BY <2>1 DEF IInv, Snapshot, n
  <2> QED BY <1>1, <1>3, <1>8, <2>1, <2>2
<1> QED BY <1>10, <1>11, <1>12, <1>13, <1>14, <1>15 DEF IInv

LEMMA CheckpointKeeps == ASSUME IInv, CheckpointHead \/ CheckpointLength PROVE IInv'
<1>1. UNCHANGED <<records, pc, prev_hash, seq, overlapped, torn>>
  BY DEF CheckpointHead, CheckpointLength, writer
<1>2. checkpoint = [length |-> checkpoint.length, head |-> checkpoint.head]
  BY DEF IInv, Typed
<1>3. CASE CheckpointHead
  <2>1. checkpoint'.head = HeadHash(records) /\ reader' = "length"
        /\ checkpoint' = [length |-> checkpoint'.length, head |-> checkpoint'.head]
    BY <1>2, <1>3 DEF CheckpointHead
  <2>2. HeadHash(records) = HeadAt(records, Len(records))
    BY HeadHashAt DEF IInv, Typed
  <2> QED BY <1>1, <2>1, <2>2 DEF IInv, Typed, Done, Complete, Pairs, AtWork, Written, Snapshot
<1>4. CASE CheckpointLength
  <2>1. checkpoint'.length = Len(records) /\ checkpoint'.head = checkpoint.head
        /\ reader = "length" /\ reader' = "done"
        /\ checkpoint' = [length |-> checkpoint'.length, head |-> checkpoint'.head]
    BY <1>2, <1>4 DEF CheckpointLength
  <2>2. Len(records) \in 0 .. Len(records)
    BY DEF IInv, Typed
  <2> QED BY <1>1, <2>1, <2>2 DEF IInv, Typed, Done, Complete, Pairs, AtWork, Written, Snapshot
<1> QED BY <1>3, <1>4

LEMMA InitIInv == Init => IInv
<1> SUFFICES ASSUME Init PROVE IInv
  OBVIOUS
<1>1. records = <<>> /\ Len(records) = 0 /\ records \in Seq({})
  BY DEF Init
<1>2. checkpoint = [length |-> checkpoint.length, head |-> checkpoint.head]
  BY DEF Init, HeadCheckpoint
<1>3. Typed
  BY <1>1, <1>2 DEF Init, Typed
<1>4. Done /\ Written
  BY <1>1 DEF Done, Written
<1>5. Pairs /\ AtWork /\ Snapshot
  BY DEF Init, Pairs, AtWork, Snapshot, Running
<1> QED BY <1>3, <1>4, <1>5 DEF IInv

LEMMA NextIInv == IInv /\ [Next]_vars => IInv'
<1> SUFFICES ASSUME IInv, [Next]_vars PROVE IInv'
  OBVIOUS
<1>1. CASE UNCHANGED vars
  BY <1>1 DEF vars, writer, IInv, Typed, Done, Complete, Pairs, AtWork, Written, Snapshot
<1> QED BY <1>1, ReadHeadKeeps, ReadLengthKeeps, AppendKeeps, CheckpointKeeps DEF Next

LEMMA IInvHolds == Spec => []IInv
BY InitIInv, NextIInv, PTL DEF Spec

-----------------------------------------------------------------------------
(* A prefix of the log verifies exactly if no two of its appends overlapped. *)

(* Different prefixes have different heads: a hash tells the payload.      *)
LEMMA HeadsDiffer ==
  ASSUME Typed, Done, NEW a \in 0 .. Len(records), NEW b \in 0 .. Len(records),
         HeadAt(records, a) = HeadAt(records, b)
  PROVE  a = b
<1>1. \A i \in 1 .. Len(records) :
        records[i].hash = HashOf(Body(records[i].seq, records[i].payload, records[i].prev_hash))
  <2> SUFFICES ASSUME NEW i \in 1 .. Len(records)
               PROVE  records[i].hash = HashOf(BodyOf(records[i]))
    BY DEF BodyOf
  <2>1. Complete(records[i])
    BY DEF Done
  <2> QED BY <2>1 DEF Complete, RecordOf, BodyOf
<1>2. \A i \in 1 .. Len(records) : records[i].hash # Genesis
  BY <1>1 DEF HashOf, Genesis
<1>3. ASSUME NEW i \in 1 .. Len(records), NEW j \in 1 .. Len(records),
             records[i].hash = records[j].hash
      PROVE  i = j
  <2>1. Body(records[i].seq, records[i].payload, records[i].prev_hash)
          = Body(records[j].seq, records[j].payload, records[j].prev_hash)
    BY <1>1, <1>3 DEF HashOf
  <2>2. records[i].payload = records[j].payload
    BY <2>1 DEF Body
  <2> QED BY <2>2 DEF Done
<1>4. Len(records) \in Nat
  BY DEF Typed
<1> QED BY <1>2, <1>3, <1>4 DEF HeadAt

LEMMA PrefixFacts ==
  ASSUME Typed, NEW n \in 0 .. Len(records)
  PROVE  LET s == SubSeq(records, 1, n)
         IN  /\ Len(s) = n /\ DOMAIN s = 1 .. n
             /\ HeadHash(s) = HeadAt(records, n)
             /\ \A i \in 1 .. n :
                  s[i] = records[i] /\ HeadHash(SubSeq(s, 1, i - 1)) = HeadAt(records, i - 1)
<1>1. PICK S : records \in Seq(S)
  BY DEF Typed
<1> DEFINE s == SubSeq(records, 1, n)
<1>2. Len(records) \in Nat /\ n \in Nat /\ n <= Len(records)
  BY <1>1
<1>3. /\ s \in Seq(S) /\ Len(s) = n /\ DOMAIN s = 1 .. n
      /\ \A i \in 1 .. n : s[i] = records[i]
  BY <1>1, <1>2
<1>4. HeadHash(s) = HeadAt(records, n)
  <2> HIDE DEF s
  <2>1. HeadHash(s) = HeadAt(s, n)
    BY <1>3, HeadHashAt
  <2> QED BY <1>2, <1>3, <2>1 DEF HeadAt
<1>5. ASSUME NEW i \in 1 .. n
      PROVE  HeadHash(SubSeq(s, 1, i - 1)) = HeadAt(records, i - 1)
  <2> HIDE DEF s
  <2>1. /\ SubSeq(s, 1, i - 1) \in Seq(S) /\ Len(SubSeq(s, 1, i - 1)) = i - 1
        /\ \A j \in 1 .. i - 1 : SubSeq(s, 1, i - 1)[j] = s[j]
    BY <1>2, <1>3
  <2>2. HeadHash(SubSeq(s, 1, i - 1)) = HeadAt(SubSeq(s, 1, i - 1), i - 1)
    BY <2>1, HeadHashAt
  <2>3. i - 1 # 0 => i - 1 \in 1 .. n
    BY <1>2
  <2> QED BY <1>2, <1>3, <2>1, <2>2, <2>3 DEF HeadAt
<1> QED BY <1>3, <1>4, <1>5

LEMMA VerifiesUnlessRaced ==
  ASSUME IInv, NEW n \in 0 .. Len(records)
  PROVE  VerifyChain(SubSeq(records, 1, n)) <=> ~Raced(n)
<1> DEFINE s == SubSeq(records, 1, n)
<1>1. /\ DOMAIN s = 1 .. n
      /\ \A i \in 1 .. n :
           s[i] = records[i] /\ HeadHash(SubSeq(s, 1, i - 1)) = HeadAt(records, i - 1)
  BY PrefixFacts DEF IInv
<1>2. Len(records) \in Nat /\ \A i \in 1 .. n : i \in 1 .. Len(records)
  BY DEF IInv, Typed
<1> HIDE DEF s
<1>3. ASSUME NEW i \in 1 .. n
      PROVE  /\ records[i].hash = HashOf(BodyOf(records[i]))
             /\ Keyed => records[i].hmac = MacOf(records[i].hash)
  <2>1. Complete(records[i])
    BY <1>2 DEF IInv, Done
  <2> QED BY <2>1 DEF Complete, RecordOf, BodyOf
<1>4. VerifyChain(s) <=> \A i \in 1 .. n : /\ records[i].seq = i - 1
                                         /\ records[i].prev_hash = HeadAt(records, i - 1)
  BY <1>1, <1>3 DEF VerifyChain
<1>5. ASSUME ~Raced(n), NEW i \in 1 .. n
      PROVE  records[i].seq = i - 1 /\ records[i].prev_hash = HeadAt(records, i - 1)
  <2>1. PICK k \in 0 .. i - 1 :
          /\ records[i].prev_hash = HeadAt(records, k)
          /\ records[i].seq \in k .. i - 1
          /\ ReadAt(records, overlapped, records[i].payload, i - 1, k)
    BY <1>2 DEF IInv, Written
  <2>2. ASSUME k < i - 1 PROVE FALSE
    <3>1. i - 1 \in 1 .. i - 1 /\ i - 1 \in 1 .. n
      BY <2>1, <2>2
    <3>2. {records[i].payload, records[i - 1].payload} \in overlapped
      BY <2>1, <2>2, <3>1 DEF ReadAt
    <3> QED BY <1>5, <3>1, <3>2 DEF Raced
  <2>3. k = i - 1
    BY <2>1, <2>2
  <2> QED BY <2>1, <2>3
<1>6. ASSUME Raced(n), VerifyChain(s) PROVE FALSE
  <2>1. PICK pair \in overlapped : pair \subseteq {records[i].payload : i \in 1 .. n}
    BY <1>6 DEF Raced
  <2>2. PICK c \in Calls, d \in Calls : pair = {c, d} /\ c # d
    BY DEF IInv, Pairs
  <2>3. PICK p \in 1 .. n, q \in 1 .. n :
          records[p].payload = c /\ records[q].payload = d
    BY <2>1, <2>2
  <2>4. ASSUME NEW i \in 1 .. n, NEW j \in 1 .. n, j < i,
               {records[i].payload, records[j].payload} \in overlapped
        PROVE  FALSE
    <3>1. PICK k \in 0 .. i - 1 :
            /\ records[i].prev_hash = HeadAt(records, k)
            /\ ReadAt(records, overlapped, records[i].payload, i - 1, k)
      BY <1>2 DEF IInv, Written
    <3>2. j > k
      BY <2>4, <3>1 DEF ReadAt
    <3>3. HeadAt(records, k) = HeadAt(records, i - 1)
      BY <1>4, <1>6, <3>1
    <3>4. k \in 0 .. Len(records) /\ i - 1 \in 0 .. Len(records)
      BY <1>2
    <3>5. k = i - 1
      BY <3>3, <3>4, HeadsDiffer DEF IInv
    <3> QED BY <2>4, <3>2, <3>5
  <2>5. p < q \/ q < p
    BY <2>2, <2>3
  <2>6. {c, d} = {d, c}
    OBVIOUS
  <2> QED BY <2>1, <2>2, <2>3, <2>4, <2>5, <2>6
<1> QED BY <1>4, <1>5, <1>6 DEF s

(* The chain of AuditLog.append breaks, at every length, if and only if    *)
(* two of the appends in it overlapped.                                    *)
THEOREM BrokenOnlyByRaces ==
  Spec => [](\A n \in 0 .. Len(records) : VerifyChain(SubSeq(records, 1, n)) <=> ~Raced(n))
<1>1. IInv => \A n \in 0 .. Len(records) : VerifyChain(SubSeq(records, 1, n)) <=> ~Raced(n)
  BY VerifiesUnlessRaced
<1> QED BY <1>1, IInvHolds, PTL

(* A checkpoint no append came into agrees with the prefix of the log it   *)
(* was taken of, if no two of its appends overlapped, and with no other    *)
(* (AuditLog.head_checkpoint, verify_against_checkpoint).                  *)
THEOREM CheckpointPins == Spec => []CheckpointPinsChain
<1>1. ASSUME IInv PROVE CheckpointPinsChain
  <2> SUFFICES ASSUME reader = "done", ~torn, NEW n \in 0 .. Len(records)
               PROVE  VerifyAgainstCheckpoint(SubSeq(records, 1, n), checkpoint)
                        <=> n = checkpoint.length /\ ~Raced(n)
    BY DEF CheckpointPinsChain
  <2>1. /\ checkpoint = [length |-> checkpoint.length, head |-> checkpoint.head]
        /\ checkpoint.head = HeadAt(records, checkpoint.length)
    BY <1>1 DEF IInv, Typed, Snapshot
  <2>2. HeadCheckpoint(SubSeq(records, 1, n)) = [length |-> n, head |-> HeadAt(records, n)]
    BY <1>1, PrefixFacts DEF IInv, HeadCheckpoint
  <2>3. HeadCheckpoint(SubSeq(records, 1, n)) = checkpoint <=> n = checkpoint.length
    BY <2>1, <2>2
  <2>4. VerifyChain(SubSeq(records, 1, n)) <=> ~Raced(n)
    BY <1>1, VerifiesUnlessRaced
  <2> QED BY <2>3, <2>4 DEF VerifyAgainstCheckpoint
<1> QED BY <1>1, IInvHolds, PTL

-----------------------------------------------------------------------------
(* The refinement: the payloads of the records are an append-only log.     *)

Payloads(s) == [i \in DOMAIN s |-> s[i].payload]

LEMMA AppendAdds == ASSUME IInv, NEW c \in Calls, AppendRecord(c) PROVE Log!Add(c)
<1> DEFINE r == RecordOf(seq[c], c, prev_hash[c])
           n == Len(records)
<1>1. pc[c] = "append" /\ records' = Append(records, r)
  BY DEF AppendRecord
<1>2. r.payload = c
  BY DEF RecordOf
<1> HIDE DEF r
<1>3. /\ n \in Nat /\ DOMAIN records = 1 .. n /\ DOMAIN records' = 1 .. n + 1
      /\ records'[n + 1] = r /\ \A i \in 1 .. n : records'[i] = records[i]
  <2>1. /\ \E S : records \in Seq(S)
        /\ \E S : records' \in Seq(S)
    BY <1>1, Appended DEF IInv, Typed
  <2> QED BY <1>1, <2>1, Appended DEF IInv
<1>4. c \notin Log!Logged
  <2>1. \A i \in 1 .. n : records[i].payload # c
    BY <1>1 DEF IInv, Done
  <2> QED BY <1>3, <2>1 DEF Log!Logged
<1>5. Payloads(records) \in Seq({records[i].payload : i \in 1 .. n})
  BY <1>3 DEF Payloads
<1>6. Payloads(records') = Append(Payloads(records), c)
  <2>1. Len(Payloads(records)) = n
    BY <1>3 DEF Payloads
  <2> QED BY <1>2, <1>3, <1>5, <2>1 DEF Payloads
<1> QED BY <1>4, <1>6 DEF Log!Add, Payloads

(* However the calls overlap, no payload is lost, none appears twice and   *)
(* none moves: AuditLog.append implements an append-only log.              *)
THEOREM AppendsOnly == Spec => ImplementsAppendOnlyLog
<1>1. Init => Log!Init
  BY DEF Init, Log!Init
<1>2. IInv /\ [Next]_vars => [Log!Next]_([i \in DOMAIN records |-> records[i].payload])
  <2> SUFFICES ASSUME IInv, [Next]_vars
               PROVE  [Log!Next]_([i \in DOMAIN records |-> records[i].payload])
    OBVIOUS
  <2>1. ASSUME NEW c \in Calls, AppendRecord(c) PROVE Log!Next
    BY <2>1, AppendAdds DEF Log!Next
  <2>2. CASE records' = records
    BY <2>2
  <2> QED BY <2>1, <2>2
          DEF Next, ReadHead, ReadLength, CheckpointHead, CheckpointLength, vars
<1> QED BY <1>1, <1>2, IInvHolds, PTL DEF Spec, ImplementsAppendOnlyLog, Log!Spec
=============================================================================
