------------------------------ MODULE AuditLog ------------------------------
(***************************************************************************)
(* AuditLog.append called from the request threads of the API process.     *)
(* The handlers are plain functions, which the server runs in a pool of    *)
(* threads; append takes no lock, so a switch may fall between its reading *)
(* of the last hash, its reading of the length, and its list append.       *)
(***************************************************************************)
EXTENDS AuditChain, FiniteSets

CONSTANT Calls   \* calls of append, each by its own thread, with its own payload

VARIABLES
  records,
  pc,          \* where each call is
  prev_hash,   \* the hash a call read
  seq,         \* the length a call read
  reader,      \* where the one call of head_checkpoint is
  overlapped,  \* ghost: pairs of calls that ran at once
  checkpoint,  \* its length and head, as far as it has read them
  torn         \* ghost: an append completed between its two reads

writer == <<pc, prev_hash, seq, overlapped>>
vars == <<records, writer, reader, checkpoint, torn>>

Running == {"length", "append"}

Init ==
  /\ records = <<>>
  /\ pc = [c \in Calls |-> "head"]
  /\ prev_hash = [c \in Calls |-> Genesis]
  /\ seq = [c \in Calls |-> 0]
  /\ overlapped = {}
  /\ reader = "head"
  /\ checkpoint = HeadCheckpoint(<<>>)
  /\ torn = FALSE

-----------------------------------------------------------------------------
(* The three steps of append. *)

ReadHead(c) ==
  /\ pc[c] = "head"
  /\ pc' = [pc EXCEPT ![c] = "length"]
  /\ prev_hash' = [prev_hash EXCEPT ![c] = HeadHash(records)]
  /\ overlapped' = overlapped \cup {{c, d} : d \in {d \in Calls : pc[d] \in Running}}
  /\ UNCHANGED <<records, seq, reader, checkpoint, torn>>

ReadLength(c) ==
  /\ pc[c] = "length"
  /\ pc' = [pc EXCEPT ![c] = "append"]
  /\ seq' = [seq EXCEPT ![c] = Len(records)]
  /\ UNCHANGED <<records, prev_hash, overlapped, reader, checkpoint, torn>>

(* Definitions marked Variant are no part of the model: each is the        *)
(* definition that follows it with a plausible slip.                       *)
(* Variant: the record is stored at its number. *)
AppendAtSeq(c) ==
  /\ pc[c] = "append"
  /\ pc' = [pc EXCEPT ![c] = "done"]
  /\ records' = Append(SubSeq(records, 1, seq[c]),
                       RecordOf(seq[c], c, prev_hash[c]))
  /\ torn' = (torn \/ reader = "length")
  /\ UNCHANGED <<prev_hash, seq, overlapped, reader, checkpoint>>

AppendRecord(c) ==
  /\ pc[c] = "append"
  /\ pc' = [pc EXCEPT ![c] = "done"]
  /\ records' = Append(records, RecordOf(seq[c], c, prev_hash[c]))
  /\ torn' = (torn \/ reader = "length")
  /\ UNCHANGED <<prev_hash, seq, overlapped, reader, checkpoint>>

(* head_checkpoint reads the last hash, then the length. *)
CheckpointHead ==
  /\ reader = "head"
  /\ reader' = "length"
  /\ checkpoint' = [checkpoint EXCEPT !.head = HeadHash(records)]
  /\ UNCHANGED <<records, writer, torn>>

(* Variant: the last record's number is taken for the length. *)
CheckpointLastSeq ==
  /\ reader = "length"
  /\ reader' = "done"
  /\ checkpoint' = [checkpoint EXCEPT
       !.length = IF records = <<>> THEN 0 ELSE records[Len(records)].seq]
  /\ UNCHANGED <<records, writer, torn>>

CheckpointLength ==
  /\ reader = "length"
  /\ reader' = "done"
  /\ checkpoint' = [checkpoint EXCEPT !.length = Len(records)]
  /\ UNCHANGED <<records, writer, torn>>

Next ==
  \/ \E c \in Calls : ReadHead(c) \/ ReadLength(c) \/ AppendRecord(c)
  \/ CheckpointHead \/ CheckpointLength

Spec == Init /\ [][Next]_vars

-----------------------------------------------------------------------------
(* However the calls overlap, no payload is lost, none appears twice and   *)
(* none moves.                                                             *)
Log == INSTANCE AppendOnlyLog
         WITH log <- [i \in DOMAIN records |-> records[i].payload]
ImplementsAppendOnlyLog == Log!Spec

(* main.py:204: an erasure leaves the vault shredded "while the hash chain *)
(* stays intact and verifiable".  Two appends that overlap break it.       *)
ChainIntact == VerifyChain(records)

(* audit.py:74: the checkpoint "catches a dropped/emptied tail": of all    *)
(* prefixes of the log as it grows, it agrees with the one it was taken of *)
(* and with no other, and with that one unless two of its appends          *)
(* overlapped.  Only an append between its two reads spoils it.            *)
Raced(n) == \E pair \in overlapped : pair \subseteq {records[i].payload : i \in 1 .. n}

CheckpointPinsChain ==
  reader = "done" /\ ~torn =>
    \A n \in 0 .. Len(records) :
      VerifyAgainstCheckpoint(SubSeq(records, 1, n), checkpoint)
        <=> n = checkpoint.length /\ ~Raced(n)
=============================================================================
