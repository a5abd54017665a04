----------------------------- MODULE AuditChain -----------------------------
(***************************************************************************)
(* The records of the audit trail and the checks on them, common to        *)
(* AuditLog (in memory) and PostgresAuditStore.                            *)
(*                                                                         *)
(* A digest is the term of what was hashed, so that digests are equal      *)
(* exactly when the hashed values are; a MAC is the term of a digest, and  *)
(* nobody without the key writes a MAC that was not written before.  The   *)
(* time in a record's body is part of its payload here.                    *)
(***************************************************************************)
EXTENDS Integers, Sequences

CONSTANT Keyed   \* whether the log was given a signing_key

ASSUME KeyedAssumption == Keyed \in BOOLEAN

Genesis == <<"genesis">>
NoMac == <<"none">>

HashOf(body) == <<"sha256", body>>
MacOf(hash) == IF Keyed THEN <<"hmac", hash>> ELSE NoMac

Body(seq, payload, prev) == [seq |-> seq, payload |-> payload, prev_hash |-> prev]
BodyOf(r) == Body(r.seq, r.payload, r.prev_hash)

RecordOf(seq, payload, prev) ==
  LET hash == HashOf(Body(seq, payload, prev))
  IN  [seq |-> seq, payload |-> payload, prev_hash |-> prev,
       hash |-> hash, hmac |-> MacOf(hash)]

HeadHash(records) ==
  IF records = <<>> THEN Genesis ELSE records[Len(records)].hash

VerifyChain(records) ==
  \A i \in DOMAIN records :
    LET r == records[i]
    IN  /\ r.seq = i - 1
        /\ r.prev_hash = HeadHash(SubSeq(records, 1, i - 1))
        /\ r.hash = HashOf(BodyOf(r))
        /\ Keyed => r.hmac = MacOf(r.hash)

(* The MAC on a checkpoint binds its two parts, so the pair stands for it. *)
HeadCheckpoint(records) ==
  [length |-> Len(records), head |-> HeadHash(records)]

VerifyAgainstCheckpoint(records, expected) ==
  VerifyChain(records) /\ HeadCheckpoint(records) = expected
=============================================================================
