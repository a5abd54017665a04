---------------------------- MODULE PostgresAudit ----------------------------
(***************************************************************************)
(* PostgresAuditStore.append called by the scoring pods.  Each append is   *)
(* one transaction at the database's default isolation (read committed): a *)
(* SELECT of the last row, an INSERT of the next one, and a commit.  The   *)
(* primary key on seq is what serialises them: an INSERT whose seq another *)
(* open transaction has inserted waits for it, and fails if that one       *)
(* commits (external).                                                     *)
(* The connection can break at any point, which rolls the transaction back *)
(* (external).  Pipeline has the pods that call append.                    *)
(*                                                                         *)
(* The hash is that of the payload as Python writes it, the column keeps   *)
(* it as JSONB, whose numbers are of another type: a negative zero comes   *)
(* back as zero, a float like 1e16 as an integer (external).               *)
(***************************************************************************)
EXTENDS AuditChain, FiniteSets

CONSTANTS
  Calls,   \* calls of append; a call stands for its payload
  Jsonb    \* what the JSONB column gives back of the payload of a call

ASSUME JsonbAssumption == DOMAIN Jsonb = Calls

VARIABLES
  rows,        \* the committed rows of audit_log, a set of records
  pc,          \* where each call is
  row          \* the row a call builds, from what its SELECT returned

vars == <<rows, pc, row>>

(* What the table gives back of the record of call c. *)
RowOf(seq, c, prev) == [RecordOf(seq, c, prev) EXCEPT !.payload = Jsonb[c]]

Places == {"select", "insert", "commit", "appended", "failed"}

Init ==
  /\ rows = {}
  /\ pc = [c \in Calls |-> "select"]
  /\ row = [c \in Calls |-> RowOf(0, c, Genesis)]

-----------------------------------------------------------------------------
(* ORDER BY seq DESC LIMIT 1 *)
IsLast(r) == r \in rows /\ \A q \in rows : q.seq <= r.seq

NextRow(c) ==
  IF rows = {} THEN RowOf(0, c, Genesis)
  ELSE LET last == CHOOSE r \in rows : IsLast(r)
       IN  RowOf(last.seq + 1, c, last.hash)

Goto(c, from, to) == pc[c] = from /\ pc' = [pc EXCEPT ![c] = to]

Select(c) ==
  /\ Goto(c, "select", "insert")
  /\ row' = [row EXCEPT ![c] = NextRow(c)]
  /\ UNCHANGED rows

Taken(seq) == \E r \in rows : r.seq = seq

(* Definitions marked Variant are no part of the model: each is the        *)
(* definition that follows it with a plausible slip.                       *)
(* Variant: the table has no primary key. *)
InsertWithoutKey(c) ==
  /\ Goto(c, "insert", "commit")
  /\ UNCHANGED <<rows, row>>

(* Variant: an insert into a taken place is dropped, ON CONFLICT DO NOTHING. *)
InsertOrIgnore(c) ==
  /\ \A d \in Calls : pc[d] = "commit" => row[d].seq # row[c].seq
  /\ Goto(c, "insert", IF Taken(row[c].seq) THEN "appended" ELSE "commit")
  /\ UNCHANGED <<rows, row>>

(* The primary key makes an INSERT wait for an open one of the same seq. *)
Insert(c) ==
  /\ \A d \in Calls : pc[d] = "commit" => row[d].seq # row[c].seq
  /\ Goto(c, "insert", IF Taken(row[c].seq) THEN "failed" ELSE "commit")
  /\ UNCHANGED <<rows, row>>

Commit(c) ==
  /\ Goto(c, "commit", "appended")
  /\ rows' = rows \cup {row[c]}
  /\ UNCHANGED row

(* The connection breaks: before the server commits, *)
Abort(c) ==
  /\ \E at \in {"select", "insert", "commit"} : Goto(c, at, "failed")
  /\ UNCHANGED <<rows, row>>

(* or after it did and before the client hears of it. *)
CommitUnconfirmed(c) ==
  /\ Goto(c, "commit", "failed")
  /\ rows' = rows \cup {row[c]}
  /\ UNCHANGED row

Next ==
  \E c \in Calls : \/ Select(c) \/ Insert(c) \/ Commit(c)
                   \/ Abort(c) \/ CommitUnconfirmed(c)

Spec == Init /\ [][Next]_vars

-----------------------------------------------------------------------------
(* verify_chain on the rows in the order of seq: the i-th row has seq i    *)
(* and the hash of the row before it, and what was read of it hashes to    *)
(* what is stored with it.                                                 *)
Numbered == \A r, q \in rows : r.seq = q.seq => r = q

Linked ==
  \A r \in rows :
    IF r.seq = 0 THEN r.prev_hash = Genesis
    ELSE \E q \in rows : q.seq = r.seq - 1 /\ r.prev_hash = q.hash

Signed ==
  \A r \in rows : r.hash = HashOf(BodyOf(r)) /\ r.hmac = MacOf(r.hash)

(* However appends of different pods overlap, fail or lose their           *)
(* connection, the chain has no gap and no fork (the primary key turns a   *)
(* race into a failure), and verify_chain is true exactly as long as every *)
(* payload stored comes back from JSONB as it was hashed.                  *)
ChainIntact ==
  /\ Numbered /\ Linked
  /\ Signed <=> \A c \in Calls : row[c] \in rows => Jsonb[c] = c
=============================================================================
