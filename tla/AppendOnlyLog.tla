---------------------------- MODULE AppendOnlyLog ----------------------------
(***************************************************************************)
(* What the audit trail promises its writers: the payloads form one        *)
(* sequence that only grows, each call adding its own payload once or not  *)
(* at all.                                                                 *)
(***************************************************************************)
EXTENDS Sequences, FiniteSets

CONSTANT Calls   \* the calls of append; a call stands for its payload

VARIABLE log

Init == log = <<>>

Logged == {log[i] : i \in DOMAIN log}

Add(c) ==
  /\ c \notin Logged
  /\ log' = Append(log, c)

Next == \E c \in Calls : Add(c)

Spec == Init /\ [][Next]_log
=============================================================================
