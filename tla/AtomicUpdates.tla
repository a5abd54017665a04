---------------------------- MODULE AtomicUpdates ----------------------------
(***************************************************************************)
(* What the state store promises the trust engine: every request's         *)
(* read-modify-write of an identity's record takes effect at one instant,  *)
(* on top of all that took effect before it, exactly once, and before the  *)
(* request is answered.                                                    *)
(***************************************************************************)
EXTENDS Sequences, Naturals

CONSTANTS Requests, Keys, KeyOf

VARIABLES
  history,   \* history[k]: the requests whose update took effect on k, in order
  answered   \* the requests that returned

absVars == <<history, answered>>

TookEffect(r) == \E i \in 1 .. Len(history[KeyOf[r]]) : history[KeyOf[r]][i] = r

AbsInit ==
  /\ history = [k \in Keys |-> <<>>]
  /\ answered = {}

TakeEffect(r) ==
  /\ ~TookEffect(r)
  /\ r \notin answered
  /\ history' = [history EXCEPT ![KeyOf[r]] = Append(@, r)]
  /\ UNCHANGED answered

Return(r) ==
  /\ TookEffect(r)
  /\ answered' = answered \cup {r}
  /\ UNCHANGED history

AbsNext == \E r \in Requests : TakeEffect(r) \/ Return(r)

AbsSafety == AbsInit /\ [][AbsNext]_absVars

(* Every request is answered in the end. *)
AbsSpec == AbsSafety /\ \A r \in Requests : WF_absVars(TakeEffect(r) \/ Return(r))
=============================================================================
