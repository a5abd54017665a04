----------------------------- MODULE PolicyCases -----------------------------
(***************************************************************************)
(* The decision algebra applied to one case, and the same case with        *)
(* another risk or another starting trust: what the algebra promises is a  *)
(* relation between two answers.                                           *)
(***************************************************************************)
EXTENDS TrustPolicy

CONSTANTS
  Trusts,      \* starting scores
  FinalRisks,  \* final event risks
  Spent,       \* how much of the recovery budget is used up
  Cap          \* the recovery budget

ASSUME CasesAssumption ==
  /\ Trusts \subseteq Scores /\ FinalRisks \subseteq Scores
  /\ Spent \subseteq Nat /\ Cap \in Nat

VARIABLE query

Cases == [trust : Trusts, risk : FinalRisks, spent : Spent, type : EventTypes,
          review : BOOLEAN, degraded : BOOLEAN]

(* The score after the event; its recovery window is open, spent is used up. *)
Score(trust, risk, spent) ==
  NextTrust(trust, [start |-> 0, recovered |-> spent], risk, 0, 0, Cap)

ScoreOf(c) == Score(c.trust, c.risk, c.spent)

AnswerOf(c) == Verdict(ScoreOf(c), c.risk, c.type, c.review, c.degraded)

CasesInit == query \in Cases
Rescore == \E r \in FinalRisks : query' = [query EXCEPT !.risk = r]
Retrust == \E t \in Trusts : query' = [query EXCEPT !.trust = t]
CasesNext == Rescore \/ Retrust

CasesSpec == CasesInit /\ [][CasesNext]_query

(* The riskier of two otherwise equal events, or the one of the less       *)
(* trusted of two otherwise equal identities, leaves the lower score and   *)
(* never gets the laxer answer: the truncations in _update_trust, the      *)
(* bands of decide, the review and the degradation policy are all          *)
(* monotone, and stay so composed.                                         *)
WorseIsStricter ==
  [][ query'.risk >= query.risk /\ query'.trust <= query.trust
      => /\ ScoreOf(query') <= ScoreOf(query)
         /\ Strictness(AnswerOf(query').decision)
              >= Strictness(AnswerOf(query).decision) ]_query

(* The review and the degradation policy only ever harden what decide      *)
(* answered, and every step-up, and nothing else, names a challenge.       *)
HardeningNeverLoosens ==
  LET policy == Decide(ScoreOf(query), query.risk, query.type)
      answer == AnswerOf(query)
  IN  /\ Strictness(answer.decision) >= Strictness(policy.decision)
      /\ (answer.decision = "BLOCK") = (policy.decision = "BLOCK")
      /\ (answer.method # None) = (answer.decision = "STEP_UP")
=============================================================================
