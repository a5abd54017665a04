-------------------------- MODULE TrustEngine_proofs --------------------------
(***************************************************************************)
(* The trust engine, for every set of countries and event types, every     *)
(* model score, every recovery cap, travel interval and clock bound.       *)
(*                                                                         *)
(* First the decision algebra: it is monotone and only ever hardens, for   *)
(* every score, risk and budget (PolicyCases).  Then lemmas on the         *)
(* operators of TrustState say what one handler makes of any record, and   *)
(* the theorems apply them to every step of TrustEngine.                   *)
(***************************************************************************)
EXTENDS TrustEngine, PolicyCases, SequenceTheorems, FiniteSetTheorems, Sums, TLAPS

-----------------------------------------------------------------------------
(* Lemmas about the operators of TrustPolicy, for every score and risk.    *)

(* The truncated products of _update_trust are monotone and not negative   *)
(* on the side of 0.45 where they are used.                                *)
LEMMA LossMonotone ==
  ASSUME NEW r1 \in Scores, NEW r2 \in Scores, 450 < r1, r1 <= r2
  PROVE  Loss(r1) \in Nat /\ Loss(r2) \in Nat /\ Loss(r1) <= Loss(r2)
BY SMTT(60) DEF Loss, Scores

LEMMA GainMonotone ==
  ASSUME NEW r1 \in Scores, NEW r2 \in Scores, r1 <= r2, r2 <= 450
  PROVE  Gain(r1) \in Nat /\ Gain(r2) \in Nat /\ Gain(r2) <= Gain(r1)
BY SMTT(60) DEF Gain, Scores

LEMMA LossIsNat == \A r \in Scores : r > 450 => Loss(r) \in Nat
BY SMTT(60) DEF Loss, Scores

LEMMA GainIsNat == \A r \in Scores : r <= 450 => Gain(r) \in Nat
BY SMTT(60) DEF Gain, Scores

LEMMA ClipMonotone ==
  ASSUME NEW x \in Int, NEW y \in Int, x <= y
  PROVE  Clip(x) \in Scores /\ Clip(y) \in Scores /\ Clip(x) <= Clip(y)
BY DEF Clip, Scores

LEMMA AtMostMonotone ==
  ASSUME NEW x \in Nat, NEW y \in Nat, NEW bound \in Nat, x <= y
  PROVE  /\ AtMost(x, bound) \in Nat /\ AtMost(y, bound) \in Nat
         /\ AtMost(x, bound) <= AtMost(y, bound)
BY DEF AtMost

LEMMA RemainingIsNat ==
  ASSUME NEW spent \in Nat, NEW start, NEW cap \in Nat
  PROVE  Remaining([start |-> start, recovered |-> spent], cap) \in Nat
BY DEF Remaining

(* decide: a lower score and a higher risk never select a laxer decision. *)
LEMMA DecideMonotone ==
  ASSUME NEW t1 \in Scores, NEW t2 \in Scores, NEW r1 \in Scores, NEW r2 \in Scores,
         NEW type, t2 <= t1, r1 <= r2
  PROVE  Strictness(Decide(t1, r1, type).decision)
           <= Strictness(Decide(t2, r2, type).decision)
BY DEF Decide, DecisionOf, Band, Strictness, Scores

(* Review and Degrade in one line: whatever policy answered, ALLOW becomes *)
(* STEP_UP exactly when the review or a failing model asks for it.         *)
LEMMA VerdictDecision ==
  ASSUME NEW t \in Scores, NEW r \in Scores, NEW type \in EventTypes,
         NEW review \in BOOLEAN, NEW degraded \in BOOLEAN
  PROVE  Verdict(t, r, type, review, degraded).decision
           = IF /\ Decide(t, r, type).decision = "ALLOW"
                /\ review \/ (degraded /\ type \in FailClosedEvents)
             THEN "STEP_UP" ELSE Decide(t, r, type).decision
BY DEF Verdict, Review, Degrade, Decide

-----------------------------------------------------------------------------
(* The decision algebra as a whole. *)

Typed == query \in Cases

(* _update_trust in terms of what is left of the budget. *)
LEMMA ScoreByLeft ==
  ASSUME NEW t \in Scores, NEW r \in Scores, NEW spent \in Nat
  PROVE  Score(t, r, spent)
           = IF r > 450 THEN Clip(t - Loss(r))
             ELSE Clip(t + AtMost(Gain(r), Remaining([start |-> 0, recovered |-> spent], Cap)))
BY DEF Score, NextTrust, Recovery, BudgetAt

(* A higher risk or a lower starting trust ends with a lower or equal      *)
(* score (TrustEngine._update_trust).                                      *)
LEMMA ScoreMonotone ==
  ASSUME NEW t1 \in Scores, NEW t2 \in Scores, NEW r1 \in Scores, NEW r2 \in Scores,
         NEW spent \in Nat, r1 <= r2, t2 <= t1
  PROVE  /\ Score(t1, r1, spent) \in Scores /\ Score(t2, r2, spent) \in Scores
         /\ Score(t2, r2, spent) <= Score(t1, r1, spent)
<1> DEFINE left == Remaining([start |-> 0, recovered |-> spent], Cap)
<1>1. left \in Nat
  BY RemainingIsNat, CasesAssumption
<1>2. /\ Score(t1, r1, spent) = IF r1 > 450 THEN Clip(t1 - Loss(r1))
                                ELSE Clip(t1 + AtMost(Gain(r1), left))
      /\ Score(t2, r2, spent) = IF r2 > 450 THEN Clip(t2 - Loss(r2))
                                ELSE Clip(t2 + AtMost(Gain(r2), left))
  BY ScoreByLeft
<1> HIDE DEF left
<1>3. CASE r1 > 450
  <2>1. r2 > 450
    BY <1>3 DEF Scores
  <2>2. Loss(r1) \in Nat /\ Loss(r2) \in Nat /\ Loss(r1) <= Loss(r2)
    <3>1. 450 < r1
      BY <1>3 DEF Scores
    <3> QED BY <3>1, LossMonotone
  <2>3. /\ t1 - Loss(r1) \in Int /\ t2 - Loss(r2) \in Int
        /\ t2 - Loss(r2) <= t1 - Loss(r1)
    BY <2>2 DEF Scores
  <2> QED
    BY <1>2, <1>3, <2>1, <2>3, ClipMonotone
<1>4. CASE r1 <= 450 /\ r2 > 450
  <2>1. Gain(r1) \in Nat /\ Loss(r2) \in Nat
    BY <1>4, LossIsNat, GainIsNat
  <2>2. AtMost(Gain(r1), left) \in Nat
    BY <1>1, <2>1 DEF AtMost
  <2>3. /\ t1 + AtMost(Gain(r1), left) \in Int /\ t2 - Loss(r2) \in Int
        /\ t2 - Loss(r2) <= t1 + AtMost(Gain(r1), left)
    BY <2>1, <2>2 DEF Scores
  <2>4. ~(r1 > 450)
    BY <1>4 DEF Scores
  <2> QED
    BY <1>2, <1>4, <2>3, <2>4, ClipMonotone
<1>5. CASE r2 <= 450
  <2>1. r1 <= 450 /\ ~(r1 > 450) /\ ~(r2 > 450)
    BY <1>5 DEF Scores
  <2>2. Gain(r1) \in Nat /\ Gain(r2) \in Nat /\ Gain(r2) <= Gain(r1)
    BY <1>5, GainMonotone
  <2>3. /\ AtMost(Gain(r1), left) \in Nat /\ AtMost(Gain(r2), left) \in Nat
        /\ AtMost(Gain(r2), left) <= AtMost(Gain(r1), left)
    BY <1>1, <2>2, AtMostMonotone
  <2>4. /\ t1 + AtMost(Gain(r1), left) \in Int
        /\ t2 + AtMost(Gain(r2), left) \in Int
        /\ t2 + AtMost(Gain(r2), left) <= t1 + AtMost(Gain(r1), left)
    BY <2>3 DEF Scores
  <2> QED
    BY <1>2, <2>1, <2>4, ClipMonotone
<1>6. r1 > 450 \/ (r1 <= 450 /\ r2 > 450) \/ r2 <= 450
  BY DEF Scores
<1> QED
  BY <1>3, <1>4, <1>5, <1>6

(* WorseIsStricter: no case, under any budget, is answered more laxly than  *)
(* the same case with a lower risk and more trust.                         *)
THEOREM AnswersMonotone == CasesSpec => WorseIsStricter
<1>1. CasesInit => Typed
  BY DEF CasesInit, Typed
<1>2. Typed /\ [CasesNext]_query => Typed'
  BY DEF Typed, CasesNext, Rescore, Retrust, Cases
<1>3. Typed /\ [CasesNext]_query
      => [query'.risk >= query.risk /\ query'.trust <= query.trust
          => /\ ScoreOf(query') <= ScoreOf(query)
             /\ Strictness(AnswerOf(query').decision)
                  >= Strictness(AnswerOf(query).decision)]_query
  <2> SUFFICES ASSUME query \in Cases, CasesNext,
                      query'.risk >= query.risk, query'.trust <= query.trust
               PROVE  /\ ScoreOf(query') <= ScoreOf(query)
                      /\ Strictness(AnswerOf(query').decision)
                           >= Strictness(AnswerOf(query).decision)
    BY DEF Typed
  <2>1. /\ query' \in Cases
        /\ query'.spent = query.spent /\ query'.type = query.type
        /\ query'.review = query.review /\ query'.degraded = query.degraded
    BY DEF CasesNext, Rescore, Retrust, Cases
  <2>3. /\ query.trust \in Scores /\ query'.trust \in Scores
        /\ query.spent \in Nat
        /\ query.risk \in Scores /\ query'.risk \in Scores
        /\ query.type \in EventTypes
        /\ query.review \in BOOLEAN /\ query.degraded \in BOOLEAN
    BY <2>1, CasesAssumption DEF Cases
  <2>2. /\ ScoreOf(query) \in Scores /\ ScoreOf(query') \in Scores
        /\ ScoreOf(query') <= ScoreOf(query)
    BY <2>1, <2>3, ScoreMonotone DEF ScoreOf
  <2>4. Strictness(Decide(ScoreOf(query), query.risk, query.type).decision)
          <= Strictness(Decide(ScoreOf(query'), query'.risk, query.type).decision)
    BY <2>2, <2>3, DecideMonotone
  <2>5. AnswerOf(query).decision
          = IF /\ Decide(ScoreOf(query), query.risk, query.type).decision = "ALLOW"
               /\ query.review \/ (query.degraded /\ query.type \in FailClosedEvents)
            THEN "STEP_UP" ELSE Decide(ScoreOf(query), query.risk, query.type).decision
    BY <2>2, <2>3, VerdictDecision DEF AnswerOf
  <2>6. AnswerOf(query').decision
          = IF /\ Decide(ScoreOf(query'), query'.risk, query.type).decision = "ALLOW"
               /\ query.review \/ (query.degraded /\ query.type \in FailClosedEvents)
            THEN "STEP_UP" ELSE Decide(ScoreOf(query'), query'.risk, query.type).decision
    <3> DEFINE t == ScoreOf(query')
    <3>1. AnswerOf(query') = Verdict(t, query'.risk, query.type, query.review, query.degraded)
      BY <2>1 DEF AnswerOf
    <3>2. t \in Scores
      BY <2>2
    <3> HIDE DEF t
    <3>3. Verdict(t, query'.risk, query.type, query.review, query.degraded).decision
            = IF /\ Decide(t, query'.risk, query.type).decision = "ALLOW"
                 /\ query.review \/ (query.degraded /\ query.type \in FailClosedEvents)
              THEN "STEP_UP" ELSE Decide(t, query'.risk, query.type).decision
      BY <2>3, <3>2, VerdictDecision
    <3> QED BY <3>1, <3>3 DEF t
  <2>7. Strictness(AnswerOf(query).decision) <= Strictness(AnswerOf(query').decision)
    <3> DEFINE d1 == Decide(ScoreOf(query), query.risk, query.type).decision
               d2 == Decide(ScoreOf(query'), query'.risk, query.type).decision
               hardened == query.review \/ (query.degraded /\ query.type \in FailClosedEvents)
    <3>1. \A a, b : Strictness(a) <= Strictness(b) =>
            Strictness(IF a = "ALLOW" /\ hardened THEN "STEP_UP" ELSE a)
              <= Strictness(IF b = "ALLOW" /\ hardened THEN "STEP_UP" ELSE b)
      <4> HIDE DEF hardened
      <4> QED BY DEF Strictness
    <3> HIDE DEF d1, d2, hardened
    <3>2. Strictness(d1) <= Strictness(d2)
      BY <2>4 DEF d1, d2
    <3>3. /\ AnswerOf(query).decision = IF d1 = "ALLOW" /\ hardened THEN "STEP_UP" ELSE d1
          /\ AnswerOf(query').decision = IF d2 = "ALLOW" /\ hardened THEN "STEP_UP" ELSE d2
      BY <2>5, <2>6 DEF d1, d2, hardened
    <3> QED BY <3>1, <3>2, <3>3
  <2>8. /\ Strictness(AnswerOf(query).decision) \in Nat
        /\ Strictness(AnswerOf(query').decision) \in Nat
    BY DEF Strictness
  <2> QED
    BY <2>2, <2>7, <2>8
<1> QED
  BY <1>1, <1>2, <1>3, PTL DEF CasesSpec, WorseIsStricter

(* HardeningNeverLoosens, for every case. *)
THEOREM Hardening == CasesSpec => []HardeningNeverLoosens
<1>1. CasesInit => Typed
  BY DEF CasesInit, Typed
<1>2. Typed /\ [CasesNext]_query => Typed'
  BY DEF Typed, CasesNext, Rescore, Retrust, Cases
<1>3. Typed => HardeningNeverLoosens
  <2> SUFFICES ASSUME query \in Cases PROVE HardeningNeverLoosens
    BY DEF Typed
  <2> DEFINE policy == Decide(ScoreOf(query), query.risk, query.type)
  <2>1. query.review \in BOOLEAN /\ query.degraded \in BOOLEAN /\ query.type \in EventTypes
    BY DEF Cases
  <2>2. /\ policy.decision \in Decisions
        /\ (policy.method # None) = (policy.decision = "STEP_UP")
    BY DEF Decide, DecisionOf, MethodOf, Decisions, CheapestSufficient, None
  <2>3. policy = [decision |-> policy.decision, band |-> policy.band,
                  method |-> policy.method]
    BY DEF Decide
  <2> QED
    BY <2>1, <2>2, <2>3
    DEF HardeningNeverLoosens, AnswerOf, Verdict, Review, Degrade, Decisions,
        CheapestSufficient, Strictness, None
<1> QED
  BY <1>1, <1>2, <1>3, PTL DEF CasesSpec

-----------------------------------------------------------------------------
(* What the handlers make of a record stays a record. *)

LEMMA BudgetTyped ==
  ASSUME NEW start \in Nat, NEW spent \in Nat, NEW risk \in Scores,
         NEW now \in Nat
  PROVE  LET b == [start |-> start, recovered |-> spent]
         IN  /\ BudgetAt(b, now, Hour) \in [start : Nat, recovered : Nat]
             /\ risk <= 450 => Recovery(b, risk, now, Hour, RecoveryCap) \in Nat
             /\ NextBudget(b, risk, now, Hour, RecoveryCap)
                  \in [start : Nat, recovered : Nat]
<1> DEFINE b == [start |-> start, recovered |-> spent]
           found == BudgetAt(b, now, Hour)
<1>1. found \in [start : Nat, recovered : Nat]
  BY DEF BudgetAt
<1>2. Remaining(found, RecoveryCap) \in Nat
  BY <1>1, CapAssumption DEF Remaining
<1>3. ASSUME risk <= 450
      PROVE  Recovery(b, risk, now, Hour, RecoveryCap) \in Nat
  <2>1. Gain(risk) \in Nat
    BY <1>3, GainIsNat
  <2>2. \A x, y \in Nat : AtMost(x, y) \in Nat
    BY DEF AtMost
  <2> QED BY <1>2, <2>1, <2>2 DEF Recovery
<1>4. NextBudget(b, risk, now, Hour, RecoveryCap) \in [start : Nat, recovered : Nat]
  <2>1. CASE risk > 450
    BY <2>1 DEF NextBudget
  <2>2. CASE risk <= 450
    <3> DEFINE rec == Recovery(b, risk, now, Hour, RecoveryCap)
    <3>1. rec \in Nat
      BY <1>3, <2>2
    <3>2. NextBudget(b, risk, now, Hour, RecoveryCap)
            = [found EXCEPT !.recovered = @ + rec]
      BY <2>2 DEF NextBudget, Scores
    <3> HIDE DEF rec, found
    <3> QED BY <1>1, <3>1, <3>2
  <2> QED BY <2>1, <2>2 DEF Scores
<1> QED BY <1>1, <1>3, <1>4

LEMMA MovesAreInts == \A t \in Scores, n \in Nat : t - n \in Int /\ t + n \in Int
BY DEF Scores

LEMMA StepUpInScores ==
  \A t \in Scores : StepUpTrust(t, TRUE) \in Scores /\ StepUpTrust(t, FALSE) \in Scores
<1> TAKE t \in Scores
<1>1. StepUpTrust(t, TRUE) \in Scores
  BY SMTT(60) DEF StepUpTrust, AtMost, Scores
<1>2. StepUpTrust(t, FALSE) \in Scores
  BY SMTT(60) DEF StepUpTrust, Clip, Scores
<1> QED BY <1>1, <1>2

LEMMA TrustTyped ==
  ASSUME NEW s \in IdentityState, NEW risk \in Scores, NEW now \in Nat
  PROVE  /\ TrustAfter(s, risk, now) \in Scores
         /\ NextBudget(s.budget, risk, now, Hour, RecoveryCap)
              \in [start : Nat, recovered : Nat]
<1>1. /\ s.trust \in Scores
      /\ s.budget = [start |-> s.budget.start, recovered |-> s.budget.recovered]
      /\ s.budget.start \in Nat /\ s.budget.recovered \in Nat
  BY DEF IdentityState
<1>2. \A x \in Int : Clip(x) \in Scores
  BY DEF Clip, Scores
<1>3. NextBudget(s.budget, risk, now, Hour, RecoveryCap)
        \in [start : Nat, recovered : Nat]
  BY <1>1, BudgetTyped
<1>4. CASE risk > 450
  <2>1. Loss(risk) \in Nat
    BY <1>4, LossIsNat
  <2>2. s.trust - Loss(risk) \in Int
    BY <1>1, <2>1, MovesAreInts
  <2> QED BY <1>2, <1>3, <1>4, <2>2 DEF TrustAfter, NextTrust
<1>5. CASE risk <= 450
  <2> DEFINE rec == Recovery(s.budget, risk, now, Hour, RecoveryCap)
  <2>1. rec \in Nat
    BY <1>1, <1>5, BudgetTyped
  <2> HIDE DEF rec
  <2>2. s.trust + rec \in Int
    BY <1>1, <2>1, MovesAreInts
  <2>3. TrustAfter(s, risk, now) = Clip(s.trust + rec)
    BY <1>5 DEF TrustAfter, NextTrust, Scores, rec
  <2> QED BY <1>2, <1>3, <2>2, <2>3
<1> QED BY <1>4, <1>5 DEF Scores

LEMMA WindowTyped ==
  ASSUME NEW w \in Seq(Scores), NEW risk \in Scores, NEW n \in Nat
  PROVE  LastN(Append(w, risk), n) \in Seq(Scores)
<1> DEFINE v == Append(w, risk)
<1>1. v \in Seq(Scores) /\ Len(v) \in Nat
  BY AppendProperties
<1> HIDE DEF v
<1>2. ASSUME Len(v) <= n PROVE LastN(v, n) \in Seq(Scores)
  BY <1>1, <1>2 DEF LastN
<1>3. ASSUME n < Len(v) PROVE LastN(v, n) \in Seq(Scores)
  <2>1. LastN(v, n) = SubSeq(v, Len(v) - n + 1, Len(v))
    BY <1>1, <1>3 DEF LastN
  <2>2. Len(v) - n + 1 \in 1 .. Len(v) + 1
    BY <1>1, <1>3
  <2>3. SubSeq(v, Len(v) - n + 1, Len(v)) \in Seq(Scores)
    BY <1>1, <1>3, <2>2
  <2> QED BY <2>1, <2>3
<1> QED BY <1>1, <1>2, <1>3 DEF v

LEMMA DriftTyped ==
  ASSUME NEW ewma \in Int, NEW cusum \in Nat, NEW risk \in Scores
  PROVE  NextEwma(ewma, risk) \in Int /\ NextCusum(ewma, cusum, risk) \in Nat
BY SMT DEF NextEwma, NextCusum, CusumSlack, Scores

LEMMA EventRiskTyped ==
  ASSUME NEW s, NEW e \in Events, NEW now
  PROVE  EventRisk(s, e, now) \in Scores
BY DEF EventRisk, AtMost, Events, Scores, TravelBoost

LEMMA ScoredTyped ==
  ASSUME NEW s \in IdentityState, NEW e \in Events,
         NEW risk \in Scores, NEW now \in Nat
  PROVE  Scored(s, e, risk, now) \in IdentityState
<1> DEFINE trust  == TrustAfter(s, risk, now)
           budget == NextBudget(s.budget, risk, now, Hour, RecoveryCap)
           window == WindowAfter(s, risk)
           ewma   == NextEwma(s.risk_ewma, risk)
           cusum  == NextCusum(s.risk_ewma, s.cusum, risk)
           prior  == s.cold_prior_used \/ Cold(s)
           review == s.under_review \/ HeldForReview(s, e, risk, now)
<1>1. trust \in Scores /\ budget \in [start : Nat, recovered : Nat]
  BY TrustTyped
<1>2. window \in Seq(Scores)
  BY WindowTyped DEF WindowAfter, RiskWindowMax, IdentityState
<1>3. ewma \in Int /\ cusum \in Nat
  BY DriftTyped DEF IdentityState
<1>4. prior \in BOOLEAN /\ review \in BOOLEAN
  OBVIOUS
<1>5. Scored(s, e, risk, now)
        = [s EXCEPT !.trust = trust, !.budget = budget, !.risk_window = window,
                    !.risk_ewma = ewma, !.cusum = cusum,
                    !.cold_prior_used = prior, !.under_review = review]
  BY DEF Scored, IdentityState
<1> HIDE DEF trust, budget, window, ewma, cusum, prior, review
<1> QED BY <1>1, <1>2, <1>3, <1>4, <1>5, ZenonT(60) DEF IdentityState

LEMMA LearnTyped ==
  ASSUME NEW s \in IdentityState, NEW e \in Events, NEW now \in Nat
  PROVE  Learn(s, e, now) \in IdentityState
<1>1. /\ s.geos \cup {e.geo} \in SUBSET Geos
      /\ s.event_count + 1 \in Nat
      /\ e.geo \in Geos \cup {NoGeo}
  BY DEF IdentityState, Events
<1>2. Learn(s, e, now)
        = [s EXCEPT !.geos = s.geos \cup {e.geo}, !.event_count = s.event_count + 1,
                    !.last_geo = e.geo, !.last_geo_ts = now]
  BY DEF Learn, IdentityState
<1> QED BY <1>1, <1>2 DEF IdentityState

LEMMA AssessTyped ==
  ASSUME NEW s \in IdentityState, NEW e \in Events,
         NEW risk \in Scores, NEW now \in Nat
  PROVE  AfterAssess(s, e, risk, now) \in IdentityState
BY ScoredTyped, LearnTyped DEF AfterAssess

LEMMA StepUpTyped ==
  ASSUME NEW s \in IdentityState, NEW passed \in BOOLEAN
  PROVE  AfterStepUp(s, passed) \in IdentityState
<1>1. s.trust \in Scores
  BY DEF IdentityState
<1>2. StepUpTrust(s.trust, TRUE) \in Scores /\ StepUpTrust(s.trust, FALSE) \in Scores
  BY <1>1, StepUpInScores
<1>3. <<>> \in Seq(Scores)
  OBVIOUS
<1> QED BY <1>2, <1>3 DEF AfterStepUp, IdentityState

LEMMA AnswerTyped ==
  ASSUME NEW s \in IdentityState, NEW e \in Events,
         NEW risk \in Scores, NEW now \in Nat
  PROVE  Answer(s, e, risk, now).decision \in Decisions
           /\ Answer(s, e, risk, now).band \in Bands
<1> DEFINE trust == TrustAfter(s, risk, now)
           held == HeldForReview(s, e, risk, now)
<1>1. /\ Decide(trust, risk, e.type).decision \in Decisions
      /\ Decide(trust, risk, e.type).band \in Bands
  BY DEF Decide, DecisionOf, Band, Decisions, Bands
<1> HIDE DEF trust, held
<1>2. /\ Verdict(trust, risk, e.type, held, e.degraded).decision \in Decisions
      /\ Verdict(trust, risk, e.type, held, e.degraded).band \in Bands
  BY <1>1 DEF Verdict, Review, Degrade, Decide, Decisions, Bands
<1> QED BY <1>2 DEF Answer, trust, held

-----------------------------------------------------------------------------
(* What an approval means. *)

(* An approval needs a final risk below 0.45, no alarm and no review, and  *)
(* a model that worked if the event is one that must fail closed.          *)
LEMMA AllowedMeans ==
  ASSUME NEW s \in IdentityState, NEW e \in Events,
         NEW risk \in Scores, NEW now \in Nat,
         Allowed(s, e, risk, now)
  PROVE  /\ risk < 450
         /\ ~Drifting(s, risk) /\ ~s.under_review
         /\ ~(e.degraded /\ e.type \in FailClosedEvents)
<1> DEFINE trust  == TrustAfter(s, risk, now)
           held   == HeldForReview(s, e, risk, now)
           policy == Decide(trust, risk, e.type)
<1>1. trust \in Scores /\ e.type \in EventTypes /\ e.degraded \in BOOLEAN
  BY TrustTyped DEF Events
<1>2. held \in BOOLEAN
  BY DEF HeldForReview
<1>3. held = (policy.decision = "ALLOW" /\ (Drifting(s, risk) \/ s.under_review))
  BY DEF HeldForReview
<1>4. Verdict(trust, risk, e.type, held, e.degraded).decision = "ALLOW"
  BY DEF Allowed, Answer
<1>5. policy.decision = "ALLOW" => risk < 450
  BY <1>1 DEF Decide, DecisionOf, Band, Scores
<1> HIDE DEF trust, held, policy
<1>6. Verdict(trust, risk, e.type, held, e.degraded).decision
        = IF policy.decision = "ALLOW" /\ (held \/ (e.degraded /\ e.type \in FailClosedEvents))
          THEN "STEP_UP" ELSE policy.decision
  BY <1>1, <1>2, VerdictDecision DEF policy
<1> QED BY <1>3, <1>4, <1>5, <1>6

(* The boost alone puts an impossible journey out of reach of an approval. *)
LEMMA ImpossibleNotAllowed ==
  ASSUME NEW s \in IdentityState, NEW e \in Events, NEW now \in Nat,
         Impossible(s, e.geo, now)
  PROVE  ~Allowed(s, e, EventRisk(s, e, now), now)
<1> DEFINE risk == EventRisk(s, e, now)
<1>1. ~(risk < 450)
  BY DEF EventRisk, AtMost, TravelBoost, Events, Scores
<1>2. risk \in Scores
  BY EventRiskTyped
<1> HIDE DEF risk
<1>3. ~Allowed(s, e, risk, now)
  BY <1>1, <1>2, AllowedMeans
<1> QED BY <1>3 DEF risk

(* The fields assess changes, by what it answered. *)
LEMMA AssessEffect ==
  ASSUME NEW s \in IdentityState, NEW e \in Events,
         NEW risk \in Scores, NEW now \in Nat
  PROVE  LET r == AfterAssess(s, e, risk, now)
         IN  /\ Allowed(s, e, risk, now) =>
                  /\ r.geos = s.geos \cup {e.geo}
                  /\ r.event_count = s.event_count + 1
                  /\ r.last_geo = e.geo /\ r.last_geo_ts = now
             /\ ~Allowed(s, e, risk, now) =>
                  /\ r.geos = s.geos /\ r.event_count = s.event_count
                  /\ r.last_geo = s.last_geo /\ r.last_geo_ts = s.last_geo_ts
             /\ r.under_review = (s.under_review \/ HeldForReview(s, e, risk, now))
             /\ r.budget = NextBudget(s.budget, risk, now, Hour, RecoveryCap)
<1> DEFINE p == Scored(s, e, risk, now)
<1>1. p \in IdentityState
  BY ScoredTyped
<1>2. /\ p.geos = s.geos /\ p.event_count = s.event_count
      /\ p.last_geo = s.last_geo /\ p.last_geo_ts = s.last_geo_ts
      /\ p.under_review = (s.under_review \/ HeldForReview(s, e, risk, now))
      /\ p.budget = NextBudget(s.budget, risk, now, Hour, RecoveryCap)
  BY DEF Scored, IdentityState
<1> HIDE DEF p
<1>3. /\ Learn(p, e, now).geos = p.geos \cup {e.geo}
      /\ Learn(p, e, now).event_count = p.event_count + 1
      /\ Learn(p, e, now).last_geo = e.geo /\ Learn(p, e, now).last_geo_ts = now
      /\ Learn(p, e, now).under_review = p.under_review
      /\ Learn(p, e, now).budget = p.budget
  BY <1>1 DEF Learn, IdentityState
<1> QED BY <1>2, <1>3 DEF AfterAssess, p

LEMMA StepUpEffect ==
  ASSUME NEW s \in IdentityState, NEW passed \in BOOLEAN
  PROVE  LET r == AfterStepUp(s, passed)
         IN  /\ r.geos = s.geos /\ r.event_count = s.event_count
             /\ r.last_geo = s.last_geo /\ r.last_geo_ts = s.last_geo_ts
             /\ r.budget = s.budget
             /\ passed => /\ ~r.under_review
                          /\ r.risk_window = <<>> /\ r.cusum = 0
             /\ ~passed => r.under_review = s.under_review
BY DEF AfterStepUp, IdentityState

-----------------------------------------------------------------------------
(* The invariants, handler by handler. *)

LEMMA HandlerInputs ==
  ASSUME NEW type \in Types, NEW geo \in Geos, NEW risk \in Risks,
         NEW degraded \in BOOLEAN, NEW lag \in 0 .. MaxLag, NEW t \in Times
  PROVE  /\ [type |-> type, geo |-> geo, risk |-> risk, degraded |-> degraded]
              \in Events
         /\ t - lag \in Nat /\ t \in Nat /\ t - lag <= t
BY TypesAssumption, RisksAssumption, BoundsAssumption, HourAssumption
   DEF Events, Times, Scores

LEMMA InitTyped == Init => TypeOK
<1>1. NewIdentity \in IdentityState
  BY DEF NewIdentity, IdentityState, Scores, BaseTrust
<1>2. Hour + MaxLag + 1 \in Times
  BY BoundsAssumption, HourAssumption DEF Times
<1>3. /\ NothingYet.kind = "none"
      /\ NothingYet.decision \in Decisions /\ NothingYet.band \in Bands
  BY DEF NothingYet, Decisions, Bands
<1> QED BY <1>1, <1>2, <1>3 DEF Init, TypeOK

LEMMA NextTyped == TypeOK /\ [Next]_vars => TypeOK'
<1> SUFFICES ASSUME TypeOK, [Next]_vars PROVE TypeOK'
  OBVIOUS
<1>1. ASSUME NEW e \in Events, NEW lag \in 0 .. MaxLag, Assess(e, lag),
             time - lag \in Nat
      PROVE  TypeOK'
  <2> DEFINE now == time - lag
             risk == EventRisk(state, e, now)
  <2>1. state \in IdentityState
    BY DEF TypeOK
  <2>2. risk \in Scores
    BY EventRiskTyped
  <2>3. AfterAssess(state, e, risk, now) \in IdentityState
    BY <1>1, <2>1, <2>2, AssessTyped
  <2>4. /\ Answer(state, e, risk, now).decision \in Decisions
        /\ Answer(state, e, risk, now).band \in Bands
    BY <1>1, <2>1, <2>2, AnswerTyped
  <2>5. Drifting(state, risk) \in BOOLEAN
    BY DEF Drifting
  <2> HIDE DEF risk
  <2> QED BY <1>1, <2>3, <2>4, <2>5 DEF Assess, TypeOK, risk
<1>2. ASSUME NEW passed \in BOOLEAN, StepUp(passed) PROVE TypeOK'
  BY <1>2, StepUpTyped DEF StepUp, TypeOK, NothingYet, Decisions, Bands
<1>3. ASSUME Tick PROVE TypeOK'
  BY <1>3, BoundsAssumption, HourAssumption DEF Tick, TypeOK, Times
<1>4. ASSUME UNCHANGED vars PROVE TypeOK'
  BY <1>4 DEF vars, TypeOK
<1>5. time \in Times
  BY DEF TypeOK
<1> QED BY <1>1, <1>2, <1>3, <1>4, <1>5, HandlerInputs DEF Next

(* TypeOK: in particular trust stays in 0..1000 and the recovered budget a *)
(* natural number, whatever the scores and the clock.                      *)
THEOREM TypeCorrect == Spec => []TypeOK
BY InitTyped, NextTyped, PTL DEF Spec

-----------------------------------------------------------------------------
(* What the safety properties rest on, beside the types.                   *)

(* An allowed identity under review is a contradiction at every moment.    *)
NotAllowedUnderReview ==
  state.under_review /\ last.kind = "assess" => last.decision # "ALLOW"

(* A passed step-up leaves nothing of the episode behind.                  *)
CleanAfterVerification ==
  last.kind = "passed" =>
    state.cusum = 0 /\ state.risk_window = <<>> /\ ~state.under_review

IInv == /\ TypeOK
        /\ TravelReferenceTrusted
        /\ WindowWithinBudget
        /\ NotAllowedUnderReview
        /\ CleanAfterVerification

(* The budget an event takes is never more than what is left of it.        *)
LEMMA BudgetBounded ==
  ASSUME NEW start \in Nat, NEW spent \in Nat, NEW risk \in Scores,
         NEW now \in Nat, spent <= RecoveryCap
  PROVE  NextBudget([start |-> start, recovered |-> spent],
                    risk, now, Hour, RecoveryCap).recovered <= RecoveryCap
<1> DEFINE b     == [start |-> start, recovered |-> spent]
           found == BudgetAt(b, now, Hour)
           rec   == Recovery(b, risk, now, Hour, RecoveryCap)
<1>1. /\ found \in [start : Nat, recovered : Nat]
      /\ found.recovered <= RecoveryCap
  BY CapAssumption DEF BudgetAt
<1>2. CASE risk > 450
  BY <1>2 DEF NextBudget
<1>3. CASE risk <= 450
  <2>1. rec \in Nat
    BY <1>3, BudgetTyped
  <2>2. Remaining(found, RecoveryCap) = RecoveryCap - found.recovered
    <3> HIDE DEF found
    <3> QED BY <1>1, CapAssumption DEF Remaining
  <2>3. rec <= Remaining(found, RecoveryCap)
    <3>1. Gain(risk) \in Nat
      BY <1>3, GainIsNat
    <3>2. RecoveryCap - found.recovered \in Nat
      BY <1>1, CapAssumption
    <3>3. \A x, y \in Nat : AtMost(x, y) <= y
      BY DEF AtMost
    <3> QED BY <2>2, <3>1, <3>2, <3>3 DEF Recovery
  <2>4. NextBudget(b, risk, now, Hour, RecoveryCap)
          = [found EXCEPT !.recovered = @ + rec]
    BY <1>3 DEF NextBudget, Scores
  <2> HIDE DEF rec, found
  <2>5. NextBudget(b, risk, now, Hour, RecoveryCap).recovered = found.recovered + rec
    BY <1>1, <2>4
  <2> QED BY <1>1, <2>1, <2>2, <2>3, <2>5, CapAssumption
<1> QED BY <1>2, <1>3 DEF Scores

LEMMA AssessKeeps ==
  ASSUME IInv, TypeOK', NEW e \in Events, NEW lag \in 0 .. MaxLag,
         Assess(e, lag), time - lag \in Nat, time - lag <= time
  PROVE  IInv'
<1> DEFINE now == time - lag
           risk == EventRisk(state, e, now)
<1>1. state \in IdentityState /\ time \in Times
  BY DEF IInv, TypeOK
<1>2. risk \in Scores
  BY EventRiskTyped
<1>3. /\ state' = AfterAssess(state, e, risk, now)
      /\ last'.decision = Answer(state, e, risk, now).decision
      /\ last'.kind = "assess" /\ time' = time
  BY DEF Assess
<1> HIDE DEF risk
<1>4. /\ Allowed(state, e, risk, now) =>
           /\ state'.geos = state.geos \cup {e.geo}
           /\ state'.event_count = state.event_count + 1
           /\ state'.last_geo = e.geo /\ state'.last_geo_ts = now
      /\ ~Allowed(state, e, risk, now) =>
           /\ state'.geos = state.geos /\ state'.event_count = state.event_count
           /\ state'.last_geo = state.last_geo
           /\ state'.last_geo_ts = state.last_geo_ts
      /\ state'.under_review
           = (state.under_review \/ HeldForReview(state, e, risk, now))
      /\ state'.budget = NextBudget(state.budget, risk, now, Hour, RecoveryCap)
  BY <1>1, <1>2, <1>3, AssessEffect
<1>5. TravelReferenceTrusted'
  <2>1. state.event_count \in Nat
    BY <1>1 DEF IdentityState
  <2>2. TravelReferenceTrusted
    BY DEF IInv
  <2> QED BY <1>3, <1>4, <2>1, <2>2 DEF TravelReferenceTrusted
<1>6. WindowWithinBudget'
  <2>1. /\ state.budget = [start |-> state.budget.start,
                           recovered |-> state.budget.recovered]
        /\ state.budget.start \in Nat /\ state.budget.recovered \in Nat
    BY <1>1 DEF IdentityState
  <2>2. state.budget.recovered <= RecoveryCap
    BY DEF IInv, WindowWithinBudget
  <2>3. NextBudget(state.budget, risk, now, Hour, RecoveryCap).recovered <= RecoveryCap
    BY <1>2, <2>1, <2>2, BudgetBounded
  <2> QED BY <1>4, <2>3 DEF WindowWithinBudget
<1>7. NotAllowedUnderReview'
  <2>1. Allowed(state, e, risk, now) => ~Drifting(state, risk) /\ ~state.under_review
    BY <1>1, <1>2, AllowedMeans
  <2>2. Allowed(state, e, risk, now) => ~state'.under_review
    BY <1>4, <2>1 DEF HeldForReview
  <2> QED BY <1>3, <2>2 DEF NotAllowedUnderReview, Allowed
<1>8. CleanAfterVerification'
  BY <1>3 DEF CleanAfterVerification
<1> QED BY <1>5, <1>6, <1>7, <1>8 DEF IInv

LEMMA StepUpKeeps ==
  ASSUME IInv, TypeOK', NEW passed \in BOOLEAN, StepUp(passed)
  PROVE  IInv'
<1>1. state \in IdentityState
  BY DEF IInv, TypeOK
<1>2. /\ state'.geos = state.geos /\ state'.event_count = state.event_count
      /\ state'.last_geo = state.last_geo /\ state'.last_geo_ts = state.last_geo_ts
      /\ state'.budget = state.budget
      /\ passed => /\ ~state'.under_review
                   /\ state'.risk_window = <<>> /\ state'.cusum = 0
  BY <1>1, StepUpEffect DEF StepUp
<1>3. /\ last'.kind = IF passed THEN "passed" ELSE "failed"
      /\ time' = time
  BY DEF StepUp, NothingYet
<1>4. TravelReferenceTrusted' /\ WindowWithinBudget'
  BY <1>2, <1>3 DEF IInv, TravelReferenceTrusted, WindowWithinBudget
<1>5. NotAllowedUnderReview' /\ CleanAfterVerification'
  BY <1>2, <1>3 DEF NotAllowedUnderReview, CleanAfterVerification
<1> QED BY <1>4, <1>5 DEF IInv

LEMMA InitIInv == Init => IInv
<1> SUFFICES ASSUME Init PROVE IInv
  OBVIOUS
<1>1. TypeOK
  BY InitTyped
<1>2. /\ state.last_geo = NoGeo /\ state.event_count = 0
      /\ state.last_geo_ts = 0 /\ state.budget.recovered = 0
      /\ state.under_review = FALSE
  BY DEF Init, NewIdentity
<1>3. time \in Nat /\ last.kind = "none"
  BY BoundsAssumption, HourAssumption DEF Init, NothingYet
<1>4. TravelReferenceTrusted
  BY <1>2, <1>3 DEF TravelReferenceTrusted
<1>5. WindowWithinBudget
  BY <1>2, CapAssumption DEF WindowWithinBudget
<1> QED BY <1>1, <1>2, <1>3, <1>4, <1>5
        DEF IInv, NotAllowedUnderReview, CleanAfterVerification

LEMMA NextIInv == IInv /\ [Next]_vars => IInv'
<1> SUFFICES ASSUME IInv, [Next]_vars PROVE IInv'
  OBVIOUS
<1>1. TypeOK' /\ time \in Times
  BY NextTyped DEF IInv, TypeOK
<1>2. ASSUME NEW e \in Events, NEW lag \in 0 .. MaxLag, Assess(e, lag),
             time - lag \in Nat, time - lag <= time
      PROVE  IInv'
  BY <1>1, <1>2, AssessKeeps
<1>3. ASSUME NEW passed \in BOOLEAN, StepUp(passed) PROVE IInv'
  BY <1>1, <1>3, StepUpKeeps
<1>4. ASSUME Tick PROVE IInv'
  <2>1. time \in Nat /\ state.last_geo_ts \in Nat /\ time' = time + 1
    BY <1>1, <1>4, BoundsAssumption, HourAssumption
       DEF Tick, Times, IInv, TypeOK, IdentityState
  <2> QED BY <1>1, <1>4, <2>1
          DEF Tick, IInv, TravelReferenceTrusted, WindowWithinBudget,
              NotAllowedUnderReview, CleanAfterVerification
<1>5. ASSUME UNCHANGED vars PROVE IInv'
  BY <1>5 DEF vars, IInv, TypeOK, TravelReferenceTrusted, WindowWithinBudget,
              NotAllowedUnderReview, CleanAfterVerification
<1> QED BY <1>1, <1>2, <1>3, <1>4, <1>5, HandlerInputs DEF Next

LEMMA IInvHolds == Spec => []IInv
BY InitIInv, NextIInv, PTL DEF Spec

(* The travel reference is a place the identity was allowed from.          *)
THEOREM TravelReferenceIsTrusted == Spec => []TravelReferenceTrusted
<1>1. IInv => TravelReferenceTrusted
  BY DEF IInv
<1> QED BY <1>1, IInvHolds, PTL

-----------------------------------------------------------------------------
(* The recovery budget over time.  What assessments added at one tick may  *)
(* be charged to two windows, for an assessment that read the time before  *)
(* a window opened may get the lock after.  So the invariant splits what   *)
(* each tick raised into what the current window pays and the rest.        *)
Clock == 0 .. MaxTime

Span(a, b) == {t \in Clock : a <= t /\ t <= b}

Rest(r, c) == [t \in Clock |-> r[t] - c[t]]

Charged(r, c, start, spent) ==
  /\ r \in [Clock -> Nat] /\ c \in [Clock -> Nat]
  /\ \A t \in Clock : c[t] <= r[t]
  /\ \A t \in Clock : c[t] > 0 => start - MaxLag <= t /\ t <= start + Hour
  /\ \A t \in Clock : c[t] < r[t] => t < start
  /\ Sum(c, Clock) <= spent
  /\ \A a \in Clock : Sum(Rest(r, c), Span(a, a + Stretch)) <= 2 * RecoveryCap
  /\ \A a \in Clock : start - MaxLag <= a + Stretch =>
       Sum(Rest(r, c), Span(a, a + Stretch)) <= RecoveryCap

LEMMA SpanFinite ==
  ASSUME NEW a, NEW b
  PROVE  /\ IsFiniteSet(Clock) /\ Span(a, b) \in SUBSET Clock /\ IsFiniteSet(Span(a, b))
<1>1. IsFiniteSet(Clock)
  BY FS_Interval, BoundsAssumption DEF Clock
<1> QED BY <1>1, FS_Subset DEF Span

LEMMA StretchBounds == Stretch \in Nat /\ Stretch = Hour + 1 - MaxLag
BY BoundsAssumption, HourAssumption DEF Stretch

(* Both parts of what a span of ticks raised. *)
LEMMA SpanSplit ==
  ASSUME NEW r \in [Clock -> Nat], NEW c \in [Clock -> Nat], \A t \in Clock : c[t] <= r[t],
         NEW a, NEW b
  PROVE  LET S == Span(a, b)
         IN  /\ Sum(r, S) = Sum(c, S) + Sum(Rest(r, c), S)
             /\ Sum(r, S) \in Nat /\ Sum(c, S) \in Nat /\ Sum(Rest(r, c), S) \in Nat
             /\ Sum(c, S) <= Sum(c, Clock) /\ Sum(c, Clock) \in Nat
<1> DEFINE S == Span(a, b)
           d == Rest(r, c)
<1>1. IsFiniteSet(Clock) /\ S \in SUBSET Clock /\ IsFiniteSet(S)
  BY SpanFinite
<1>2. \A t \in S : r[t] \in Nat /\ c[t] \in Nat /\ d[t] \in Nat /\ r[t] = c[t] + d[t]
  BY <1>1 DEF Rest
<1>3. \A t \in Clock : c[t] \in Nat
  OBVIOUS
<1> HIDE DEF S, d
<1>4. Sum(r, S) = Sum(c, S) + Sum(d, S)
  BY <1>1, <1>2, SumPlus
<1>5. Sum(c, S) \in Nat /\ Sum(d, S) \in Nat /\ Sum(r, S) \in Nat
  BY <1>1, <1>2, SumGrows
<1>6. Sum(c, S) <= Sum(c, Clock) /\ Sum(c, Clock) \in Nat
  BY <1>1, <1>3, SumGrows
<1> QED BY <1>4, <1>5, <1>6 DEF S, d

(* What the property says follows from the split. *)
LEMMA ChargedBounds ==
  ASSUME NEW r, NEW c, NEW start \in Nat, NEW spent \in Nat, spent <= RecoveryCap,
         Charged(r, c, start, spent)
  PROVE  /\ \A a \in Clock : Sum(r, Span(a, a + Stretch)) <= 2 * RecoveryCap
         /\ Sum(r, Span(start, MaxTime)) <= spent
<1>0. /\ r \in [Clock -> Nat] /\ c \in [Clock -> Nat] /\ \A t \in Clock : c[t] <= r[t]
      /\ Sum(c, Clock) <= spent
  BY DEF Charged
<1>1. ASSUME NEW a \in Clock PROVE Sum(r, Span(a, a + Stretch)) <= 2 * RecoveryCap
  <2> DEFINE S == Span(a, a + Stretch)
  <2>1. /\ Sum(r, S) = Sum(c, S) + Sum(Rest(r, c), S)
        /\ Sum(c, S) \in Nat /\ Sum(Rest(r, c), S) \in Nat
        /\ Sum(c, S) <= Sum(c, Clock) /\ Sum(c, Clock) \in Nat
    BY <1>0, SpanSplit
  <2>2. CASE start - MaxLag <= a + Stretch
    <3>1. Sum(Rest(r, c), S) <= RecoveryCap
      BY <2>2 DEF Charged
    <3> HIDE DEF S
    <3>2. Sum(r, S) <= 2 * RecoveryCap
      BY <1>0, <2>1, <3>1, CapAssumption
    <3> QED BY <3>2 DEF S
  <2>3. CASE ~(start - MaxLag <= a + Stretch)
    <3>1. \A t \in S : c[t] = 0
      <4> SUFFICES ASSUME NEW t \in S PROVE c[t] = 0
        OBVIOUS
      <4>1. t \in Clock /\ t <= a + Stretch
        BY DEF Span
      <4>2. ~(start - MaxLag <= t)
        BY <2>3, <4>1, StretchBounds, BoundsAssumption DEF Clock
      <4>3. c[t] \in Nat /\ ~(c[t] > 0)
        BY <1>0, <4>1, <4>2 DEF Charged
      <4> QED BY <4>3
    <3>2. Sum(c, S) = 0
      BY <3>1, SpanFinite, SumZero
    <3>3. Sum(Rest(r, c), S) <= 2 * RecoveryCap
      BY DEF Charged
    <3> HIDE DEF S
    <3>4. Sum(r, S) <= 2 * RecoveryCap
      BY <2>1, <3>2, <3>3
    <3> QED BY <3>4 DEF S
  <2> QED BY <2>2, <2>3
<1>2. Sum(r, Span(start, MaxTime)) <= spent
  <2> DEFINE S == Span(start, MaxTime)
  <2>1. /\ Sum(r, S) = Sum(c, S) + Sum(Rest(r, c), S)
        /\ Sum(c, S) \in Nat /\ Sum(c, S) <= Sum(c, Clock) /\ Sum(c, Clock) \in Nat
    BY <1>0, SpanSplit
  <2>2. \A t \in S : Rest(r, c)[t] = 0
    <3> SUFFICES ASSUME NEW t \in S PROVE Rest(r, c)[t] = 0
      OBVIOUS
    <3>1. t \in Clock /\ start <= t
      BY DEF Span
    <3>2. ~(c[t] < r[t])
      BY <3>1 DEF Charged, Clock
    <3>3. c[t] \in Nat /\ r[t] \in Nat /\ c[t] <= r[t]
      BY <1>0, <3>1
    <3> QED BY <3>1, <3>2, <3>3 DEF Rest
  <2>3. Sum(Rest(r, c), S) = 0
    BY <2>2, SpanFinite, SumZero
  <2> HIDE DEF S
  <2>4. Sum(r, S) <= spent
    BY <1>0, <2>1, <2>3
  <2> QED BY <2>4 DEF S
<1> QED BY <1>1, <1>2

(* Nothing has been raised yet. *)
Nothing == [t \in Clock |-> 0]

LEMMA ChargedAtFirst == Charged(Nothing, Nothing, 0, 0)
<1>1. \A a : Sum(Rest(Nothing, Nothing), Span(a, a + Stretch)) = 0
  BY SpanFinite, SumZero DEF Rest, Nothing
<1>2. Sum(Nothing, Clock) = 0
  BY SpanFinite, SumZero DEF Nothing
<1>3. Nothing \in [Clock -> Nat] /\ \A t \in Clock : Nothing[t] = 0
  BY DEF Nothing
<1>4. 0 <= RecoveryCap /\ 0 <= 2 * RecoveryCap
  BY CapAssumption
<1> QED BY <1>1, <1>2, <1>3, <1>4 DEF Charged

(* A window that ran out is replaced: all it paid becomes part of the rest. *)
LEMMA ChargedAnew ==
  ASSUME NEW r, NEW c, NEW start \in Nat, NEW spent \in Nat, spent <= RecoveryCap,
         Charged(r, c, start, spent), NEW now \in Clock, now - start > Hour
  PROVE  Charged(r, Nothing, now, 0)
<1>0. /\ r \in [Clock -> Nat] /\ c \in [Clock -> Nat] /\ \A t \in Clock : c[t] <= r[t]
      /\ Sum(c, Clock) <= spent
  BY DEF Charged
<1>1. /\ Nothing \in [Clock -> Nat] /\ \A t \in Clock : Nothing[t] = 0
      /\ Sum(Nothing, Clock) = 0
  BY SpanFinite, SumZero DEF Nothing
<1>2. \A a : Sum(Rest(r, Nothing), Span(a, a + Stretch)) = Sum(r, Span(a, a + Stretch))
  <2> SUFFICES ASSUME NEW a
               PROVE  Sum(Rest(r, Nothing), Span(a, a + Stretch)) = Sum(r, Span(a, a + Stretch))
    OBVIOUS
  <2>1. Span(a, a + Stretch) \in SUBSET Clock /\ IsFiniteSet(Span(a, a + Stretch))
    BY SpanFinite
  <2>2. \A t \in Clock : Rest(r, Nothing)[t] = r[t]
    BY <1>0, <1>1 DEF Rest
  <2> QED BY <2>1, <2>2, SumSame
<1>3. ASSUME NEW t \in Clock, Nothing[t] < r[t] PROVE t < now
  <2>1. c[t] > 0 \/ c[t] < r[t]
    BY <1>0, <1>1, <1>3
  <2>2. t <= start + Hour \/ t < start
    BY <2>1 DEF Charged
  <2> QED BY <2>2, HourAssumption DEF Clock
<1>4. ASSUME NEW a \in Clock, now - MaxLag <= a + Stretch
      PROVE  Sum(Rest(r, Nothing), Span(a, a + Stretch)) <= RecoveryCap
  <2> DEFINE S == Span(a, a + Stretch)
  <2>1. start <= a
    BY <1>4, StretchBounds, BoundsAssumption, HourAssumption DEF Clock
  <2>2. S \in SUBSET Span(start, MaxTime)
    BY <2>1, BoundsAssumption DEF Span, Clock
  <2>3. Sum(r, S) <= Sum(r, Span(start, MaxTime)) /\ Sum(r, S) \in Nat
        /\ Sum(r, Span(start, MaxTime)) \in Nat
    <3>1. IsFiniteSet(Span(start, MaxTime)) /\ \A t \in Span(start, MaxTime) : r[t] \in Nat
      BY <1>0, SpanFinite
    <3> QED BY <2>2, <3>1, SumGrows
  <2>4. Sum(r, Span(start, MaxTime)) <= spent
    BY ChargedBounds
  <2>5. Sum(Rest(r, Nothing), S) = Sum(r, S)
    BY <1>2
  <2> HIDE DEF S
  <2>6. Sum(Rest(r, Nothing), S) <= RecoveryCap
    BY <2>3, <2>4, <2>5, CapAssumption
  <2> QED BY <2>6 DEF S
<1>5. \A a \in Clock : Sum(Rest(r, Nothing), Span(a, a + Stretch)) <= 2 * RecoveryCap
  BY <1>2, ChargedBounds
<1>6. \A t \in Clock : Nothing[t] <= r[t]
  BY <1>0, <1>1
<1> QED BY <1>0, <1>1, <1>3, <1>4, <1>5, <1>6 DEF Charged

(* An assessment at time now adds gain, and the window pays for it. *)
LEMMA ChargedMore ==
  ASSUME NEW r, NEW c, NEW start \in Nat, NEW spent \in Nat, Charged(r, c, start, spent),
         NEW now \in Clock, start - MaxLag <= now, now <= start + Hour,
         NEW gain \in Nat, NEW paid \in Nat, gain <= paid
  PROVE  Charged([r EXCEPT ![now] = @ + gain], [c EXCEPT ![now] = @ + gain], start, spent + paid)
<1> DEFINE r1 == [r EXCEPT ![now] = @ + gain]
           c1 == [c EXCEPT ![now] = @ + gain]
<1>0. /\ r \in [Clock -> Nat] /\ c \in [Clock -> Nat] /\ \A t \in Clock : c[t] <= r[t]
      /\ Sum(c, Clock) <= spent
  BY DEF Charged
<1>1. /\ r1 \in [Clock -> Nat] /\ c1 \in [Clock -> Nat]
      /\ r1[now] = r[now] + gain /\ c1[now] = c[now] + gain
      /\ \A t \in Clock \ {now} : r1[t] = r[t] /\ c1[t] = c[t]
  BY <1>0
<1> HIDE DEF r1, c1
<1>2. \A t \in Clock : c1[t] <= r1[t] /\ (c1[t] < r1[t] => c[t] < r[t])
  <2> SUFFICES ASSUME NEW t \in Clock
               PROVE  c1[t] <= r1[t] /\ (c1[t] < r1[t] => c[t] < r[t])
    OBVIOUS
  <2>1. r[t] \in Nat /\ c[t] \in Nat /\ c[t] <= r[t]
    BY <1>0
  <2> QED BY <1>1, <2>1
<1>3. \A t \in Clock : c1[t] > 0 => start - MaxLag <= t /\ t <= start + Hour
  BY <1>1 DEF Charged
<1>4. Sum(c1, Clock) <= spent + paid
  <2>1. Sum(c1, Clock) = Sum(c, Clock) + (c1[now] - c[now])
    <3>1. \A t \in Clock : c[t] \in Int /\ c1[t] \in Int
      BY <1>0, <1>1
    <3> QED BY <1>1, <3>1, SpanFinite, SumChanged
  <2>2. Sum(c, Clock) \in Nat
    <3>1. \A t \in Clock : c[t] \in Nat
      BY <1>0
    <3> QED BY <3>1, SpanFinite, SumGrows
  <2>3. c1[now] - c[now] = gain
    BY <1>0, <1>1
  <2> QED BY <1>0, <2>1, <2>2, <2>3
<1>5. \A a : Sum(Rest(r1, c1), Span(a, a + Stretch)) = Sum(Rest(r, c), Span(a, a + Stretch))
  <2>1. \A t \in Clock : Rest(r1, c1)[t] = Rest(r, c)[t]
    <3> SUFFICES ASSUME NEW t \in Clock PROVE r1[t] - c1[t] = r[t] - c[t]
      BY DEF Rest
    <3>1. r[t] \in Nat /\ c[t] \in Nat
      BY <1>0
    <3> QED BY <1>1, <3>1
  <2> QED BY <2>1, SpanFinite, SumSame
<1>6. \A t \in Clock : c1[t] < r1[t] => t < start
  BY <1>2 DEF Charged
<1>7. /\ \A a \in Clock : Sum(Rest(r1, c1), Span(a, a + Stretch)) <= 2 * RecoveryCap
      /\ \A a \in Clock : start - MaxLag <= a + Stretch =>
           Sum(Rest(r1, c1), Span(a, a + Stretch)) <= RecoveryCap
  BY <1>5 DEF Charged
<1>8. Charged(r1, c1, start, spent + paid)
  BY <1>1, <1>2, <1>3, <1>4, <1>6, <1>7 DEF Charged
<1> QED BY <1>8 DEF r1, c1

(* What one assessment adds to the trust and what it charges: a loss       *)
(* nothing, a recovery no less than it adds.                               *)
LEMMA GainIsPaid ==
  ASSUME NEW s \in IdentityState, NEW risk \in Scores, NEW now \in Nat
  PROVE  LET b    == NextBudget(s.budget, risk, now, Hour, RecoveryCap)
             gain == TrustAfter(s, risk, now) - s.trust
         IN  /\ gain \in Int
             /\ \/ b = s.budget /\ gain <= 0
                \/ \E paid \in Nat :
                     /\ b = [BudgetAt(s.budget, now, Hour) EXCEPT !.recovered = @ + paid]
                     /\ gain <= paid
<1> DEFINE paid == Recovery(s.budget, risk, now, Hour, RecoveryCap)
           t    == s.trust
<1>1. t \in Scores /\ s.budget \in [start : Nat, recovered : Nat]
  BY DEF IdentityState
<1>2. s.budget = [start |-> s.budget.start, recovered |-> s.budget.recovered]
      /\ s.budget.start \in Nat /\ s.budget.recovered \in Nat
  BY <1>1
<1>3. CASE risk > 450
  <2>1. Loss(risk) \in Nat
    BY <1>3, LossIsNat
  <2>2. TrustAfter(s, risk, now) = Clip(t - Loss(risk))
    BY <1>3 DEF TrustAfter, NextTrust
  <2>3. Clip(t - Loss(risk)) - t \in Int /\ Clip(t - Loss(risk)) - t <= 0
    <3> HIDE DEF t
    <3> QED BY <1>1, <2>1 DEF Clip, Scores
  <2>4. NextBudget(s.budget, risk, now, Hour, RecoveryCap) = s.budget
    BY <1>3 DEF NextBudget
  <2> QED BY <2>2, <2>3, <2>4
<1>4. CASE risk <= 450
  <2>0. ~(risk > 450)
    BY <1>4 DEF Scores
  <2>1. paid \in Nat
    <3> USE <1>2
    <3> QED BY <1>4, BudgetTyped
  <2>2. TrustAfter(s, risk, now) = Clip(t + paid)
    BY <2>0 DEF TrustAfter, NextTrust
  <2>3. NextBudget(s.budget, risk, now, Hour, RecoveryCap)
          = [BudgetAt(s.budget, now, Hour) EXCEPT !.recovered = @ + paid]
    BY <2>0 DEF NextBudget
  <2>4. Clip(t + paid) - t \in Int /\ Clip(t + paid) - t <= paid
    <3> HIDE DEF t, paid
    <3> QED BY <1>1, <2>1 DEF Clip, Scores
  <2> HIDE DEF paid
  <2> QED BY <2>1, <2>2, <2>3, <2>4
<1> QED BY <1>3, <1>4 DEF Scores

Budgeted ==
  /\ state.budget.start <= time
  /\ \E c : Charged(raised, c, state.budget.start, state.budget.recovered)

LEMMA AssessBudgeted ==
  ASSUME TypeOK, WindowWithinBudget, Budgeted,
         NEW e \in Events, NEW lag \in 0 .. MaxLag, Assess(e, lag)
  PROVE  Budgeted'
<1> DEFINE now  == time - lag
           risk == EventRisk(state, e, now)
           gain == TrustAfter(state, risk, now) - state.trust
           more == IF gain > 0 THEN gain ELSE 0
           b    == NextBudget(state.budget, risk, now, Hour, RecoveryCap)
<1>1. state \in IdentityState /\ time \in Times
  BY DEF TypeOK
<1>2. /\ now \in Nat /\ now \in Clock /\ time \in Nat /\ now <= time /\ time - MaxLag <= now
      /\ lag \in Nat /\ MaxLag \in Nat
  BY <1>1, BoundsAssumption, HourAssumption DEF Times, Clock
<1>3. risk \in Scores
  BY <1>1, <1>2, EventRiskTyped
<1>4. /\ state' = AfterAssess(state, e, risk, now)
      /\ raised' = [raised EXCEPT ![now] = @ + more] /\ time' = time
  BY DEF Assess
<1>5. /\ gain \in Int
      /\ \/ b = state.budget /\ gain <= 0
         \/ \E paid \in Nat :
              /\ b = [BudgetAt(state.budget, now, Hour) EXCEPT !.recovered = @ + paid]
              /\ gain <= paid
  BY <1>1, <1>2, <1>3, GainIsPaid
<1>6. state'.budget = b
  BY <1>1, <1>2, <1>3, <1>4, AssessEffect
<1>7. PICK c : Charged(raised, c, state.budget.start, state.budget.recovered)
  BY DEF Budgeted
<1>8. /\ state.budget.start \in Nat /\ state.budget.recovered \in Nat
      /\ state.budget.recovered <= RecoveryCap /\ state.budget.start <= time
      /\ state.budget \in [start : Nat, recovered : Nat]
  BY <1>1 DEF IdentityState, WindowWithinBudget, Budgeted
<1> HIDE DEF gain, b, risk, now
<1>9. more \in Nat /\ (gain <= 0 => more = 0)
  BY <1>5
<1>10. CASE b = state.budget /\ gain <= 0
  <2>1. raised' = raised
    <3>1. raised \in [Clock -> Nat]
      BY <1>7 DEF Charged
    <3> QED BY <1>2, <1>4, <1>9, <1>10, <3>1
  <2> QED BY <1>4, <1>6, <1>7, <1>8, <1>10, <2>1 DEF Budgeted
<1>11. ASSUME NEW paid \in Nat, gain <= paid,
              b = [BudgetAt(state.budget, now, Hour) EXCEPT !.recovered = @ + paid]
       PROVE  Budgeted'
  <2>1. more <= paid
    BY <1>5, <1>11
  <2> HIDE DEF more
  <2>2. ASSUME NEW k, NEW start \in Nat, NEW spent \in Nat, Charged(raised, k, start, spent),
               BudgetAt(state.budget, now, Hour) = [start |-> start, recovered |-> spent],
               start - MaxLag <= now, now <= start + Hour, start <= time
        PROVE  Budgeted'
    <3>1. b = [start |-> start, recovered |-> spent + paid]
      BY <1>11, <2>2
    <3>2. Charged([raised EXCEPT ![now] = @ + more], [k EXCEPT ![now] = @ + more],
                  start, spent + paid)
      BY <1>2, <1>9, <2>1, <2>2, ChargedMore
    <3>3. state'.budget.start = start /\ state'.budget.recovered = spent + paid
      BY <1>6, <3>1
    <3> QED BY <1>4, <2>2, <3>2, <3>3 DEF Budgeted
  <2>3. CASE now - state.budget.start > Hour
    <3>1. Charged(raised, Nothing, now, 0)
      BY <1>2, <1>7, <1>8, <2>3, ChargedAnew
    <3>2. BudgetAt(state.budget, now, Hour) = [start |-> now, recovered |-> 0]
      BY <2>3 DEF BudgetAt
    <3>3. now - MaxLag <= now /\ now <= now + Hour
      BY <1>2, HourAssumption
    <3> QED BY <1>2, <2>2, <3>1, <3>2, <3>3
  <2>4. CASE ~(now - state.budget.start > Hour)
    <3>1. BudgetAt(state.budget, now, Hour)
            = [start |-> state.budget.start, recovered |-> state.budget.recovered]
      BY <1>8, <2>4 DEF BudgetAt
    <3>2. state.budget.start - MaxLag <= now /\ now <= state.budget.start + Hour
      BY <1>2, <1>8, <2>4, HourAssumption
    <3> QED BY <1>7, <1>8, <2>2, <3>1, <3>2
  <2> QED BY <2>3, <2>4
<1> QED BY <1>5, <1>10, <1>11

LEMMA InitBudgeted == Init => Budgeted
<1> SUFFICES ASSUME Init PROVE Budgeted
  OBVIOUS
<1>1. raised = Nothing /\ state.budget.start = 0 /\ state.budget.recovered = 0
  BY DEF Init, NewIdentity, Nothing, Clock
<1>2. 0 <= time
  BY BoundsAssumption, HourAssumption DEF Init
<1> QED BY <1>1, <1>2, ChargedAtFirst DEF Budgeted

LEMMA NextBudgeted == IInv /\ Budgeted /\ [Next]_vars => Budgeted'
<1> SUFFICES ASSUME IInv, Budgeted, [Next]_vars PROVE Budgeted'
  OBVIOUS
<1>1. TypeOK /\ WindowWithinBudget /\ time \in Times /\ state \in IdentityState
  BY DEF IInv, TypeOK
<1>2. ASSUME NEW e \in Events, NEW lag \in 0 .. MaxLag, Assess(e, lag) PROVE Budgeted'
  BY <1>1, <1>2, AssessBudgeted
<1>3. ASSUME NEW passed \in BOOLEAN, StepUp(passed) PROVE Budgeted'
  <2>1. state'.budget = state.budget /\ time' = time /\ raised' = raised
    BY <1>1, <1>3, StepUpEffect DEF StepUp
  <2> QED BY <2>1 DEF Budgeted
<1>4. ASSUME Tick PROVE Budgeted'
  <2>1. time' = time + 1 /\ state' = state /\ raised' = raised
    BY <1>4 DEF Tick
  <2>2. state.budget.start \in Nat /\ time \in Nat
    BY <1>1, BoundsAssumption, HourAssumption DEF IdentityState, Times
  <2>3. state.budget.start <= time'
    BY <2>1, <2>2 DEF Budgeted
  <2> QED BY <2>1, <2>3 DEF Budgeted
<1>5. ASSUME UNCHANGED vars PROVE Budgeted'
  BY <1>5 DEF vars, Budgeted
<1> QED BY <1>1, <1>2, <1>3, <1>4, <1>5, HandlerInputs DEF Next

(* Recovery never outruns the budget, for any cap, window, lag and         *)
(* schedule: neither inside the current window nor, twofold, over any      *)
(* stretch as long as a window less the lag.                               *)
THEOREM RecoveryStaysInBudget == Spec => []RecoveryWithinBudget
<1>1. IInv /\ Budgeted => RecoveryWithinBudget
  <2> SUFFICES ASSUME IInv, Budgeted PROVE RecoveryWithinBudget
    OBVIOUS
  <2>1. /\ state.budget.start \in Nat /\ state.budget.recovered \in Nat
        /\ state.budget.recovered <= RecoveryCap /\ WindowWithinBudget
    BY DEF IInv, TypeOK, IdentityState, WindowWithinBudget
  <2>2. PICK c : Charged(raised, c, state.budget.start, state.budget.recovered)
    BY DEF Budgeted
  <2>3. /\ \A a \in Clock : Sum(raised, Span(a, a + Stretch)) <= 2 * RecoveryCap
        /\ Sum(raised, Span(state.budget.start, MaxTime)) <= state.budget.recovered
    BY <2>1, <2>2, ChargedBounds
  <2>4. DOMAIN raised = Clock
    BY <2>2 DEF Charged
  <2>5. \A a, b : RaisedDuring(a, b) = Sum(raised, Span(a, b))
    BY <2>4 DEF RaisedDuring, Sum, Span
  <2> QED BY <2>1, <2>3, <2>4, <2>5 DEF RecoveryWithinBudget
<1> QED BY <1>1, InitBudgeted, NextBudgeted, IInvHolds, PTL DEF Spec

-----------------------------------------------------------------------------
(* Action properties.  A step of Next is an assessment, a step-up or a     *)
(* tick; each lemma below says what the property needs of an assessment.   *)

LEMMA TravelStep ==
  ASSUME IInv, NEW e \in Events, NEW lag \in 0 .. MaxLag,
         Assess(e, lag), time - lag \in Nat, TravelCheck,
         state'.event_count # state.event_count,
         state.last_geo # NoGeo, Country[state'.last_geo] # Country[state.last_geo]
  PROVE  state'.last_geo_ts - state.last_geo_ts >= Hour
<1> DEFINE now == time - lag
           risk == EventRisk(state, e, now)
<1>1. state \in IdentityState /\ state.last_geo_ts \in Nat /\ Hour \in Nat
  BY HourAssumption DEF IInv, TypeOK, IdentityState
<1>2. risk \in Scores
  BY EventRiskTyped
<1>3. Impossible(state, e.geo, now) => ~Allowed(state, e, risk, now)
  BY <1>1, ImpossibleNotAllowed
<1>4. state' = AfterAssess(state, e, risk, now)
  BY DEF Assess
<1> HIDE DEF risk
<1>5. Allowed(state, e, risk, now)
  BY <1>1, <1>2, <1>4, AssessEffect
<1>6. state'.last_geo = e.geo /\ state'.last_geo_ts = now
  BY <1>1, <1>2, <1>4, <1>5, AssessEffect
<1>7. ~(now - state.last_geo_ts < Hour)
  BY <1>3, <1>5, <1>6 DEF Impossible
<1> QED BY <1>1, <1>6, <1>7

(* Two approvals from different countries are Hour apart, for every score  *)
(* the model gives: the boost alone decides.                               *)
THEOREM NoImpossibleTravel == Spec => NoImpossibleTravelAllowed
<1>1. ASSUME IInv, [Next]_vars
      PROVE  [ (/\ TravelCheck
                /\ state'.event_count # state.event_count
                /\ state.last_geo # NoGeo
                /\ Country[state'.last_geo] # Country[state.last_geo])
               => state'.last_geo_ts - state.last_geo_ts >= Hour ]_vars
  <2> SUFFICES ASSUME TravelCheck,
                      state'.event_count # state.event_count,
                      state.last_geo # NoGeo, Country[state'.last_geo] # Country[state.last_geo]
               PROVE  state'.last_geo_ts - state.last_geo_ts >= Hour
    OBVIOUS
  <2>1. state \in IdentityState /\ time \in Times
    BY <1>1 DEF IInv, TypeOK
  <2>2. ~UNCHANGED vars /\ ~Tick
    BY DEF Tick, vars
  <2>3. ASSUME NEW passed \in BOOLEAN, StepUp(passed) PROVE FALSE
    BY <2>1, <2>3, StepUpEffect DEF StepUp
  <2> QED BY <1>1, <2>1, <2>2, <2>3, HandlerInputs, TravelStep DEF Next
<1> QED BY <1>1, IInvHolds, PTL DEF Spec, NoImpossibleTravelAllowed

LEMMA FrozenStep ==
  ASSUME IInv, NEW e \in Events, NEW lag \in 0 .. MaxLag,
         Assess(e, lag), time - lag \in Nat
  PROVE  /\ state'.under_review =>
              /\ UNCHANGED <<state.geos, state.event_count,
                             state.last_geo, state.last_geo_ts>>
              /\ last'.decision # "ALLOW"
         /\ state.under_review => state'.under_review
<1> DEFINE now == time - lag
           risk == EventRisk(state, e, now)
<1>1. state \in IdentityState
  BY DEF IInv, TypeOK
<1>2. risk \in Scores
  BY EventRiskTyped
<1>3. /\ state' = AfterAssess(state, e, risk, now)
      /\ last'.decision = Answer(state, e, risk, now).decision
  BY DEF Assess
<1> HIDE DEF risk
<1>4. state'.under_review = (state.under_review \/ HeldForReview(state, e, risk, now))
  BY <1>1, <1>2, <1>3, AssessEffect
<1>5. state'.under_review => ~Allowed(state, e, risk, now)
  BY <1>1, <1>2, <1>4, AllowedMeans DEF HeldForReview
<1>6. ~Allowed(state, e, risk, now) =>
        /\ state'.geos = state.geos /\ state'.event_count = state.event_count
        /\ state'.last_geo = state.last_geo
        /\ state'.last_geo_ts = state.last_geo_ts
  BY <1>1, <1>2, <1>3, AssessEffect
<1>7. state.under_review \in BOOLEAN
  BY <1>1 DEF IdentityState
<1> QED BY <1>3, <1>4, <1>5, <1>6, <1>7 DEF Allowed

(* While a review lasts nothing is learnt, and only a step-up ends it.     *)
THEOREM ReviewFreezes == Spec => ReviewFreezesProfile
<1>1. ASSUME IInv, [Next]_vars
      PROVE  [ /\ state'.under_review =>
                    /\ UNCHANGED <<state.geos, state.event_count,
                                   state.last_geo, state.last_geo_ts>>
                    /\ last'.kind = "assess" => last'.decision # "ALLOW"
               /\ state.under_review /\ ~state'.under_review
                    => last'.kind = "passed" ]_vars
  <2>1. state \in IdentityState /\ time \in Times /\ NotAllowedUnderReview
    BY <1>1 DEF IInv, TypeOK
  <2>2. CASE UNCHANGED vars
    BY <2>2
  <2>3. CASE Tick
    BY <2>1, <2>3 DEF Tick, NotAllowedUnderReview
  <2>4. ASSUME NEW passed \in BOOLEAN, StepUp(passed)
        PROVE  /\ UNCHANGED <<state.geos, state.event_count,
                              state.last_geo, state.last_geo_ts>>
               /\ last'.kind = IF passed THEN "passed" ELSE "failed"
               /\ ~passed => state'.under_review = state.under_review
    BY <2>1, <2>4, StepUpEffect DEF StepUp, NothingYet
  <2> QED BY <1>1, <2>1, <2>2, <2>3, <2>4, HandlerInputs, FrozenStep DEF Next
<1> QED BY <1>1, IInvHolds, PTL DEF Spec, ReviewFreezesProfile

LEMMA DegradedStep ==
  ASSUME IInv, NEW e \in Events, NEW lag \in 0 .. MaxLag,
         Assess(e, lag), time - lag \in Nat,
         e.degraded, e.type \in FailClosedEvents
  PROVE  last'.decision # "ALLOW" /\ state'.event_count = state.event_count
<1> DEFINE now == time - lag
           risk == EventRisk(state, e, now)
<1>1. state \in IdentityState
  BY DEF IInv, TypeOK
<1>2. risk \in Scores
  BY EventRiskTyped
<1>3. /\ state' = AfterAssess(state, e, risk, now)
      /\ last'.decision = Answer(state, e, risk, now).decision
  BY DEF Assess
<1> HIDE DEF risk
<1>4. ~Allowed(state, e, risk, now)
  BY <1>1, <1>2, AllowedMeans
<1> QED BY <1>1, <1>2, <1>3, <1>4, AssessEffect DEF Allowed

(* Without a working model a high-assurance event is never approved.       *)
THEOREM DegradedIsClosed == Spec => DegradedFailsClosed
<1>1. ASSUME IInv, [Next]_vars
      PROVE  [ last'.kind = "assess" /\ last'.degraded
               /\ last'.type \in FailClosedEvents /\ steps' # steps
               => /\ last'.decision # "ALLOW"
                  /\ state'.event_count = state.event_count ]_vars
  <2> SUFFICES ASSUME last'.kind = "assess", last'.degraded,
                      last'.type \in FailClosedEvents, steps' # steps
               PROVE  /\ last'.decision # "ALLOW"
                      /\ state'.event_count = state.event_count
    OBVIOUS
  <2>1. time \in Times
    BY <1>1 DEF IInv, TypeOK
  <2>2. ~UNCHANGED vars /\ ~Tick
    BY DEF Tick, vars
  <2>3. ASSUME NEW passed \in BOOLEAN, StepUp(passed) PROVE FALSE
    BY <2>3 DEF StepUp, NothingYet
  <2>4. ASSUME NEW e \in Events, NEW lag \in 0 .. MaxLag, Assess(e, lag)
        PROVE  last'.degraded = e.degraded /\ last'.type = e.type
    BY <2>4 DEF Assess
  <2> QED BY <1>1, <2>1, <2>2, <2>3, <2>4, HandlerInputs, DegradedStep DEF Next
<1> QED BY <1>1, IInvHolds, PTL DEF Spec, DegradedFailsClosed

(* From a CUSUM of zero one event alone must rise by the threshold.        *)
LEMMA QuietFromZero ==
  ASSUME NEW ewma \in Int, NEW risk \in Scores,
         ewma = 0 \/ risk * 1000 <= ewma + CusumSlack + CusumThreshold
  PROVE  ~CusumFired(NextCusum(ewma, 0, risk))
BY DEF CusumFired, NextCusum, CusumSlack, CusumThreshold, Scores

LEMMA CleanStep ==
  ASSUME IInv, NEW e \in Events, NEW lag \in 0 .. MaxLag,
         Assess(e, lag), time - lag \in Nat, last.kind = "passed",
         \/ state.risk_ewma = 0
         \/ last'.risk * 1000 <= state.risk_ewma + CusumSlack + CusumThreshold
  PROVE  ~state'.under_review
<1> DEFINE now == time - lag
           risk == EventRisk(state, e, now)
<1>1. state \in IdentityState
  BY DEF IInv, TypeOK
<1>2. risk \in Scores
  BY EventRiskTyped
<1>3. state' = AfterAssess(state, e, risk, now) /\ last'.risk = risk
  BY DEF Assess
<1>4. state.cusum = 0 /\ state.risk_window = <<>> /\ ~state.under_review
  BY DEF IInv, CleanAfterVerification
<1> HIDE DEF risk
<1>5. ~CusumFired(NextCusum(state.risk_ewma, state.cusum, risk))
  <2>1. state.risk_ewma \in Int
    BY <1>1 DEF IdentityState
  <2>2. \/ state.risk_ewma = 0
        \/ risk * 1000 <= state.risk_ewma + CusumSlack + CusumThreshold
    BY <1>3
  <2> QED BY <1>2, <1>4, <2>1, <2>2, QuietFromZero
<1>6. ~Detect(WindowAfter(state, risk))
  <2>1. /\ Append(state.risk_window, risk) = <<risk>>
        /\ Len(Append(state.risk_window, risk)) = 1
    BY <1>2, <1>4
  <2>2. WindowAfter(state, risk) = Append(state.risk_window, risk)
    BY <2>1 DEF WindowAfter, LastN, RiskWindowMax
  <2>3. Len(WindowAfter(state, risk)) = 1
    BY <2>1, <2>2
  <2>4. ~(Len(WindowAfter(state, risk)) >= MinSamples)
    BY <2>3 DEF MinSamples
  <2> QED BY <2>4 DEF Detect
<1>7. ~HeldForReview(state, e, risk, now)
  BY <1>4, <1>5, <1>6 DEF HeldForReview, Drifting
<1> QED BY <1>1, <1>2, <1>3, <1>4, <1>7, AssessEffect, ZenonT(60)

(* After a passed step-up, nothing of the episode before it can hold the   *)
(* next event back.                                                        *)
THEOREM VerificationEnds == Spec => VerificationEndsReview
<1>1. ASSUME IInv, [Next]_vars
      PROVE  [ (/\ last.kind = "passed" /\ last'.kind = "assess"
                /\ \/ state.risk_ewma = 0
                   \/ last'.risk * 1000
                        <= state.risk_ewma + CusumSlack + CusumThreshold)
               => ~state'.under_review ]_vars
  <2> SUFFICES ASSUME last.kind = "passed", last'.kind = "assess",
                      \/ state.risk_ewma = 0
                      \/ last'.risk * 1000
                           <= state.risk_ewma + CusumSlack + CusumThreshold
               PROVE  ~state'.under_review
    OBVIOUS
  <2>1. time \in Times
    BY <1>1 DEF IInv, TypeOK
  <2>2. ~UNCHANGED vars /\ ~Tick
    BY DEF Tick, vars
  <2>3. ASSUME NEW passed \in BOOLEAN, StepUp(passed) PROVE FALSE
    <3>1. last'.kind # "assess"
      BY <2>3 DEF StepUp, NothingYet
    <3> QED BY <3>1
  <2> QED BY <1>1, <2>1, <2>2, <2>3, HandlerInputs, CleanStep, ZenonT(60) DEF Next
<1> QED BY <1>1, IInvHolds, PTL DEF Spec, VerificationEndsReview
-----------------------------------------------------------------------------
(* A steady history.  Of a customer all of whose risks so far are r the    *)
(* baseline is r, the CUSUM is empty and the window holds r only, so that  *)
(* both detectors see nothing in another r.                                *)

LEMMA LastNOf ==
  ASSUME NEW w \in Seq(Scores), NEW n \in Nat
  PROVE  /\ LastN(w, n) \in Seq(Scores)
         /\ Len(LastN(w, n)) = IF Len(w) <= n THEN Len(w) ELSE n
         /\ \A i \in 1 .. Len(LastN(w, n)) :
              \E j \in 1 .. Len(w) : LastN(w, n)[i] = w[j]
<1>1. CASE Len(w) <= n
  BY <1>1 DEF LastN
<1>2. CASE ~(Len(w) <= n)
  <2> DEFINE from == Len(w) - n + 1
  <2>1. from \in 1 .. Len(w) + 1 /\ Len(w) \in Nat
    BY <1>2
  <2>2. LastN(w, n) = SubSeq(w, from, Len(w))
    BY <1>2 DEF LastN
  <2>3. /\ SubSeq(w, from, Len(w)) \in Seq(Scores)
        /\ Len(SubSeq(w, from, Len(w))) = n
        /\ \A i \in 1 .. n : SubSeq(w, from, Len(w))[i] = w[from + i - 1]
    BY <2>1
  <2>4. \A i \in 1 .. n : from + i - 1 \in 1 .. Len(w)
    BY <2>1
  <2> QED BY <1>2, <2>2, <2>3, <2>4
<1> QED BY <1>1, <1>2

Flat(w, r) == \A i \in 1 .. Len(w) : w[i] = r

LEMMA FlatKeeps ==
  ASSUME NEW w \in Seq(Scores), NEW r \in Scores, NEW n \in Nat, Flat(w, r)
  PROVE  Flat(LastN(Append(w, r), n), r)
<1> DEFINE v == Append(w, r)
<1>1. v \in Seq(Scores) /\ \A i \in 1 .. Len(v) : v[i] = r
  BY DEF Flat
<1> HIDE DEF v
<1>2. \A i \in 1 .. Len(LastN(v, n)) : \E j \in 1 .. Len(v) : LastN(v, n)[i] = v[j]
  BY <1>1, LastNOf
<1> QED BY <1>1, <1>2 DEF v, Flat

(* Two samples of one value have the same distribution (detect's KS gap).  *)
LEMMA FlatGap ==
  ASSUME NEW early \in Seq(Scores), NEW late \in Seq(Scores), NEW r \in Scores,
         Flat(early, r), Flat(late, r), Len(early) > 0, Len(late) > 0
  PROVE  KSGap(early, late) = 0
<1>1. ASSUME NEW w \in Seq(Scores), Flat(w, r)
      PROVE  CountUpTo(w, r) = Len(w)
  <2>1. {i \in DOMAIN w : w[i] <= r} = 1 .. Len(w)
    BY <1>1 DEF Flat, Scores
  <2>2. Cardinality(1 .. Len(w)) = IF 1 > Len(w) THEN 0 ELSE Len(w) - 1 + 1
    <3>1. 1 \in Int /\ Len(w) \in Int
      OBVIOUS
    <3> QED BY <3>1, FS_Interval, Zenon
  <2>3. Cardinality(1 .. Len(w)) = Len(w)
    <3>1. Len(w) \in Nat
      OBVIOUS
    <3> QED BY <2>2, <3>1
  <2> QED BY <2>1, <2>3 DEF CountUpTo
<1>2. GapAt(r, early, late) = 0
  <2>1. CountUpTo(early, r) = Len(early) /\ CountUpTo(late, r) = Len(late)
    BY <1>1
  <2>2. Len(early) * Len(late) - Len(late) * Len(early) = 0
    OBVIOUS
  <2> QED BY <2>1, <2>2 DEF GapAt
<1>3. {early[i] : i \in DOMAIN early} \cup {late[i] : i \in DOMAIN late} = {r}
  BY DEF Flat
<1>4. {GapAt(v, early, late) : v \in {r}} = {0}
  BY <1>2
<1>5. Max({0}) = 0
  BY DEF Max
<1> QED BY <1>3, <1>4, <1>5 DEF KSGap

(* The two samples detect compares. *)
Early(w) == SubSeq(LastN(w, Window), 1, Len(LastN(w, Window)) \div 2)
Late(w)  == SubSeq(LastN(w, Window), Len(LastN(w, Window)) \div 2 + 1, Len(LastN(w, Window)))

SampleSizes == {<<4, 4>>, <<4, 5>>, <<5, 5>>, <<5, 6>>, <<6, 6>>}

LEMMA Samples ==
  ASSUME NEW w \in Seq(Scores), Len(w) >= MinSamples
  PROVE  LET recent == LastN(w, Window)
             half   == Len(recent) \div 2
         IN  /\ recent \in Seq(Scores) /\ half \in Nat /\ Len(recent) \in Nat
             /\ \A i \in 1 .. Len(recent) : \E j \in 1 .. Len(w) : recent[i] = w[j]
             /\ Early(w) \in Seq(Scores) /\ Late(w) \in Seq(Scores)
             /\ Len(Early(w)) = half /\ Len(Late(w)) = Len(recent) - half
             /\ \A i \in 1 .. Len(Early(w)) : Early(w)[i] = recent[i]
             /\ \A i \in 1 .. Len(Late(w)) : Late(w)[i] = recent[half + i]
             /\ <<Len(Early(w)), Len(Late(w))>> \in SampleSizes
<1> DEFINE recent == LastN(w, Window)
           half   == Len(recent) \div 2
           early  == SubSeq(recent, 1, half)
           late   == SubSeq(recent, half + 1, Len(recent))
<1>1. /\ recent \in Seq(Scores) /\ Len(recent) \in 8 .. 12
      /\ \A i \in 1 .. Len(recent) : \E j \in 1 .. Len(w) : recent[i] = w[j]
  <2>1. Window \in Nat /\ Window = 12 /\ Len(w) \in Nat /\ Len(w) >= 8
    BY DEF MinSamples, Window
  <2>2. /\ recent \in Seq(Scores)
        /\ Len(recent) = IF Len(w) <= Window THEN Len(w) ELSE Window
        /\ \A i \in 1 .. Len(recent) : \E j \in 1 .. Len(w) : recent[i] = w[j]
    BY <2>1, LastNOf
  <2> HIDE DEF recent
  <2>3. Len(recent) \in 8 .. 12
    <3>1. \A n \in Nat : n >= 8 => (IF n <= 12 THEN n ELSE 12) \in 8 .. 12
      OBVIOUS
    <3> QED BY <2>1, <2>2, <3>1
  <2> QED BY <2>2, <2>3
<1>2. Early(w) = early /\ Late(w) = late
  BY DEF Early, Late
<1> HIDE DEF recent
<1>3. half \in 4 .. 6 /\ half <= Len(recent) /\ <<half, Len(recent) - half>> \in SampleSizes
  <2> DEFINE n == Len(recent)
  <2>1. n = 8 \/ n = 9 \/ n = 10 \/ n = 11 \/ n = 12
    BY <1>1
  <2> HIDE DEF n
  <2>2. n \div 2 \in 4 .. 6 /\ n \div 2 <= n /\ <<n \div 2, n - n \div 2>> \in SampleSizes
    BY <2>1 DEF SampleSizes
  <2> QED BY <2>2 DEF n
<1> HIDE DEF half
<1>4. /\ half \in Nat /\ Len(recent) \in Nat /\ half + 1 \in 1 .. Len(recent) + 1
      /\ half \in 0 .. Len(recent) /\ Len(recent) - half \in Nat
  BY <1>1, <1>3
<1>5. /\ early \in Seq(Scores) /\ Len(early) = half
      /\ \A i \in 1 .. half : early[i] = recent[i]
  BY <1>1, <1>4
<1>6. /\ late \in Seq(Scores) /\ Len(late) = Len(recent) - half
      /\ \A i \in 1 .. Len(recent) - half : late[i] = recent[half + i]
  BY <1>1, <1>4
<1> HIDE DEF early, late
<1>7. <<Len(early), Len(late)>> \in SampleSizes
  BY <1>3, <1>5, <1>6
<1> QED BY <1>1, <1>2, <1>4, <1>5, <1>6, <1>7 DEF recent, half

LEMMA FlatUndetected ==
  ASSUME NEW w \in Seq(Scores), NEW r \in Scores, Flat(w, r)
  PROVE  ~Detect(w)
<1> SUFFICES ASSUME Len(w) >= MinSamples PROVE ~Detect(w)
  BY DEF Detect
<1> DEFINE recent == LastN(w, Window)
           early  == Early(w)
           late   == Late(w)
           half   == Len(recent) \div 2
<1>1. /\ recent \in Seq(Scores) /\ half \in Nat /\ Len(recent) \in Nat
      /\ \A i \in 1 .. Len(recent) : \E j \in 1 .. Len(w) : recent[i] = w[j]
      /\ early \in Seq(Scores) /\ late \in Seq(Scores)
      /\ Len(early) = half /\ Len(late) = Len(recent) - half
      /\ \A i \in 1 .. Len(early) : early[i] = recent[i]
      /\ \A i \in 1 .. Len(late) : late[i] = recent[half + i]
      /\ <<Len(early), Len(late)>> \in SampleSizes
  BY Samples
<1>2. Detect(w) => KSGap(early, late) >= KSCritical(Len(early), Len(late))
  BY DEF Detect, Early, Late
<1> HIDE DEF recent, early, late, half
<1>3. Flat(early, r) /\ Flat(late, r)
  <2>1. \A i \in 1 .. Len(recent) : recent[i] = r
    BY <1>1 DEF Flat
  <2>2. ASSUME NEW i \in 1 .. Len(early) PROVE i \in 1 .. Len(recent)
    BY <1>1, <2>2 DEF SampleSizes
  <2>3. ASSUME NEW i \in 1 .. Len(late) PROVE half + i \in 1 .. Len(recent)
    <3>1. Len(late) = Len(recent) - half /\ half \in Nat /\ Len(recent) \in Nat
      BY <1>1
    <3> QED BY <2>3, <3>1
  <2> QED BY <1>1, <2>1, <2>2, <2>3 DEF Flat
<1>4. KSGap(early, late) = 0
  <2>0. \A n, m : <<n, m>> \in SampleSizes => n > 0 /\ m > 0
    BY DEF SampleSizes
  <2>1. Len(early) > 0 /\ Len(late) > 0
    BY <1>1, <2>0
  <2> QED BY <1>1, <1>3, <2>1, FlatGap
<1>5. KSCritical(Len(early), Len(late)) \in Int /\ KSCritical(Len(early), Len(late)) > 0
  <2>1. \A n, m : <<n, m>> \in SampleSizes => KSCritical(n, m) \in Int /\ KSCritical(n, m) > 0
    BY DEF SampleSizes, KSCritical
  <2> QED BY <1>1, <2>1
<1> QED BY <1>2, <1>4, <1>5

LEMMA FlatBaseline ==
  ASSUME NEW ewma, NEW r \in Scores, ewma \in {0, r * 1000}
  PROVE  NextEwma(ewma, r) = r * 1000 /\ NextCusum(ewma, 0, r) = 0
BY DEF NextEwma, NextCusum, CusumSlack, Scores

Level(r) ==
  /\ state.risk_ewma \in {0, r * 1000} /\ state.cusum = 0
  /\ Flat(state.risk_window, r)
  /\ ~alarmed /\ ~state.under_review

Steady ==
  /\ seen \in SUBSET Scores
  /\ \A r \in Scores : seen \subseteq {r} => Level(r)

(* What assess makes of the detectors' part of the record. *)
LEMMA AssessDetectors ==
  ASSUME NEW s \in IdentityState, NEW e \in Events,
         NEW risk \in Scores, NEW now \in Nat
  PROVE  LET r == AfterAssess(s, e, risk, now)
         IN  /\ r.risk_window = WindowAfter(s, risk)
             /\ r.risk_ewma = NextEwma(s.risk_ewma, risk)
             /\ r.cusum = NextCusum(s.risk_ewma, s.cusum, risk)
<1> DEFINE p == Scored(s, e, risk, now)
<1>1. p \in IdentityState
  BY ScoredTyped
<1>2. /\ p.risk_window = WindowAfter(s, risk)
      /\ p.risk_ewma = NextEwma(s.risk_ewma, risk)
      /\ p.cusum = NextCusum(s.risk_ewma, s.cusum, risk)
  BY DEF Scored, IdentityState
<1> HIDE DEF p
<1>3. /\ Learn(p, e, now).risk_window = p.risk_window
      /\ Learn(p, e, now).risk_ewma = p.risk_ewma
      /\ Learn(p, e, now).cusum = p.cusum
  BY <1>1 DEF Learn, IdentityState
<1> QED BY <1>2, <1>3 DEF AfterAssess, p

LEMMA SteadyAssess ==
  ASSUME TypeOK, Steady, NEW e \in Events, NEW lag \in 0 .. MaxLag, Assess(e, lag),
         time - lag \in Nat
  PROVE  Steady'
<1> DEFINE now == time - lag
           risk == EventRisk(state, e, now)
<1>1. state \in IdentityState
  BY DEF TypeOK
<1>2. risk \in Scores
  BY EventRiskTyped
<1>3. /\ state' = AfterAssess(state, e, risk, now) /\ seen' = seen \cup {risk}
      /\ alarmed' = (alarmed \/ Drifting(state, risk))
  BY DEF Assess
<1> HIDE DEF risk
<1>4. ASSUME NEW r \in Scores, seen' \subseteq {r} PROVE Level(r)'
  <2>1. risk = r /\ Level(r)
    BY <1>3, <1>4 DEF Steady
  <2>2. state.risk_window \in Seq(Scores)
    BY <1>1 DEF IdentityState
  <2>3. WindowAfter(state, risk) \in Seq(Scores) /\ Flat(WindowAfter(state, risk), r)
    <3>1. RiskWindowMax \in Nat /\ Flat(state.risk_window, r)
      BY <2>1 DEF Level, RiskWindowMax
    <3>2. LastN(Append(state.risk_window, r), RiskWindowMax) \in Seq(Scores)
      BY <2>2, <3>1, WindowTyped
    <3>3. Flat(LastN(Append(state.risk_window, r), RiskWindowMax), r)
      BY <2>2, <3>1, FlatKeeps
    <3> QED BY <2>1, <3>2, <3>3 DEF WindowAfter
  <2>4. /\ NextEwma(state.risk_ewma, risk) = r * 1000
        /\ NextCusum(state.risk_ewma, state.cusum, risk) = 0
    BY <2>1, FlatBaseline DEF Level
  <2>5. ~Drifting(state, risk)
    <3>1. ~CusumFired(NextCusum(state.risk_ewma, state.cusum, risk))
      BY <2>4 DEF CusumFired, CusumThreshold
    <3>2. ~Detect(WindowAfter(state, risk))
      BY <2>3, FlatUndetected
    <3> QED BY <3>1, <3>2 DEF Drifting
  <2>6. ~HeldForReview(state, e, risk, now)
    BY <2>1, <2>5 DEF HeldForReview, Level
  <2>7. /\ state'.risk_window = WindowAfter(state, risk)
        /\ state'.risk_ewma = r * 1000 /\ state'.cusum = 0
    BY <1>1, <1>2, <1>3, <2>4, AssessDetectors
  <2>8. state'.under_review = (state.under_review \/ HeldForReview(state, e, risk, now))
    BY <1>1, <1>2, <1>3, AssessEffect
  <2>9. Flat(state'.risk_window, r)
    <3>1. state'.risk_window = WindowAfter(state, risk)
      BY <2>7
    <3> QED BY <2>3, <3>1
  <2>10. ~alarmed' /\ ~state'.under_review
    <3>1. ~alarmed /\ ~state.under_review
      BY <2>1 DEF Level
    <3> QED BY <1>3, <2>5, <2>6, <2>8, <3>1, Zenon
  <2>11. state'.risk_ewma \in {0, r * 1000} /\ state'.cusum = 0
    BY <2>7
  <2> QED BY <2>9, <2>10, <2>11, Zenon DEF Level
<1>5. seen' \in SUBSET Scores
  BY <1>2, <1>3 DEF Steady
<1> QED BY <1>4, <1>5, Zenon DEF Steady

LEMMA SteadyStep == TypeOK /\ Steady /\ [Next]_vars => Steady'
<1> SUFFICES ASSUME TypeOK, Steady, [Next]_vars PROVE Steady'
  OBVIOUS
<1>1. time \in Times
  BY DEF TypeOK
<1>2. ASSUME NEW passed \in BOOLEAN, StepUp(passed) PROVE Steady'
  <2>1. state \in IdentityState
    BY DEF TypeOK
  <2>2. /\ state'.risk_ewma = state.risk_ewma
        /\ state'.cusum = IF passed THEN 0 ELSE state.cusum
        /\ state'.risk_window = IF passed THEN <<>> ELSE state.risk_window
        /\ state'.under_review = (state.under_review /\ ~passed)
    BY <1>2, <2>1 DEF StepUp, AfterStepUp, IdentityState
  <2>3. seen' = seen /\ alarmed' = (alarmed /\ ~passed)
    BY <1>2 DEF StepUp
  <2>4. ASSUME NEW r \in Scores, seen' \subseteq {r} PROVE Level(r)'
    <3>1. Level(r)
      BY <2>3, <2>4 DEF Steady
    <3>2. Flat(state'.risk_window, r)
      <4>1. Flat(<<>>, r) /\ Flat(state.risk_window, r)
        BY <3>1 DEF Level, Flat
      <4>2. state'.risk_window \in {<<>>, state.risk_window}
        BY <2>2
      <4> QED BY <4>1, <4>2
    <3>3. state'.risk_ewma \in {0, r * 1000} /\ state'.cusum = 0
      BY <2>2, <3>1 DEF Level
    <3>4. ~alarmed' /\ ~state'.under_review
      <4>1. ~alarmed /\ ~state.under_review
        BY <3>1 DEF Level
      <4>2. ~alarmed'
        BY <2>3, <4>1, Zenon
      <4>3. ~state'.under_review
        BY <2>2, <4>1, Zenon
      <4> QED BY <4>2, <4>3
    <3> QED BY <3>2, <3>3, <3>4, Zenon DEF Level
  <2>5. seen' \in SUBSET Scores
    BY <2>3 DEF Steady
  <2> QED BY <2>4, <2>5, Zenon DEF Steady
<1>3. CASE Tick \/ UNCHANGED vars
  BY <1>3 DEF Tick, vars, Steady, Level
<1> QED BY <1>1, <1>2, <1>3, SteadyAssess, HandlerInputs DEF Next

(* A customer whose events all score the same is never put under review:   *)
(* neither DriftDetector.detect nor step mistakes a steady history for a   *)
(* drift, for every score and however many events and step-ups.            *)
THEOREM SteadyIsNotReviewed == Spec => []SteadyNeverReviewed
<1>1. Init => Steady
  BY DEF Init, NewIdentity, Steady, Level, Flat
<1>2. Steady => SteadyNeverReviewed
  <2> SUFFICES ASSUME Steady, Cardinality(seen) <= 1 PROVE ~alarmed /\ ~state.under_review
    BY DEF SteadyNeverReviewed
  <2>1. IsFiniteSet(seen) /\ Cardinality(seen) \in Nat
    <3>1. IsFiniteSet(Scores)
      <4> DEFINE top == 1000
      <4>1. 0 \in Int /\ top \in Int
        OBVIOUS
      <4> HIDE DEF top
      <4>2. IsFiniteSet(0 .. top)
        BY <4>1, FS_Interval
      <4> QED BY <4>2 DEF top, Scores
    <3> QED BY <3>1, FS_Subset, FS_CardinalityType DEF Steady
  <2>2. seen = {} \/ \E x : seen = {x}
    <3>1. Cardinality(seen) = 0 \/ Cardinality(seen) = 1
      BY <2>1
    <3> QED BY <2>1, <3>1, FS_EmptySet, FS_Singleton
  <2>3. \E r \in Scores : seen \subseteq {r}
    <3>1. 0 \in Scores
      BY DEF Scores
    <3> QED BY <2>2, <3>1 DEF Steady
  <2> QED BY <2>3 DEF Steady, Level
<1> QED BY <1>1, <1>2, SteadyStep, TypeCorrect, PTL DEF Spec

-----------------------------------------------------------------------------
(* The other direction: two halves that lie MinShift apart are a drift.    *)
LEMMA ScoreIsInt == \A x \in Scores : x \in Int
BY DEF Scores

LEMMA GreatestScore ==
  ASSUME NEW S \in SUBSET Scores, S # {}
  PROVE  \E x \in S : \A y \in S : y <= x
<1> DEFINE D == {1000 - x : x \in S}
<1>0. \A x \in S : x \in Int /\ 0 <= x /\ x <= 1000 /\ 1000 - x \in Nat
  BY DEF Scores
<1>1. D \in SUBSET Nat /\ D # {}
  BY <1>0
<1>2. IsWellFoundedOn(OpToRel(<,Nat), Nat)
  BY NatLessThanWellFounded
<1>3. PICK d \in D : \A m \in D : ~ (<<m, d>> \in OpToRel(<,Nat))
  BY <1>1, <1>2, WFMin
<1>4. \A m \in D : d <= m
  <2> SUFFICES ASSUME NEW m \in D PROVE d <= m
    OBVIOUS
  <2>1. m \in Nat /\ d \in Nat
    BY <1>1
  <2> HIDE DEF D
  <2>2. ~(m < d)
    BY <1>3, <2>1 DEF OpToRel
  <2> QED BY <2>1, <2>2
<1>5. PICK x \in S : d = 1000 - x
  BY <1>3
<1>6. \A y \in S : 1000 - x <= 1000 - y
  BY <1>4, <1>5
<1> QED BY <1>0, <1>6

LEMMA IndexSet ==
  ASSUME NEW w \in Seq(Scores)
  PROVE  /\ DOMAIN w = 1 .. Len(w) /\ IsFiniteSet(1 .. Len(w))
         /\ Cardinality(1 .. Len(w)) = Len(w) /\ Len(w) \in Nat
<1>1. Len(w) \in Nat /\ DOMAIN w = 1 .. Len(w)
  OBVIOUS
<1> DEFINE n == Len(w)
<1>2. n \in Nat
  BY <1>1
<1> HIDE DEF n
<1>3. IsFiniteSet(1 .. n) /\ Cardinality(1 .. n) = IF 1 > n THEN 0 ELSE n - 1 + 1
  BY <1>2, FS_Interval
<1>4. Cardinality(1 .. n) = n
  BY <1>2, <1>3
<1> QED BY <1>1, <1>3, <1>4 DEF n

(* The number of samples up to a value is one of 0 .. Len. *)
LEMMA CountRange ==
  ASSUME NEW w \in Seq(Scores), NEW v
  PROVE  /\ CountUpTo(w, v) \in 0 .. Len(w)
         /\ (\A i \in 1 .. Len(w) : w[i] <= v) => CountUpTo(w, v) = Len(w)
         /\ (\A i \in 1 .. Len(w) : ~(w[i] <= v)) => CountUpTo(w, v) = 0
<1> DEFINE C == {i \in DOMAIN w : w[i] <= v}
<1>1. /\ DOMAIN w = 1 .. Len(w) /\ IsFiniteSet(1 .. Len(w))
      /\ Cardinality(1 .. Len(w)) = Len(w) /\ Len(w) \in Nat
  BY IndexSet
<1>2. C \in SUBSET (1 .. Len(w))
  BY <1>1
<1>3. IsFiniteSet(C) /\ Cardinality(C) <= Len(w) /\ Cardinality(C) \in Nat
  BY <1>1, <1>2, Parts
<1>4. ASSUME \A i \in 1 .. Len(w) : w[i] <= v PROVE C = 1 .. Len(w)
  BY <1>1, <1>4
<1>5. ASSUME \A i \in 1 .. Len(w) : ~(w[i] <= v) PROVE C = {}
  BY <1>1, <1>5
<1>6. Cardinality({}) = 0
  BY FS_EmptySet
<1>7. CountUpTo(w, v) = Cardinality(C)
  BY DEF CountUpTo
<1> HIDE DEF C
<1>8. CountUpTo(w, v) \in 0 .. Len(w)
  BY <1>1, <1>3, <1>7
<1> QED BY <1>1, <1>4, <1>5, <1>6, <1>7, <1>8

(* What the products of detect come to for the sizes that occur. *)
LEMMA SizeFacts ==
  ASSUME NEW n, NEW m, <<n, m>> \in SampleSizes
  PROVE  /\ n \in Nat /\ m \in Nat /\ n > 0 /\ m > 0 /\ n * m \in Nat
         /\ KSCritical(n, m) \in Nat /\ KSCritical(n, m) <= n * m
         /\ \A a \in 0 .. n, b \in 0 .. m :
              a * m - b * n \in Int /\ a * m - b * n <= n * m /\ -(a * m - b * n) <= n * m
         /\ n * m - 0 * n = n * m /\ ~(n * m - 0 * n < 0)
         /\ \A v, a, b \in Int : (a <= n * v /\ m * (v + MinShift) <= b) =>
              b * n - a * m >= MinShift * n * m
<1>1. \/ (n = 4 /\ m = 4)
      \/ (n = 4 /\ m = 5)
      \/ (n = 5 /\ m = 5)
      \/ (n = 5 /\ m = 6)
      \/ (n = 6 /\ m = 6)
  BY DEF SampleSizes
<1>2. CASE n = 4 /\ m = 4
  BY <1>2 DEF KSCritical, MinShift
<1>3. CASE n = 4 /\ m = 5
  BY <1>3 DEF KSCritical, MinShift
<1>4. CASE n = 5 /\ m = 5
  BY <1>4 DEF KSCritical, MinShift
<1>5. CASE n = 5 /\ m = 6
  BY <1>5 DEF KSCritical, MinShift
<1>6. CASE n = 6 /\ m = 6
  BY <1>6 DEF KSCritical, MinShift
<1> QED BY <1>1, <1>2, <1>3, <1>4, <1>5, <1>6

LEMMA ShiftDetected ==
  ASSUME NEW early \in Seq(Scores), NEW late \in Seq(Scores),
         <<Len(early), Len(late)>> \in SampleSizes,
         \A i \in 1 .. Len(early), j \in 1 .. Len(late) : late[j] - early[i] >= MinShift
  PROVE  MeanShifted(early, late) /\ KSGap(early, late) >= KSCritical(Len(early), Len(late))
<1> DEFINE n == Len(early)
           m == Len(late)
<1>1. /\ n \in Nat /\ m \in Nat /\ n > 0 /\ m > 0 /\ n * m \in Nat
      /\ KSCritical(n, m) \in Nat /\ KSCritical(n, m) <= n * m
      /\ \A a \in 0 .. n, b \in 0 .. m :
           a * m - b * n \in Int /\ a * m - b * n <= n * m /\ -(a * m - b * n) <= n * m
      /\ n * m - 0 * n = n * m /\ ~(n * m - 0 * n < 0)
      /\ \A v, a, b \in Int : (a <= n * v /\ m * (v + MinShift) <= b) =>
           b * n - a * m >= MinShift * n * m
  BY SizeFacts
<1>2. PICK k \in 1 .. n : \A i \in 1 .. n : early[i] <= early[k]
  <2> DEFINE S == {early[i] : i \in 1 .. n}
  <2>1. S \in SUBSET Scores
    OBVIOUS
  <2>2. 1 \in 1 .. n
    BY <1>1
  <2>3. S # {}
    BY <2>2
  <2>4. PICK x \in S : \A y \in S : y <= x
    BY <2>1, <2>3, GreatestScore
  <2> QED BY <2>4
<1> DEFINE v == early[k]
<1>3. v \in Scores /\ v \in Int
  <2>1. v \in Scores
    BY <1>2
  <2> HIDE DEF v
  <2> QED BY <2>1, ScoreIsInt
<1>4. \A j \in 1 .. m : late[j] \in Int /\ v + MinShift <= late[j]
  <2> SUFFICES ASSUME NEW j \in 1 .. m PROVE late[j] \in Int /\ v + MinShift <= late[j]
    OBVIOUS
  <2>1. late[j] \in Scores /\ late[j] - v >= MinShift
    BY <1>2
  <2>2. late[j] \in Int
    BY <2>1, ScoreIsInt
  <2> HIDE DEF v
  <2> QED BY <1>3, <2>1, <2>2 DEF MinShift
<1>5. /\ DOMAIN early = 1 .. n /\ IsFiniteSet(1 .. n) /\ Cardinality(1 .. n) = n
      /\ DOMAIN late = 1 .. m /\ IsFiniteSet(1 .. m) /\ Cardinality(1 .. m) = m
  BY IndexSet
<1>6. \A i \in 1 .. n : early[i] \in Scores /\ early[i] \in Int
  <2>1. \A i \in 1 .. n : early[i] \in Scores
    OBVIOUS
  <2> QED BY <2>1, ScoreIsInt
<1>7. MeanShifted(early, late)
  <2>1. Total(early) = Sum(early, 1 .. n) /\ Total(late) = Sum(late, 1 .. m)
    BY <1>5 DEF Total, Sum
  <2> HIDE DEF n, m, v
  <2>2. Sum(early, 1 .. n) <= n * v
    BY <1>2, <1>3, <1>5, <1>6, SumAtMost DEF v
  <2>3. v + MinShift \in Int
    BY <1>3 DEF MinShift
  <2>4. m * (v + MinShift) <= Sum(late, 1 .. m)
    BY <1>4, <1>5, <2>3, SumAtLeast
  <2>5. Sum(early, 1 .. n) \in Int /\ Sum(late, 1 .. m) \in Int
    BY <1>4, <1>5, <1>6, SumIsInt
  <2>6. Total(late) * n - Total(early) * m >= MinShift * n * m
    BY <1>1, <1>3, <2>1, <2>2, <2>4, <2>5
  <2> QED BY <2>6 DEF MeanShifted, n, m
<1>8. GapAt(v, early, late) = n * m
  <2>1. CountUpTo(early, v) = n
    BY <1>2, CountRange
  <2>2. \A j \in 1 .. m : ~(late[j] <= v)
    BY <1>3, <1>4 DEF MinShift
  <2>3. CountUpTo(late, v) = 0
    BY <2>2, CountRange
  <2> HIDE DEF n, m, v
  <2>4. GapAt(v, early, late) = IF n * m - 0 * n < 0 THEN -(n * m - 0 * n) ELSE n * m - 0 * n
    BY <2>1, <2>3 DEF GapAt, n, m
  <2> QED BY <1>1, <2>4
<1>9. \A u : GapAt(u, early, late) \in Int /\ GapAt(u, early, late) <= n * m
  <2> SUFFICES ASSUME NEW u
               PROVE  GapAt(u, early, late) \in Int /\ GapAt(u, early, late) <= n * m
    OBVIOUS
  <2> DEFINE a == CountUpTo(early, u)
             b == CountUpTo(late, u)
  <2>1. a \in 0 .. n /\ b \in 0 .. m
    BY CountRange
  <2>2. GapAt(u, early, late) = IF a * m - b * n < 0 THEN -(a * m - b * n) ELSE a * m - b * n
    BY DEF GapAt
  <2> HIDE DEF a, b, n, m
  <2>3. a * m - b * n \in Int /\ a * m - b * n <= n * m /\ -(a * m - b * n) <= n * m
    BY <1>1, <2>1
  <2> QED BY <2>2, <2>3
<1>10. KSGap(early, late) >= n * m /\ KSGap(early, late) \in Int
  <2> DEFINE V == {early[i] : i \in DOMAIN early} \cup {late[i] : i \in DOMAIN late}
             G == {GapAt(u, early, late) : u \in V}
  <2>1. v \in V
    BY <1>2, <1>5
  <2>2. n * m \in G
    BY <1>8, <2>1
  <2>3. \A g \in G : g \in Int /\ g <= n * m
    BY <1>9
  <2>4. KSGap(early, late) = Max(G)
    BY DEF KSGap
  <2> HIDE DEF G, n, m, V, v
  <2>5. \E x \in G : \A y \in G : x >= y
    BY <1>1, <2>2, <2>3
  <2>6. Max(G) \in G /\ \A y \in G : Max(G) >= y
    BY <2>5 DEF Max
  <2> QED BY <2>2, <2>3, <2>4, <2>6
<1> HIDE DEF n, m
<1>11. KSGap(early, late) >= KSCritical(n, m)
  BY <1>1, <1>10
<1> QED BY <1>7, <1>11 DEF n, m

(* A shift of the later half of a window above the earlier is detected. *)
LEMMA ShiftedWindow ==
  ASSUME NEW w \in Seq(Scores), Len(w) >= MinSamples,
         \A i \in 1 .. Len(LastN(w, Window)) \div 2,
            j \in Len(LastN(w, Window)) \div 2 + 1 .. Len(LastN(w, Window)) :
              LastN(w, Window)[j] - LastN(w, Window)[i] >= MinShift
  PROVE  Detect(w)
<1> DEFINE recent == LastN(w, Window)
           early  == Early(w)
           late   == Late(w)
           half   == Len(recent) \div 2
<1>1. /\ half \in Nat /\ Len(recent) \in Nat
      /\ early \in Seq(Scores) /\ late \in Seq(Scores)
      /\ Len(early) = half /\ Len(late) = Len(recent) - half
      /\ \A i \in 1 .. Len(early) : early[i] = recent[i]
      /\ \A i \in 1 .. Len(late) : late[i] = recent[half + i]
      /\ <<Len(early), Len(late)>> \in SampleSizes
  BY Samples
<1>2. (MeanShifted(early, late) /\ KSGap(early, late) >= KSCritical(Len(early), Len(late)))
        => Detect(w)
  BY DEF Detect, Early, Late
<1>3. \A i \in 1 .. half, j \in half + 1 .. Len(recent) : recent[j] - recent[i] >= MinShift
  OBVIOUS
<1> HIDE DEF recent, early, late, half
<1>4. ASSUME NEW i \in 1 .. Len(early), NEW j \in 1 .. Len(late)
      PROVE  late[j] - early[i] >= MinShift
  <2>1. i \in 1 .. half /\ half + j \in half + 1 .. Len(recent)
    BY <1>1
  <2>2. recent[half + j] - recent[i] >= MinShift
    BY <1>3, <2>1
  <2> QED BY <1>1, <2>2
<1> QED BY <1>1, <1>2, <1>4, ShiftDetected

(* What the last assessment answered about the window it left. *)
Noticed ==
  (/\ DriftEnabled /\ last.kind = "assess" /\ state.event_count > 1
   /\ Detect(state.risk_window)) => last.decision # "ALLOW"

LEMMA AssessNotices ==
  ASSUME TypeOK, NEW e \in Events, NEW lag \in 0 .. MaxLag, Assess(e, lag), time - lag \in Nat
  PROVE  Noticed'
<1> DEFINE now == time - lag
           risk == EventRisk(state, e, now)
<1>1. state \in IdentityState
  BY DEF TypeOK
<1>2. risk \in Scores
  BY EventRiskTyped
<1>3. /\ state' = AfterAssess(state, e, risk, now)
      /\ last'.decision = Answer(state, e, risk, now).decision
  BY DEF Assess
<1> HIDE DEF risk
<1>4. state'.risk_window = WindowAfter(state, risk)
  BY <1>1, <1>2, <1>3, AssessDetectors
<1>5. CASE Allowed(state, e, risk, now)
  <2>1. ~Drifting(state, risk)
    BY <1>1, <1>2, <1>5, AllowedMeans
  <2>2. state'.event_count = state.event_count + 1 /\ state.event_count \in Nat
    BY <1>1, <1>2, <1>3, <1>5, AssessEffect DEF IdentityState
  <2>3. state'.event_count > 1 => ~Cold(state)
    BY <2>2 DEF Cold
  <2> QED BY <1>4, <2>1, <2>3 DEF Drifting, Noticed
<1>6. CASE ~Allowed(state, e, risk, now)
  BY <1>3, <1>6 DEF Allowed, Noticed
<1> QED BY <1>5, <1>6

LEMMA NextNotices == TypeOK /\ Noticed /\ [Next]_vars => Noticed'
<1> SUFFICES ASSUME TypeOK, Noticed, [Next]_vars PROVE Noticed'
  OBVIOUS
<1>1. time \in Times
  BY DEF TypeOK
<1>2. ASSUME NEW passed \in BOOLEAN, StepUp(passed) PROVE Noticed'
  <2>1. last'.kind # "assess"
    BY <1>2 DEF StepUp, NothingYet
  <2> QED BY <2>1 DEF Noticed
<1>3. CASE Tick \/ UNCHANGED vars
  BY <1>3 DEF Tick, vars, Noticed
<1> QED BY <1>1, <1>2, <1>3, AssessNotices, HandlerInputs DEF Next

(* A shift of the whole later half of the recent risks by MinShift or more *)
(* above the earlier half passes both tests of DriftDetector.detect, so an *)
(* identity beyond its first event is not let through.                     *)
THEOREM ShiftsAreReviewed == Spec => []ShiftIsReviewed
<1>1. Init => Noticed
  BY DEF Init, NothingYet, Noticed
<1>2. TypeOK /\ Noticed => ShiftIsReviewed
  <2> SUFFICES ASSUME TypeOK, Noticed PROVE ShiftIsReviewed
    OBVIOUS
  <2>1. state.risk_window \in Seq(Scores)
    BY DEF TypeOK, IdentityState
  <2> QED BY <2>1, ShiftedWindow DEF ShiftIsReviewed, Noticed
<1> QED BY <1>1, <1>2, NextNotices, TypeCorrect, PTL DEF Spec
=============================================================================
