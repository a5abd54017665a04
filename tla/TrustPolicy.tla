----------------------------- MODULE TrustPolicy -----------------------------
(***************************************************************************)
(* The pure decision algebra of the trust engine: how one event's risk     *)
(* moves the trust score (TrustEngine._update_trust and                    *)
(* apply_verified_step_up), how score and risk select a band, a decision   *)
(* and a challenge (PolicyOrchestrator), and how a decision is hardened    *)
(* when the model could not score the event (ResiliencePolicy).            *)
(*                                                                         *)
(* Risks are floats in 0..1 in the code and integers in 0..1000            *)
(* (thousandths) here.  int() truncates towards zero; both arguments it    *)
(* gets are non-negative, so \div is the same conversion.                  *)
(***************************************************************************)
EXTENDS Integers

None == "none"

EventTypes == {"login", "transaction", "onboarding", "account_recovery",
               "privileged_access", "profile_change"}
Decisions == {"ALLOW", "STEP_UP", "BLOCK"}
Methods == {"device_biometric", "otp_sms", "video_kyc", "manager_approval"}
Bands == {"LOW", "ELEVATED", "HIGH", "CRITICAL", "DRIFT_REVIEW",
          "DEGRADED_FAILCLOSED", "DEGRADED_FAILOPEN"}
Verdicts == [decision : Decisions, band : Bands, method : Methods \cup {None}]

Scores == 0 .. 1000
BaseTrust == 700

(* Variant (definitions so marked are no part of the model: each is the    *)
(* one that follows it with a plausible slip): only the lower end clipped. *)
ClipBelow(x) == IF x < 0 THEN 0 ELSE x

Clip(x) == IF x < 0 THEN 0 ELSE IF x > 1000 THEN 1000 ELSE x
AtMost(x, bound) == IF x > bound THEN bound ELSE x

-----------------------------------------------------------------------------
(* How an event's risk moves the score. *)

(* Variant: the operands of the subtraction are swapped. *)
LossSwapped(risk) == ((450 - risk) * 900) \div 1000

Loss(risk) == ((risk - 450) * 900) \div 1000
Gain(risk) == ((450 - risk) * 60) \div 1000

(* The recovery budget as the code finds it when it looks at time now: a   *)
(* window older than window is replaced by one that starts now.            *)
BudgetAt(budget, now, window) ==
  IF now - budget.start > window THEN [start |-> now, recovered |-> 0]
                                 ELSE budget

(* Variant: every event gets the whole budget. *)
RemainingPerEvent(budget, cap) == cap

Remaining(budget, cap) ==
  IF budget.recovered > cap THEN 0 ELSE cap - budget.recovered

Recovery(budget, risk, now, window, cap) ==
  AtMost(Gain(risk), Remaining(BudgetAt(budget, now, window), cap))

NextBudget(budget, risk, now, window, cap) ==
  IF risk > 450
  THEN budget
  ELSE [BudgetAt(budget, now, window)
          EXCEPT !.recovered = @ + Recovery(budget, risk, now, window, cap)]

NextTrust(trust, budget, risk, now, window, cap) ==
  IF risk > 450
  THEN Clip(trust - Loss(risk))
  ELSE Clip(trust + Recovery(budget, risk, now, window, cap))

StepUpTrust(trust, passed) ==
  IF passed THEN AtMost(trust + 250, 1000) ELSE Clip(trust - 400)

-----------------------------------------------------------------------------
(* PolicyOrchestrator *)

Band(trust, risk) ==
  IF trust >= 650 /\ risk < 450 THEN "LOW"
  ELSE IF trust >= 400 /\ risk < 650 THEN "ELEVATED"
  ELSE IF trust >= 150 THEN "HIGH"
  ELSE "CRITICAL"

CheapestSufficient(type, strong) ==
  IF type \in {"account_recovery", "onboarding"} THEN "video_kyc"
  ELSE IF strong THEN "otp_sms"
  ELSE "device_biometric"

DecisionOf(band) ==
  IF band = "LOW" THEN "ALLOW"
  ELSE IF band \in {"ELEVATED", "HIGH"} THEN "STEP_UP"
  ELSE "BLOCK"

MethodOf(band, type) ==
  IF DecisionOf(band) # "STEP_UP" THEN None
  ELSE IF type = "privileged_access" THEN "manager_approval"
  ELSE CheapestSufficient(type, band = "HIGH")

Decide(trust, risk, type) ==
  [decision |-> DecisionOf(Band(trust, risk)),
   band     |-> Band(trust, risk),
   method   |-> MethodOf(Band(trust, risk), type)]

-----------------------------------------------------------------------------
(* The two adjustments the engine makes to the policy's verdict, in the    *)
(* order in which it makes them.                                           *)

(* Secondary review turns an approval into a step-up and touches nothing else. *)
(* Variant: a blocked event under review gets a step-up as well. *)
ReviewOfAnything(verdict, type) ==
  [decision |-> "STEP_UP", band |-> "DRIFT_REVIEW",
   method |-> CheapestSufficient(type, TRUE)]

Review(verdict, type) ==
  IF verdict.decision = "ALLOW"
  THEN [decision |-> "STEP_UP", band |-> "DRIFT_REVIEW",
        method |-> CheapestSufficient(type, TRUE)]
  ELSE verdict

FailClosedEvents == {"privileged_access", "account_recovery", "onboarding"}

Degrade(verdict, type) ==
  IF type \notin FailClosedEvents
  THEN [verdict EXCEPT !.band = "DEGRADED_FAILOPEN"]
  ELSE IF verdict.decision = "ALLOW"
  THEN [decision |-> "STEP_UP", band |-> "DEGRADED_FAILCLOSED",
        method |-> IF type = "privileged_access" THEN "manager_approval"
                                                 ELSE "video_kyc"]
  ELSE [verdict EXCEPT !.band = "DEGRADED_FAILCLOSED"]

(* The whole pipeline, from a score and a risk to what the engine answers. *)
Verdict(trust, risk, type, review, degraded) ==
  LET policy   == Decide(trust, risk, type)
      reviewed == IF review THEN Review(policy, type) ELSE policy
  IN  IF degraded THEN Degrade(reviewed, type) ELSE reviewed

-----------------------------------------------------------------------------
(* How strict a decision is, for comparing two of them. *)
Strictness(decision) ==
  IF decision = "ALLOW" THEN 0 ELSE IF decision = "STEP_UP" THEN 1 ELSE 2
=============================================================================
