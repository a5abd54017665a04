----------------------------- MODULE TrustState -----------------------------
(***************************************************************************)
(* One identity's record (state_store.IdentityState) and what the two      *)
(* handlers of the trust engine make of it: TrustEngine.assess and         *)
(* TrustEngine.apply_verified_step_up, between their load and their        *)
(* commit.  The operators are functions of the loaded record, so that the  *)
(* sequential engine and the engine on a shared store use the same ones.   *)
(*                                                                         *)
(* The score an event gets is an input: the model is retrained and the     *)
(* feature weights are tuned, and nothing here may depend on them.  The    *)
(* profile the code keeps for the features (devices, geos, hours, amounts) *)
(* is represented by geos and event_count, which commit_features changes   *)
(* together with the rest; the one-shot cold-start prior acts inside the   *)
(* score, its flag is kept.  The store's version is in module StateStore.  *)
(*                                                                         *)
(* Definitions marked Variant are no part of the model: each is the        *)
(* definition that follows it with a plausible slip.                       *)
(***************************************************************************)
EXTENDS TrustPolicy, DriftDetector

CONSTANTS
  Geos,          \* places events come from; the empty one may be among them
  NoGeo,         \* the empty place, which is also that of a new identity
  Country,       \* the country of a place, what is before its first dash
  Hour,          \* the recovery window and the travel interval, in ticks
  RecoveryCap,   \* recovery_cap, 120 by default
  DriftEnabled,  \* drift_enabled
  TravelCheck    \* impossible_travel

ASSUME HourAssumption == Hour \in Nat \ {0}
ASSUME CapAssumption == RecoveryCap \in Nat
ASSUME SwitchAssumption == DriftEnabled \in BOOLEAN /\ TravelCheck \in BOOLEAN

RiskWindowMax == 16
TravelBoost == 500

Events == [type : EventTypes, geo : Geos, risk : Scores, degraded : BOOLEAN]

IdentityState ==
  [trust : Scores, budget : [start : Nat, recovered : Nat],
   risk_window : Seq(Scores), risk_ewma : Int, cusum : Nat,
   under_review : BOOLEAN, cold_prior_used : BOOLEAN,
   geos : SUBSET Geos, event_count : Nat,
   last_geo : Geos \cup {NoGeo}, last_geo_ts : Nat]

NewIdentity ==
  [trust |-> BaseTrust, budget |-> [start |-> 0, recovered |-> 0],
   risk_window |-> <<>>, risk_ewma |-> 0, cusum |-> 0,
   under_review |-> FALSE, cold_prior_used |-> FALSE,
   geos |-> {}, event_count |-> 0,
   last_geo |-> NoGeo, last_geo_ts |-> 0]

-----------------------------------------------------------------------------
(* What assess derives from the record, the event and the time it read. *)

Cold(s) == s.event_count = 0

(* Variant: the check looks at the profile instead of the last place.      *)
ImpossibleIfUnknown(s, geo, now) ==
  /\ TravelCheck /\ s.last_geo # NoGeo
  /\ geo \notin s.geos
  /\ now - s.last_geo_ts < Hour

Impossible(s, geo, now) ==
  /\ TravelCheck /\ s.last_geo # NoGeo
  /\ Country[geo] # Country[s.last_geo]
  /\ now - s.last_geo_ts < Hour

EventRisk(s, e, now) ==
  IF Impossible(s, e.geo, now) THEN AtMost(e.risk + TravelBoost, 1000)
                               ELSE e.risk

WindowAfter(s, risk) == LastN(Append(s.risk_window, risk), RiskWindowMax)

(* Variant: the sliding window is never consulted. *)
DriftingByCusumOnly(s, risk) ==
  DriftEnabled /\ CusumFired(NextCusum(s.risk_ewma, s.cusum, risk))

(* Either detector's alarm on this event. *)
Drifting(s, risk) ==
  /\ DriftEnabled
  /\ \/ CusumFired(NextCusum(s.risk_ewma, s.cusum, risk))
     \/ ~Cold(s) /\ Detect(WindowAfter(s, risk))

TrustAfter(s, risk, now) ==
  NextTrust(s.trust, s.budget, risk, now, Hour, RecoveryCap)

(* Variant: an identity under review passes once the alarm is silent. *)
HeldWhileAlarmed(s, e, risk, now) ==
  /\ Drifting(s, risk)
  /\ Decide(TrustAfter(s, risk, now), risk, e.type).decision = "ALLOW"

(* The policy would let the event pass and the review holds it back. *)
HeldForReview(s, e, risk, now) ==
  /\ Drifting(s, risk) \/ s.under_review
  /\ Decide(TrustAfter(s, risk, now), risk, e.type).decision = "ALLOW"

Answer(s, e, risk, now) ==
  Verdict(TrustAfter(s, risk, now), risk, e.type,
          HeldForReview(s, e, risk, now), e.degraded)

Allowed(s, e, risk, now) == Answer(s, e, risk, now).decision = "ALLOW"

(* commit_features and the move of the travel reference *)
Learn(s, e, now) ==
  [s EXCEPT !.geos = @ \cup {e.geo}, !.event_count = @ + 1,
            !.last_geo = e.geo, !.last_geo_ts = now]

(* The record assess commits for an event of the given final risk. *)
Scored(s, e, risk, now) ==
  [s EXCEPT !.trust = TrustAfter(s, risk, now),
            !.budget = NextBudget(@, risk, now, Hour, RecoveryCap),
            !.risk_window = WindowAfter(s, risk),
            !.risk_ewma = NextEwma(@, risk),
            !.cusum = NextCusum(s.risk_ewma, @, risk),
            !.cold_prior_used = @ \/ Cold(s),
            !.under_review = @ \/ HeldForReview(s, e, risk, now)]

AfterAssess(s, e, risk, now) ==
  IF Allowed(s, e, risk, now) THEN Learn(Scored(s, e, risk, now), e, now)
                              ELSE Scored(s, e, risk, now)

AfterStepUp(s, passed) ==
  IF passed
  THEN [s EXCEPT !.trust = StepUpTrust(@, TRUE), !.under_review = FALSE,
                 !.risk_window = <<>>, !.cusum = 0]
  ELSE [s EXCEPT !.trust = StepUpTrust(@, FALSE)]
=============================================================================
