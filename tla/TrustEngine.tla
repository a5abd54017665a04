----------------------------- MODULE TrustEngine -----------------------------
(***************************************************************************)
(* The life of one identity in the trust engine, one handler at a time:    *)
(* events are assessed, verified step-ups are applied, time passes.        *)
(* (Handlers that overlap are the subject of StateStore.)                  *)
(***************************************************************************)
EXTENDS TrustState

CONSTANTS
  Types,       \* the event types that occur
  Risks,       \* the scores the model may give
  MaxLag,      \* how stale the time an assessment read may be, in ticks
  MaxSteps,    \* bound: handlers run
  MaxTime      \* bound: the clock

ASSUME TypesAssumption == Types \subseteq EventTypes
ASSUME RisksAssumption == Risks \subseteq Scores
ASSUME BoundsAssumption ==
  /\ MaxLag \in Nat /\ MaxSteps \in Nat /\ MaxTime \in Nat
  /\ MaxLag <= Hour /\ Hour + MaxLag < MaxTime

VARIABLES
  state,     \* the identity's IdentityState
  time,      \* the wall clock, in ticks
  last,      \* what the last handler answered
  alarmed,   \* ghost: a drift alarm no verified step-up has followed
  seen,      \* ghost: the final risks assessed so far
  raised,    \* ghost: raised[t] is the trust assessments at time t added
  steps      \* handlers run so far, for the bound

vars == <<state, time, last, alarmed, seen, raised, steps>>

(* The clock starts later than the window a new record implies by its     *)
(* recovery_window_start = 0, as an epoch clock does.                     *)
Times == Hour + MaxLag + 1 .. MaxTime

NothingYet ==
  [kind |-> "none", decision |-> "ALLOW", band |-> "LOW", method |-> None,
   type |-> "login", degraded |-> FALSE, risk |-> 0]

Init ==
  /\ state = NewIdentity
  /\ time = Hour + MaxLag + 1
  /\ last = NothingYet
  /\ alarmed = FALSE
  /\ seen = {}
  /\ raised = [t \in 0 .. MaxTime |-> 0]
  /\ steps = 0

-----------------------------------------------------------------------------
(* assess, for a request that read the clock lag ticks before it got the  *)
(* identity's lock.                                                       *)
Assess(e, lag) ==
  LET now  == time - lag
      risk == EventRisk(state, e, now)
      ans  == Answer(state, e, risk, now)
      gain == TrustAfter(state, risk, now) - state.trust
  IN  /\ steps < MaxSteps
      /\ state' = AfterAssess(state, e, risk, now)
      /\ last' = [kind |-> "assess", decision |-> ans.decision,
                  band |-> ans.band, method |-> ans.method,
                  type |-> e.type, degraded |-> e.degraded, risk |-> risk]
      /\ alarmed' = (alarmed \/ Drifting(state, risk))
      /\ seen' = seen \cup {risk}
      /\ raised' = [raised EXCEPT ![now] = @ + (IF gain > 0 THEN gain ELSE 0)]
      /\ steps' = steps + 1
      /\ UNCHANGED time

(* apply_verified_step_up *)
StepUp(passed) ==
  /\ steps < MaxSteps
  /\ state' = AfterStepUp(state, passed)
  /\ last' = [NothingYet EXCEPT !.kind = IF passed THEN "passed" ELSE "failed"]
  /\ alarmed' = (alarmed /\ ~passed)
  /\ steps' = steps + 1
  /\ UNCHANGED <<time, seen, raised>>

Tick ==
  /\ time < MaxTime
  /\ time' = time + 1
  /\ UNCHANGED <<state, last, alarmed, seen, raised, steps>>

Next ==
  \/ \E type \in Types, geo \in Geos, risk \in Risks,
        degraded \in BOOLEAN, lag \in 0 .. MaxLag :
       Assess([type |-> type, geo |-> geo, risk |-> risk,
               degraded |-> degraded], lag)
  \/ \E passed \in BOOLEAN : StepUp(passed)
  \/ Tick

Spec == Init /\ [][Next]_vars

-----------------------------------------------------------------------------
(* Every field of the record keeps its declared range; in particular trust *)
(* stays in 0..1000 whatever the clip in _update_trust is fed.             *)
TypeOK ==
  /\ state \in IdentityState
  /\ time \in Times
  /\ alarmed \in BOOLEAN
  /\ last.kind \in {"none", "assess", "passed", "failed"}
  /\ last.decision \in Decisions /\ last.band \in Bands

(* Passive recovery (the branch of _update_trust below 0.45): whatever     *)
(* happened in between, the trust an identity regained inside the current  *)
(* window never exceeds the budget, and over any stretch of time as long   *)
(* as the window, less what the clock may lag, never exceeds twice the     *)
(* budget.  Over the whole window it can reach three: an assessment that   *)
(* read the time early and got the lock late is charged to a budget that   *)
(* was opened after its time.                                              *)
RaisedDuring(from, to) ==
  MapThenSumSet(LAMBDA t : raised[t], {t \in DOMAIN raised : from <= t /\ t <= to})

Stretch == Hour + 1 - MaxLag

WindowWithinBudget == state.budget.recovered <= RecoveryCap

RecoveryWithinBudget ==
  /\ WindowWithinBudget
  /\ RaisedDuring(state.budget.start, MaxTime) <= state.budget.recovered
  /\ \A t \in DOMAIN raised : RaisedDuring(t, t + Stretch) <= 2 * RecoveryCap

(* The travel reference last_geo is only ever a place the identity was     *)
(* allowed from, and there is one from the first approval on, unless the   *)
(* events approved name no place: such an event clears the reference.      *)
TravelReferenceTrusted ==
  /\ state.event_count = 0 => state.last_geo = NoGeo
  /\ state.event_count > 0 => state.last_geo \in state.geos
  /\ state.last_geo_ts <= time

(* A customer whose events all score the same is never put under review:   *)
(* neither detector mistakes a steady history for a drift.                 *)
SteadyNeverReviewed == Cardinality(seen) <= 1 => ~alarmed /\ ~state.under_review

(* A shift of the whole later half of the recent risks above the earlier   *)
(* half ends in review.                                                    *)
ShiftIsReviewed ==
  LET w    == LastN(state.risk_window, Window)
      half == Len(w) \div 2
  IN  (/\ DriftEnabled
       /\ Len(state.risk_window) >= MinSamples
       /\ last.kind = "assess" /\ state.event_count > 1
       /\ \A i \in 1 .. half, j \in half + 1 .. Len(w) : w[j] - w[i] >= MinShift)
      => last.decision # "ALLOW"

-----------------------------------------------------------------------------
(* Two approvals from different countries are at least the implausible     *)
(* interval apart, by the clock each request read.  A place without a      *)
(* country counts as a country of its own, but an approval that names no   *)
(* place at all is no reference for the next.                              *)
NoImpossibleTravelAllowed ==
  [][ (/\ TravelCheck
       /\ state'.event_count # state.event_count
       /\ state.last_geo # NoGeo
       /\ Country[state'.last_geo] # Country[state.last_geo])
      => state'.last_geo_ts - state.last_geo_ts >= Hour ]_vars

(* Review halts poisoning: a step that leaves the identity under review    *)
(* teaches the profile nothing, and only a passed step-up ends a review.   *)
ReviewFreezesProfile ==
  [][ /\ state'.under_review =>
           /\ UNCHANGED <<state.geos, state.event_count,
                          state.last_geo, state.last_geo_ts>>
           /\ last'.kind = "assess" => last'.decision # "ALLOW"
      /\ state.under_review /\ ~state'.under_review => last'.kind = "passed" ]_vars

(* Without a working model a high-assurance event is never approved, and   *)
(* nothing about it enters the profile, whatever the trust and the review. *)
DegradedFailsClosed ==
  [][ last'.kind = "assess" /\ last'.degraded /\ last'.type \in FailClosedEvents
      /\ steps' # steps
      => last'.decision # "ALLOW" /\ state'.event_count = state.event_count ]_vars

(* A passed step-up really ends the matter: the next event, unless its own *)
(* risk jumps above the baseline by the CUSUM threshold, is not put back   *)
(* under review because of what came before the verification.              *)
VerificationEndsReview ==
  [][ (/\ last.kind = "passed" /\ last'.kind = "assess"
       /\ \/ state.risk_ewma = 0
          \/ last'.risk * 1000 <= state.risk_ewma + CusumSlack + CusumThreshold)
      => ~state'.under_review ]_vars

(* state_store.py:48: the review flag is "set on drift, cleared by a       *)
(* verified step-up, so a flagged identity stays under review".            *)
AlarmHoldsUntilVerified == alarmed => ~(last.kind = "assess" /\ last.decision = "ALLOW")
=============================================================================
