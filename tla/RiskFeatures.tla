---------------------------- MODULE RiskFeatures ----------------------------
(***************************************************************************)
(* What an event looks like to the scorer (features.py), the deterministic *)
(* half of its risk, and the three explanations an assessment carries of   *)
(* it: reason codes, Shapley values and one counterfactual (TrustEngine.   *)
(* assess and _explain, explain.py).                                       *)
(*                                                                         *)
(* Features are floats in 0..1 in the code and thousandths here, weights   *)
(* are hundredths, so contributions and risks are in hundred-thousandths.  *)
(* Amounts are in thousands of rupees; a standard deviation below one      *)
(* rupee is then none at all.                                              *)
(*                                                                         *)
(* Definitions marked Variant are no part of the model: each is the        *)
(* definition that follows it with a plausible slip.                       *)
(***************************************************************************)
EXTENDS TrustPolicy, Sequences, SequencesExt

CONSTANTS
  Recent,    \* how many past hours and amounts are looked at (200)
  Enough     \* amounts needed before an amount is compared with them (5)

ASSUME HistoryAssumption == Recent \in Nat \ {0} /\ Enough \in Nat \ {0}

Missing == -1      \* no amount, no attested similarity

CriticalityOf ==
  [login |-> 200, transaction |-> 400, profile_change |-> 500,
   onboarding |-> 600, account_recovery |-> 800, privileged_access |-> 900]

ChannelRiskOf ==
  [branch |-> 100, mobile_app |-> 300, internet_banking |-> 400,
   api |-> 500, admin_console |-> 700]

FeatureNames ==
  <<"new_device", "new_geo", "hour_deviation", "amount_zscore",
    "behavior_anomaly", "event_criticality", "channel_risk",
    "new_beneficiary", "recovery_change", "velocity", "device_sharing">>
Features == DOMAIN FeatureNames

Weights == <<14, 10, 5, 11, 15, 7, 4, 8, 12, 4, 10>>

(* The feature's place among the names in alphabetical order. *)
Alphabetical == <<8, 9, 6, 1, 2, 5, 3, 7, 10, 11, 4>>

(* The benign login the Shapley values are relative to. *)
Baseline == <<0, 0, 0, 0, 100, 200, 300, 0, 0, 0, 0>>

BurstUnit == 1024
NewProfile == [devices |-> {}, geos |-> {}, hours |-> <<>>, amounts |-> <<>>,
               events |-> 0, burst |-> 0, prior_used |-> FALSE]

-----------------------------------------------------------------------------
(* The features of one event against the profile. *)

Latest(s, n) == SubSeq(s, IF Len(s) > n THEN Len(s) - n + 1 ELSE 1, Len(s))

Distance(h, k) == LET d == IF h > k THEN h - k ELSE k - h
                  IN  AtMost(d, 24 - d)

HourDeviation(p, hour) ==
  LET seen == ToSet(Latest(p.hours, Recent))
  IN  IF seen = {} THEN 500
      ELSE AtMost((Min({Distance(hour, h) : h \in seen}) * 1000) \div 12, 1000)

Root(x) == CHOOSE r \in 0 .. x : r * r <= x /\ x < (r + 1) * (r + 1)

Total(s) == FoldSeq(LAMBDA x, acc : x + acc, 0, s)

AmountZScore(p, amount) ==
  LET hist   == Latest(p.amounts, Recent)
      n      == Len(hist)
      total  == Total(hist)
      gap    == IF n * amount > total THEN n * amount - total ELSE total - n * amount
      spread == Root(n * Total([i \in 1 .. n |-> hist[i] * hist[i]]) - total * total)
  IN  IF amount = Missing THEN 0
      ELSE IF n < Enough THEN AtMost(amount * 10, 1000)
      ELSE IF gap = 0 THEN 0
      ELSE IF spread = 0 THEN 1000
      ELSE AtMost((gap * 1000) \div (3 * spread), 1000)

Cold(p) == p.events = 0
NextBurst(burst) == burst \div 2 + BurstUnit
Flag(b) == IF b THEN 1000 ELSE 0

(* share: the identities seen on the device, this one included. *)
ComputeFeatures(p, e, share, similarity) ==
  << IF Cold(p) THEN 400 ELSE Flag(e.device \notin p.devices),
     IF Cold(p) THEN 500 ELSE Flag(e.geo \notin p.geos),
     HourDeviation(p, e.hour),
     AmountZScore(p, e.amount),
     IF similarity = Missing THEN 500 ELSE 1000 - similarity,
     CriticalityOf[e.type],
     ChannelRiskOf[e.channel],
     Flag(e.beneficiary),
     Flag(e.recovery),
     AtMost((NextBurst(p.burst) * 1000) \div (15 * BurstUnit), 1000),
     AtMost(((share - 1) * 1000) \div 3, 1000) >>

CommitFeatures(p, e) ==
  [p EXCEPT !.devices = @ \cup {e.device}, !.geos = @ \cup {e.geo},
            !.hours = Append(@, e.hour),
            !.amounts = IF e.amount = Missing THEN @ ELSE Append(@, e.amount),
            !.events = @ + 1]

ColdPriorApplies(e) ==
  /\ e.type \in {"login", "transaction"}
  /\ e.channel \in {"mobile_app", "internet_banking", "branch"}
  /\ ~e.beneficiary /\ ~e.recovery
  /\ e.amount < 25

(* The one-shot discount of a benign-shaped first contact. *)
Discounted(p, e, vec) ==
  IF Cold(p) /\ ~p.prior_used /\ ColdPriorApplies(e)
  THEN [vec EXCEPT ![1] = @ \div 2, ![2] = @ \div 2]
  ELSE vec

Vector(p, e, share, similarity) ==
  Discounted(p, e, ComputeFeatures(p, e, share, similarity))

-----------------------------------------------------------------------------
(* The risk and its explanations. *)

Contribution(vec, i) == Weights[i] * vec[i]

DetRisk(vec) ==
  LET sum == Total([i \in Features |-> Contribution(vec, i)])
  IN  IF sum < 0 THEN 0 ELSE AtMost(sum, 100000)

(* In ten-millionths.  A model that fails gives no score, and the          *)
(* deterministic half stands for both.                                     *)
EventRisk(vec, score, impossible) ==
  LET own == IF score = Missing THEN 100 * DetRisk(vec)
                                ELSE 5500 * score + 45 * DetRisk(vec)
  IN  IF impossible THEN AtMost(own + 5000000, 10000000) ELSE own

CostsTrust(risk) == risk > 4500000

(* i comes before j in the list sorted by contribution, then name, reversed. *)
(* Variant: the list is not reversed. *)
OutranksUpwards(vec, i, j) ==
  \/ Contribution(vec, i) < Contribution(vec, j)
  \/ /\ Contribution(vec, i) = Contribution(vec, j)
     /\ Alphabetical[i] < Alphabetical[j]

Outranks(vec, i, j) ==
  \/ Contribution(vec, i) > Contribution(vec, j)
  \/ /\ Contribution(vec, i) = Contribution(vec, j)
     /\ Alphabetical[i] > Alphabetical[j]

(* Of the first three those above 0.05. *)
Reasons(vec) ==
  {i \in Features : /\ Cardinality({j \in Features : Outranks(vec, j, i)}) < 3
                    /\ Contribution(vec, i) > 5000}

Normal == 0      \* "behaviour consistent with identity baseline"
Travel == -1     \* the impossible journey, put before the others

ReasonCodes(vec, impossible) ==
  (IF Reasons(vec) = {} THEN {Normal} ELSE Reasons(vec))
    \cup (IF impossible THEN {Travel} ELSE {})

(* Rounded to four digits. *)
Shapley(vec, i) == (Weights[i] * (vec[i] - Baseline[i]) + 5) \div 10

Magnitude(x) == IF x < 0 THEN -x ELSE x

(* The sort by magnitude is stable, also reversed. *)
Dominant(vec) ==
  Min({i \in Features : \A j \in Features :
         Magnitude(Shapley(vec, i)) >= Magnitude(Shapley(vec, j))})

(* The feature whose normality would have helped most, if any. *)
Counterfactual(vec) ==
  IF Shapley(vec, Dominant(vec)) <= 0 THEN {} ELSE {Dominant(vec)}
=============================================================================
