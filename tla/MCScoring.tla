------------------------------ MODULE MCScoring ------------------------------
(***************************************************************************)
(* The scorer's pure parts, explored one at a time from the state where    *)
(* the others rest: the decision algebra (PolicyCases), and the features,  *)
(* their explanation and their export (CohortExport).  A part that moves   *)
(* does not come back, so the state space is the sum of the parts'.        *)
(***************************************************************************)
EXTENDS PolicyCases, CohortExport

(* Scores next to every threshold of decide and to both ends of the range. *)
TrustGrid == {0, 149, 150, 160, 399, 400, 420, 649, 650, 700, 850, 1000}
RiskGrid == {0, 107, 430, 449, 450, 452, 511, 649, 650, 703, 1000}
SpentGrid == {0, 100, 120}

(* Everyday events, and each kind of trouble: new payee, recovery change.  *)
EventGrid ==
  {[type |-> shape[1], channel |-> shape[2], beneficiary |-> shape[3], recovery |-> shape[4],
    amount |-> shape[5], device |-> place[1], geo |-> place[2], hour |-> place[3]] :
     shape \in {<<"login", "mobile_app", FALSE, FALSE, Missing>>,
               <<"transaction", "internet_banking", FALSE, FALSE, 1>>,
               <<"transaction", "internet_banking", TRUE, FALSE, 90>>,
               <<"transaction", "internet_banking", TRUE, TRUE, -200>>,
               <<"profile_change", "api", FALSE, TRUE, Missing>>,
               <<"privileged_access", "admin_console", TRUE, TRUE, Missing>>},
     place \in {<<"d1", "in", 14>>, <<"d2", "sg", 2>>}}

SimilarityGrid == {Missing, 0, 1000}
ScoreGrid == {Missing, 100, 900}

(* Enough to pass either end of the clip, and none. *)
BlurGrid == {[i \in Features |-> 900 * (i % 3) - 900]}

NoiseGrid == {-1, 1}

AtRest == [trust |-> BaseTrust, risk |-> 0, spent |-> 0, type |-> "login",
           review |-> FALSE, degraded |-> FALSE]

ScoringInit == CasesInit /\ FeatureInit
ScoringNext ==
  \/ CasesNext /\ FeatureInit /\ UNCHANGED featureVars
  \/ AssessNext /\ query = AtRest /\ log = <<>> /\ published = {} /\ UNCHANGED query
  \/ ExportNext /\ query = AtRest /\ attempts = 0 /\ UNCHANGED query
ScoringSpec == ScoringInit /\ [][ScoringNext]_<<query, featureVars>>
=============================================================================
