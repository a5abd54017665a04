---------------------------- MODULE CohortExport ----------------------------
(***************************************************************************)
(* The scorer's features over a history: the attempts of one identity      *)
(* under assessment, and the replay of a log of real logins that           *)
(* export_models.py trains the serving model on and dp_export.py reduces   *)
(* to one vector per identity and publishes per country.  The two parts    *)
(* share the feature code and nothing else.                                *)
(***************************************************************************)
EXTENDS RiskFeatures, FiniteSets, FiniteSetsExt, Folds

CONSTANTS
  Events,         \* the events the identity attempts
  Similarities,   \* attested similarities, and Missing
  Shares,         \* identities seen on a device
  ModelScores,    \* what the model may make of an event, Missing if it fails
  MaxAttempts,    \* bound: attempts
  Users,          \* users of the log, a set of numbers
  LogDevices,     \* device, browser and system, which name a device
  Countries,
  Noises,         \* what the Laplace mechanism may add to a count
  Blurs,          \* what the Gaussian mechanism may add to a sum of vectors
  Limits,         \* --limit: how many logins are replayed, 0 for all
  Threshold,      \* MIN_COHORT + COUNT_BUFFER (35)
  MaxLogins       \* bound: logins in the log

(* What schemas.py lets through; resolve keeps a similarity within 0..1,   *)
(* and an identity that asks is seen on its device.                        *)
ASSUME EventsAssumption ==
  \A e \in Events :
    /\ e.type \in DOMAIN CriticalityOf /\ e.channel \in DOMAIN ChannelRiskOf
    /\ e.hour \in 0 .. 23 /\ e.amount \in Int
    /\ {e.beneficiary, e.recovery} \subseteq BOOLEAN
ASSUME SimilaritiesAssumption == Similarities \subseteq (0 .. 1000) \cup {Missing}
ASSUME ModelScoresAssumption == ModelScores \subseteq (0 .. 1000) \cup {Missing}
ASSUME SharesAssumption == Shares \subseteq Nat \ {0}
ASSUME LogAssumption ==
  /\ Users \subseteq Int /\ IsFiniteSet(Users) /\ None \notin Countries
ASSUME LimitsAssumption == Limits \subseteq Nat

VARIABLES
  profile,    \* what is known of the identity under assessment
  attempts,   \* how often it tried, for the bound
  vec,        \* the vector of its last attempt
  judged,     \* the model's score of it, and whether it was an impossible journey
  log,        \* the logins, in order of time
  published   \* the export, once made: its limit, its noise and its vectors

featureVars == <<profile, attempts, vec, judged, log, published>>

NoVector == [i \in Features |-> 0]
Judged(score, impossible) == [score |-> score, impossible |-> impossible]

FeatureInit ==
  /\ profile = NewProfile /\ attempts = 0 /\ vec = NoVector
  /\ judged = Judged(Missing, FALSE)
  /\ log = <<>> /\ published = {}

-----------------------------------------------------------------------------
(* assess, as far as it concerns the profile and the report.  There is no  *)
(* place to travel from before the first approval, and no impossible       *)
(* journey is approved (TrustEngine).                                      *)
Attempt(e, share, similarity, score, impossible, allowed) ==
  LET tried == [profile EXCEPT !.burst = NextBurst(@),
                               !.prior_used = @ \/ Cold(profile)]
  IN  /\ attempts < MaxAttempts
      /\ impossible => ~Cold(profile) /\ ~allowed
      /\ vec' = Vector(profile, e, share, similarity)
      /\ judged' = Judged(score, impossible)
      /\ profile' = IF allowed THEN CommitFeatures(tried, e) ELSE tried
      /\ attempts' = attempts + 1
      /\ UNCHANGED <<log, published>>

(* Suspicion is explained.  An event whose risk costs trust (above 0.45,   *)
(* the model's score and the impossible journey included) is reported with *)
(* more than NORMAL, except where the model alone finds it suspicious; an  *)
(* event whose features cost trust by themselves has a counterfactual, and *)
(* the feature that names is among the reasons.  Unless a feature counts   *)
(* as less than nothing, which is then the dominant one: a negative amount *)
(* does, until there are amounts to compare it with.                       *)
ModelAlone ==
  judged.score > 450 /\ DetRisk(vec) <= 45000 /\ ~judged.impossible

SuspicionIsExplained ==
  LET codes == ReasonCodes(vec, judged.impossible)
  IN  (\A i \in Features : vec[i] >= 0) =>
        /\ CostsTrust(EventRisk(vec, judged.score, judged.impossible)) =>
             codes # {Normal} \/ ModelAlone
        /\ DetRisk(vec) > 45000 =>
             Counterfactual(vec) # {} /\ Counterfactual(vec) \subseteq codes

-----------------------------------------------------------------------------
(* The replay of the genuine logins, user by user; here, of any of them.    *)

Login(user, device, country, genuine) ==
  [user |-> user, device |-> device, country |-> country, genuine |-> genuine]

AddLogin(l) ==
  /\ Len(log) < MaxLogins /\ published = {}
  /\ log' = Append(log, l)
  /\ UNCHANGED <<profile, attempts, vec, judged, published>>

(* _row_to_event *)
RowToEvent(l) ==
  [device |-> l.device, geo |-> l.country, hour |-> 12, amount |-> Missing,
   type |-> "login", channel |-> "internet_banking",
   beneficiary |-> FALSE, recovery |-> FALSE]

Fresh ==
  [profiles |-> [u \in Users |-> NewProfile],
   graph    |-> [d \in LogDevices |-> {}],
   sums     |-> [u \in Users |-> NoVector],
   counts   |-> [u \in Users |-> 0],
   cohort   |-> [u \in Users |-> None]]

Learnt(p, e) == CommitFeatures([p EXCEPT !.burst = NextBurst(@)], e)

(* One login: load, device_add, compute, commit. *)
Replay(l, acc) ==
  LET sharers == acc.graph[l.device] \cup {l.user}
      e       == RowToEvent(l)
      v       == ComputeFeatures(acc.profiles[l.user], e, Cardinality(sharers), Missing)
  IN  [acc EXCEPT
         !.profiles[l.user] = Learnt(@, e),
         !.graph[l.device] = sharers,
         !.sums[l.user] = [i \in Features |-> @[i] + v[i]],
         !.counts[l.user] = @ + 1,
         !.cohort[l.user] = l.country]

Genuine(rows) == {i \in DOMAIN rows : rows[i].genuine}

(* sort_values.  Variant: in the order of time. *)
SortsBeforeInTime(rows, i, j) == i < j

SortsBefore(rows, i, j) ==
  \/ rows[i].user < rows[j].user
  \/ rows[i].user = rows[j].user /\ i < j

LastOf(rows, S) == CHOOSE i \in S : \A j \in S \ {i} : SortsBefore(rows, j, i)

Replayed(rows, S) ==
  MapThenFoldSet(LAMBDA l, acc : Replay(l, acc), Fresh,
                 LAMBDA i : rows[i], LAMBDA T : LastOf(rows, T), S)

(* head of the sorted logins *)
Limited(rows, S, limit) ==
  IF limit = 0 THEN S
  ELSE {i \in S : Cardinality({j \in S : SortsBefore(rows, j, i)}) < limit}

(* _identity_means: a mean is kept as its sum and its count. *)
IdentityMeans(rows, limit) == Replayed(rows, Limited(rows, Genuine(rows), limit))

Members(means, c) == {u \in Users : means.cohort[u] = c}

MeansOf(means, c, i) ==
  [u \in Members(means, c) |-> means.sums[u][i] \div means.counts[u]]

CohortSum(means, c) ==
  [i \in Features |->
     LET mean == MeansOf(means, c, i) IN MapThenSumSet(LAMBDA u : mean[u], DOMAIN mean)]

(* compute_cohort_means: a country is released on its noisy count alone.   *)
Released(means, noise) ==
  {c \in Countries : /\ Members(means, c) # {}
                     /\ Cardinality(Members(means, c)) + noise[c] >= Threshold}

CohortMean(means, blur, c) ==
  [i \in Features |-> Clip((CohortSum(means, c)[i] + blur[c][i])
                              \div Cardinality(Members(means, c)))]

CohortMeans(means, noise, blur) ==
  [c \in Released(means, noise) |-> CohortMean(means, blur, c)]

ExportAggregates(limit, noise, blur) ==
  /\ published = {}
  /\ published' = {[limit |-> limit, noise |-> noise, blur |-> blur,
                    means |-> CohortMeans(IdentityMeans(log, limit), noise, blur)]}
  /\ UNCHANGED <<profile, attempts, vec, judged, log>>

-----------------------------------------------------------------------------
AssessNext ==
  \E e \in Events, share \in Shares, similarity \in Similarities,
     score \in ModelScores, impossible, allowed \in BOOLEAN :
    Attempt(e, share, similarity, score, impossible, allowed)
ExportNext ==
  \/ \E user \in Users, device \in LogDevices, country \in Countries,
        genuine \in BOOLEAN : AddLogin(Login(user, device, country, genuine))
  \/ \E limit \in Limits, noise \in [Countries -> Noises],
        blur \in [Countries -> Blurs] : ExportAggregates(limit, noise, blur)

FeatureSpec == FeatureInit /\ [][AssessNext \/ ExportNext]_featureVars

-----------------------------------------------------------------------------
OfOthers(rows, u) == {i \in Genuine(rows) : rows[i].user # u}
MeansWithout(rows, u, limit) == Replayed(rows, Limited(rows, OfOthers(rows, u), limit))

(* Whose logins come within the limit because u's are left out. *)
LetIn(rows, u, limit) ==
  {rows[i].user : i \in Limited(rows, OfOthers(rows, u), limit)
                          \ Limited(rows, Genuine(rows), limit)}

Sharing(i) == FeatureNames[i] = "device_sharing"

SharesADevice(rows, u, v) ==
  \E i, j \in DOMAIN rows :
    /\ rows[i].user = u /\ rows[j].user = v /\ rows[i].device = rows[j].device
    /\ rows[i].genuine /\ rows[j].genuine

(* What u's logins do to a country's vector: in his own, less than one per *)
(* feature of the sum the noise is put on; elsewhere nothing, but for the  *)
(* sharing feature if one behind him in the sort was seen on his device.   *)
ConfinedIn(rows, p, u, all, rest, c) ==
  IF c = all.cohort[u]
  THEN \A i \in Features : ~Sharing(i) =>
         CohortSum(all, c)[i] - CohortSum(rest, c)[i] \in 0 .. 1000
  ELSE /\ c \in DOMAIN p.means <=> c \in Released(rest, p.noise)
       /\ c \in DOMAIN p.means => \A i \in Features :
            \/ p.means[c][i] = CohortMean(rest, p.blur, c)[i]
            \/ /\ Sharing(i)
               /\ \E v \in Members(all, c) : u < v /\ SharesADevice(rows, u, v)

(* One user changes a release no further than that, noise being equal, but *)
(* where a limit cuts the sorted log: then the countries of those behind   *)
(* him whose logins take the place of his may change as well               *)
(* (dp_export.py:11 "bounded contribution", 18 "a disjoint partition of    *)
(* users").                                                                *)
ContributionConfined ==
  \A p \in published, u \in Users :
    LET all  == IdentityMeans(log, p.limit)
        rest == MeansWithout(log, u, p.limit)
    IN  \A c \in Countries :
          \/ ConfinedIn(log, p, u, all, rest, c)
          \/ \E v \in LetIn(log, u, p.limit) :
               u < v /\ c \in {all.cohort[v], rest.cohort[v]}
=============================================================================
