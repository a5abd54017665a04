----------------------------- MODULE Evaluation -----------------------------
(***************************************************************************)
(* How a detector's scores are reported: eval_full.py and its runners, the *)
(* older pramaan_eval.py, and one iteration of the bootstrap.              *)
(*                                                                         *)
(* A table holds the rows of a test set, here in descending order of their *)
(* score, equal ones in any order (argsort and sort_values are not         *)
(* stable); a metric may be of rows indexed by anything.  A score s stands *)
(* for the probability s / Top.  Every number reported is a ratio of two   *)
(* integers and kept as such; counts of the whole population are           *)
(* multiplied by the denominator of the weight.                            *)
(***************************************************************************)
EXTENDS Sorting, Sequences, SequencesExt, FiniteSetsExt

CONSTANTS
  RowKinds,    \* rows but for their score: <<class, loss, day, user>>
  TableScores, \* scores
  Top,         \* the score that is a probability of one
  Bins,        \* calibration bins
  Targets,     \* false-positive budgets, ratios
  Rates,       \* what a negative of a table stands for, ratios (1 / neg_rate)
  CostFP,      \* the cost of a false positive
  Ratios,      \* assumed cost of a miss, in false positives
  Budgets,     \* alerts per day
  NegCap,      \* negatives drawn per iteration of the bootstrap
  MaxRows,     \* bound: rows of a table
  MaxDrawn     \* bound: rows of a table that is resampled

ASSUME EvalAssumption ==
  /\ Top \in Nat \ {0} /\ TableScores \subseteq 0 .. Top /\ Bins \in Nat
  /\ \A kind \in RowKinds : kind[1] \in 0 .. 1 /\ kind[2] \in Nat
  /\ \A ratio \in Targets : ratio[1] \in Nat /\ ratio[2] \in Nat \ {0}
  /\ \A w \in Rates : w[1] \in Nat \ {0} /\ w[2] \in Nat \ {0}
  /\ CostFP \in Nat /\ Ratios \subseteq Nat \ {0}
  /\ Budgets \subseteq Nat /\ NegCap \in Nat \ {0}

VARIABLES table, rate, report

evalVars == <<table, rate, report>>

NoReport == [by |-> "nobody"]
Whole == <<1, 1>>

EvalInit == table = <<>> /\ rate \in Rates /\ report = NoReport

-----------------------------------------------------------------------------
(* Counts, and ratios. *)

Positives(t) == Cardinality({i \in DOMAIN t : t[i].y = 1})
Negatives(t) == Cardinality({i \in DOMAIN t : t[i].y = 0})
Caught(t, thr) == Cardinality({i \in DOMAIN t : t[i].y = 1 /\ t[i].s >= thr})
Alarms(t, thr) == Cardinality({i \in DOMAIN t : t[i].y = 0 /\ t[i].s >= thr})
ScoresOf(t) == {t[i].s : i \in DOMAIN t}

SumOver(f) == MapThenSumSet(LAMBDA i : f[i], DOMAIN f)

Gap(a, b) == IF a > b THEN a - b ELSE b - a
Same(a, b) == a[1] * b[2] = b[1] * a[2]

-----------------------------------------------------------------------------
(* roc_curve: one point per distinct score, from the highest; of points    *)
(* evenly spaced on a line all but the ends are dropped.                   *)

Above == Top + 1      \* the threshold no score reaches

Point(t, thr) == [thr |-> thr, fp |-> Alarms(t, thr), tp |-> Caught(t, thr)]

Points(t) ==
  LET n == Cardinality(ScoresOf(t))
  IN  [j \in 1 .. n |-> Point(t, InOrder(ScoresOf(t))[n + 1 - j])]

EvenlySpaced(a, b, c) == b.fp - a.fp = c.fp - b.fp /\ b.tp - a.tp = c.tp - b.tp

Kept(all, j) == j \in {1, Len(all)} \/ ~EvenlySpaced(all[j - 1], all[j], all[j + 1])

(* The curve starts where nothing is flagged. *)
RocCurve(t) ==
  LET all == Points(t)
  IN  {[thr |-> Above, fp |-> 0, tp |-> 0]}
        \cup {all[j] : j \in {k \in DOMAIN all : Kept(all, k)}}

LowestOf(pts) == CHOOSE pt \in pts : \A q \in pts : pt.thr <= q.thr

(* The last point within the budget. *)
(* Variant: searchsorted(side="left"). *)
OpLeftOfBudget(t, target) ==
  LowestOf({pt \in RocCurve(t) : \/ pt.thr = Above
                                 \/ pt.fp * target[2] < target[1] * Negatives(t)})

OpAtFpr(t, target) ==
  LowestOf({pt \in RocCurve(t) : pt.fp * target[2] <= target[1] * Negatives(t)})

(* Variant: the sample is taken for the population. *)
PrecisionInSample(pt, w) == IF pt.tp + pt.fp = 0 THEN <<1, 1>> ELSE <<pt.tp, pt.tp + pt.fp>>

Precision(pt, w) ==
  IF pt.tp + pt.fp = 0 THEN <<1, 1>>
  ELSE <<pt.tp * w[2], pt.tp * w[2] + pt.fp * w[1]>>

BaseRate(t, w) ==
  <<Positives(t) * w[2], Positives(t) * w[2] + Negatives(t) * w[1]>>

(* One entry of operating_points. *)
OperatingPoint(t, w, target) ==
  LET br == BaseRate(t, w)
      pt == OpAtFpr(t, target)
      pr == Precision(pt, w)
  IN  [thr |-> pt.thr, tp |-> pt.tp, fp |-> pt.fp,
       recall |-> <<pt.tp, Positives(t)>>, fpr |-> <<pt.fp, Negatives(t)>>,
       precision |-> pr, lift |-> <<pr[1] * br[2], pr[2] * br[1]>>,
       confusion |-> <<pt.tp * w[2], (Positives(t) - pt.tp) * w[2],
                       pt.fp * w[1], (Negatives(t) - pt.fp) * w[1]>>]

OperatingPoints(t, w) == [target \in Targets |-> OperatingPoint(t, w, target)]

(* threshold_free: the Kolmogorov-Smirnov statistic and the ROC area. *)
Separation(t, pt) == pt.tp * Negatives(t) - pt.fp * Positives(t)

KS(t) == <<Max({Separation(t, pt) : pt \in RocCurve(t)}), Positives(t) * Negatives(t)>>

(* A positive beats the negatives below it, and by half those beside it. *)
Beaten(t, s) == 2 * Negatives(t) - Alarms(t, s) - Alarms(t, s + 1)

RocAuc(t) ==
  <<SumOver([i \in DOMAIN t |-> t[i].y * Beaten(t, t[i].s)]), 2 * Positives(t) * Negatives(t)>>

(* average_precision_score: at each score, what it gains and how precisely. *)
Gained(pts, j) == IF j = 1 THEN pts[j].tp ELSE pts[j].tp - pts[j - 1].tp

AveragePrecision(t, w) ==
  LET pts == Points(t)
  IN  [j \in DOMAIN pts |-> <<<<Gained(pts, j), Positives(t)>>, Precision(pts[j], w)>>]

ThresholdFree(t, w) == [auc |-> RocAuc(t), ks |-> KS(t), ap |-> AveragePrecision(t, w)]

(* calibration; a bin contributes |weighted sum of (class - probability)|. *)
Weight(row, w) == IF row.y = 0 THEN w[1] ELSE w[2]
TotalWeight(t, w) == SumOver([i \in DOMAIN t |-> Weight(t[i], w)])

Deviation2(row) == (row.s - row.y * Top) * (row.s - row.y * Top)

Brier(t, w) ==
  <<SumOver([i \in DOMAIN t |-> Weight(t[i], w) * Deviation2(t[i])]),
    TotalWeight(t, w) * Top * Top>>

BinOf(s) == IF s = Top THEN Bins - 1 ELSE (s * Bins) \div Top

InBin(t, w, b, x) ==
  SumOver([i \in DOMAIN t |-> IF BinOf(t[i].s) = b THEN Weight(t[i], w) * x[i] ELSE 0])

Miscalibrated(t, w, b) ==
  Gap(InBin(t, w, b, [i \in DOMAIN t |-> t[i].y * Top]), InBin(t, w, b, [i \in DOMAIN t |-> t[i].s]))

ECE(t, w) ==
  <<SumOver([b \in 0 .. Bins - 1 |-> Miscalibrated(t, w, b)]), TotalWeight(t, w) * Top>>

-----------------------------------------------------------------------------
(* cost_analysis: flagging the first k rows costs the losses behind them    *)
(* and the false positives among them.                                      *)

(* ratio 0 is the cost by amounts. *)
LossOf(row, ratio) == IF row.y = 0 THEN 0 ELSE IF ratio = 0 THEN row.loss ELSE ratio * CostFP

Cost(t, w, ratio, flagged) ==
  SumOver([i \in DOMAIN t |-> IF i \notin flagged THEN LossOf(t[i], ratio) * w[2]
                              ELSE IF t[i].y = 0 THEN CostFP * w[1] ELSE 0])

CheapestPrefix(t, w, ratio) ==
  Min({k \in DOMAIN t : \A j \in DOMAIN t : Cost(t, w, ratio, 1 .. k) <= Cost(t, w, ratio, 1 .. j)})

MinCost(t, w, ratio) ==
  LET k == CheapestPrefix(t, w, ratio)
  IN  [thr |-> t[k].s, value |-> Cost(t, w, ratio, 1 .. k),
       caught |-> Cardinality({i \in 1 .. k : t[i].y = 1}),
       alarms |-> Cardinality({i \in 1 .. k : t[i].y = 0}),
       split |-> k < Len(t) /\ t[k + 1].s = t[k].s]

CostAnalysis(t, w, lossKnown) ==
  [ratio \in IF lossKnown THEN {0} ELSE Ratios |-> MinCost(t, w, ratio)]

(* The first k rows of each day, sort_values then groupby(day).head(k). *)
Flagged(t, k) ==
  {i \in DOMAIN t : Cardinality({j \in 1 .. i - 1 : t[j].day = t[i].day}) < k}

BudgetSweep(t) ==
  [k \in Budgets |-> {t[i].user : i \in {j \in Flagged(t, k) : t[j].y = 1}}]

(* run_cmu: where the two error rates of one user's table are closest. *)
Off(t, pt) == Gap(pt.fp * Positives(t), (Positives(t) - pt.tp) * Negatives(t))

(* The first of the closest. *)
EqualError(t) ==
  CHOOSE pt \in RocCurve(t) : \A q \in RocCurve(t) :
    Off(t, pt) < Off(t, q) \/ (Off(t, pt) = Off(t, q) /\ pt.thr >= q.thr)

-----------------------------------------------------------------------------
(* The scripts. *)

BothClasses(t) == Positives(t) > 0 /\ Negatives(t) > 0

Row(kind, s) == [s |-> s, y |-> kind[1], loss |-> kind[2], day |-> kind[3], user |-> kind[4]]

AddRow(row) ==
  /\ report = NoReport /\ Len(table) < MaxRows
  /\ table # <<>> => row.s <= Last(table).s
  /\ table' = Append(table, row)
  /\ UNCHANGED <<rate, report>>

Report(r) ==
  /\ report = NoReport /\ BothClasses(table)
  /\ report' = r
  /\ UNCHANGED <<table, rate>>

(* full_suite; only a score that is a probability is calibrated. *)
FullSuite(t, w, lossKnown, proba) ==
  [by |-> "full_suite", of |-> t, weight |-> w, ops |-> OperatingPoints(t, w),
   base |-> BaseRate(t, w), free |-> ThresholdFree(t, w),
   calibration |-> IF proba THEN <<Brier(t, w), ECE(t, w)>> ELSE <<>>,
   cost |-> CostAnalysis(t, w, lossKnown), sweep |-> <<>>]

(* Misaligned amounts stop the script. *)
RunPaysim == rate = Whole /\ Report(FullSuite(table, rate, TRUE, TRUE))

(* Misaligned amounts are left out. *)
RunIeee(aligned) == rate = Whole /\ Report(FullSuite(table, rate, aligned, TRUE))

(* The sample of train.rba_fit, or of train_rba_full, at rate Whole. *)
RunRba == Report(FullSuite(table, rate, FALSE, TRUE))

RunCert ==
  rate = Whole /\ Report([FullSuite(table, rate, FALSE, FALSE) EXCEPT !.sweep = BudgetSweep(table)])

RunCmu ==
  rate = Whole /\ Report([by |-> "run_cmu", of |-> table, weight |-> rate,
                          eer |-> EqualError(table), auc |-> RocAuc(table)])

(* pramaan_eval.evaluate: its confusion counts the negatives of the sample. *)
Evaluate(by, t, w) ==
  [by |-> by, of |-> t, weight |-> w,
   ops |-> [target \in Targets |->
              [OperatingPoint(t, w, target) EXCEPT !.confusion =
                 OperatingPoint(t, Whole, target).confusion]],
   auc |-> RocAuc(t), sweep |-> <<>>]

EvalPaysim == rate = Whole /\ Report(Evaluate("eval_paysim", table, rate))
EvalIeee == rate = Whole /\ Report(Evaluate("eval_ieee", table, rate))
EvalRba == Report(Evaluate("eval_rba", table, rate))

EvalCmu ==
  rate = Whole /\ Report([by |-> "eval_cmu", of |-> table, weight |-> rate, eer |-> EqualError(table)])

EvalCert ==
  /\ rate = Whole
  /\ Report([Evaluate("eval_cert", table, rate) EXCEPT !.sweep = BudgetSweep(table)])

(* The metrics of the seed sweeps, leak audits and bake-offs. *)
KeyMetrics ==
  Report([by |-> "key_metrics", of |-> table, weight |-> rate, auc |-> RocAuc(table),
          ap |-> AveragePrecision(table, rate),
          recall |-> [target \in Targets |-> <<OpAtFpr(table, target).tp, Positives(table)>>]])

(* One iteration of bootstrap: as many rows of each class again, with      *)
(* replacement, of the negatives at most NegCap, which then weigh more.    *)
InFileOrder(pick) == \A m, n \in DOMAIN pick : m <= n => pick[m] <= pick[n]

Drawn(t, pick) == [n \in DOMAIN pick |-> t[pick[n]]]

Draws(t, negatives) ==
  {d \in {Drawn(t, pick) : pick \in {p \in [1 .. Positives(t) + negatives -> DOMAIN t] : InFileOrder(p)}} :
     Positives(d) = Positives(t) /\ Negatives(d) = negatives}

Bootstrap ==
  LET n == Negatives(table)
      capped == n > NegCap
  IN  /\ Len(table) <= MaxDrawn
      /\ \E d \in Draws(table, IF capped THEN NegCap ELSE n) :
           LET w == IF capped THEN <<rate[1] * n, rate[2] * NegCap>> ELSE rate
           IN  Report([by |-> "bootstrap", of |-> d, weight |-> w,
                       ops |-> OperatingPoints(d, w), auc |-> RocAuc(d),
                       ap |-> AveragePrecision(d, w)])

Evaluators == EvalPaysim \/ EvalIeee \/ EvalRba \/ EvalCmu \/ EvalCert

Runners == RunPaysim \/ RunIeee(TRUE) \/ RunIeee(FALSE) \/ RunRba \/ RunCert \/ RunCmu

EvalNext ==
  \/ \E kind \in RowKinds, s \in TableScores : AddRow(Row(kind, s))
  \/ Runners \/ Evaluators \/ KeyMetrics \/ Bootstrap

EvalSpec == EvalInit /\ [][EvalNext]_evalVars

-----------------------------------------------------------------------------
Has(field) == field \in DOMAIN report

(* eval_full.py:187 "Expected-cost-minimising threshold" and the recall at *)
(* a step-up budget: a point reported is what flagging every score from    *)
(* its threshold on catches and alarms; no threshold within the budget     *)
(* catches more, but one roc_curve dropped from a line that starts at the  *)
(* point; none separates better than KS; and none has closer error rates   *)
(* than the equal error point, but a dropped one, nor are both of its      *)
(* rates below both of that.  No threshold costs less than the minimum,    *)
(* which is attained at its threshold unless it falls among equal scores;  *)
(* and who is found with few alerts a day is found with more.              *)
PointsAreBest ==
  LET t == report.of
      P == Positives(t)
      N == Negatives(t)
      InBudget(fp, target) == fp * target[2] <= target[1] * N
      Dropped(thr) == \A pt \in RocCurve(t) : pt.thr # thr
  IN  /\ Has("ops") => \A target \in Targets :
           LET o == report.ops[target]
           IN  /\ o.tp = Caught(t, o.thr) /\ o.fp = Alarms(t, o.thr)
               /\ InBudget(o.fp, target)
               /\ \A thr \in ScoresOf(t) : InBudget(Alarms(t, thr), target) =>
                    Caught(t, thr) <= o.tp \/ (thr < o.thr /\ Dropped(thr))
      /\ Has("free") => \A thr \in ScoresOf(t) :
           Caught(t, thr) * N - Alarms(t, thr) * P <= report.free.ks[1]
      /\ Has("eer") => \A thr \in ScoresOf(t) :
           LET least == Min({report.eer.fp * P, (P - report.eer.tp) * N})
           IN  /\ Alarms(t, thr) * P >= least \/ (P - Caught(t, thr)) * N >= least
               /\ Dropped(thr) \/ Off(t, Point(t, thr)) >= Off(t, report.eer)
      /\ Has("cost") => \A ratio \in DOMAIN report.cost :
           LET c == report.cost[ratio]
               CostFrom(thr) == Cost(t, report.weight, ratio, {i \in DOMAIN t : t[i].s >= thr})
           IN  /\ \A thr \in ScoresOf(t) : c.value <= CostFrom(thr)
               /\ ~c.split => /\ c.value = CostFrom(c.thr)
                              /\ c.caught = Caught(t, c.thr) /\ c.alarms = Alarms(t, c.thr)
      /\ Has("sweep") => \A j, k \in DOMAIN report.sweep : j <= k => report.sweep[j] \subseteq report.sweep[k]

SameSteps(a, b) ==
  DOMAIN a = DOMAIN b /\ \A j \in DOMAIN a : Same(a[j][1], b[j][1]) /\ Same(a[j][2], b[j][2])

(* The table in which every negative is there as often as it stands for.   *)
Population(t, w) ==
  [copy \in UNION {{i} \X (1 .. Weight(t[i], w)) : i \in DOMAIN t} |-> t[copy[1]]]

(* eval_full.py:76 "subsampled negatives represent the full population":   *)
(* every ratio reported of a sample is that of the population, so are the  *)
(* counts of full_suite, and the draws of the bootstrap weigh as much as   *)
(* the table they are drawn from.                                          *)
PopulationMetrics ==
  LET t   == report.of
      all == Population(t, report.weight)
  IN  /\ Has("ops") => \A target \in Targets :
           LET o == report.ops[target]
               p == OperatingPoint(all, Whole, target)
           IN  /\ o.thr = p.thr
               /\ \A ratio \in {"recall", "fpr", "precision", "lift"} : Same(o[ratio], p[ratio])
               /\ report.by \in {"full_suite", "bootstrap"} => o.confusion = p.confusion
      /\ Has("auc") => Same(report.auc, RocAuc(all))
      /\ Has("ap") => SameSteps(report.ap, AveragePrecision(all, Whole))
      /\ Has("recall") => \A target \in Targets :
           Same(report.recall[target], OperatingPoint(all, Whole, target).recall)
      /\ Has("free") =>
           /\ Same(report.free.auc, RocAuc(all)) /\ Same(report.free.ks, KS(all))
           /\ SameSteps(report.free.ap, AveragePrecision(all, Whole))
           /\ Same(report.base, BaseRate(all, Whole))
      /\ Has("calibration") /\ report.calibration # <<>> =>
           /\ Same(report.calibration[1], Brier(all, Whole))
           /\ Same(report.calibration[2], ECE(all, Whole))
      /\ report.by = "bootstrap" =>
           Same(<<Negatives(t) * report.weight[1], report.weight[2]>>,
                <<Negatives(table) * rate[1], rate[2]>>)
=============================================================================
