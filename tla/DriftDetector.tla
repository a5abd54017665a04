---------------------------- MODULE DriftDetector ----------------------------
(***************************************************************************)
(* The two drift detectors of app/drift.py.  Risks are integers in         *)
(* thousandths; the slow baseline (EWMA) and the CUSUM, which the code     *)
(* multiplies by 0.03 on every event, are kept in millionths.              *)
(***************************************************************************)
EXTENDS Integers, Sequences, FiniteSets, FiniteSetsExt

MinSamples == 8
Window == 12
MinShift == 80           \* thousandths
CusumSlack == 15000      \* millionths, like everything Step handles
CusumThreshold == 400000

LastN(s, n) == IF Len(s) <= n THEN s ELSE SubSeq(s, Len(s) - n + 1, Len(s))

Total(s) == MapThenSumSet(LAMBDA i : s[i], DOMAIN s)

(* mean(late) - mean(early) >= MinShift, cleared of its denominators *)
MeanShifted(early, late) ==
  Total(late) * Len(early) - Total(early) * Len(late)
    >= MinShift * Len(early) * Len(late)

(* Kolmogorov-Smirnov: the largest gap between the two empirical           *)
(* distribution functions, times Len(early) * Len(late).                   *)
CountUpTo(s, v) == Cardinality({i \in DOMAIN s : s[i] <= v})

GapAt(v, early, late) ==
  LET gap == CountUpTo(early, v) * Len(late) - CountUpTo(late, v) * Len(early)
  IN  IF gap < 0 THEN -gap ELSE gap

KSGap(early, late) ==
  Max({GapAt(v, early, late) :
         v \in {early[i] : i \in DOMAIN early} \cup {late[i] : i \in DOMAIN late}})

(* The smallest gap whose exact two-sided p-value is below alpha = 0.05,   *)
(* for the half-window sizes that occur: 8..12 samples split in the middle *)
(* (counted over the lattice paths of the exact null distribution).        *)
KSCritical(n, m) ==
  CASE n = 4 /\ m = 4 -> 16
    [] n = 4 /\ m = 5 -> 17
    [] n = 5 /\ m = 5 -> 25
    [] n = 5 /\ m = 6 -> 21
    [] n = 6 /\ m = 6 -> 30

Detect(riskWindow) ==
  /\ Len(riskWindow) >= MinSamples
  /\ LET recent == LastN(riskWindow, Window)
         half   == Len(recent) \div 2
         early  == SubSeq(recent, 1, half)
         late   == SubSeq(recent, half + 1, Len(recent))
     IN  /\ MeanShifted(early, late)
         /\ KSGap(early, late) >= KSCritical(Len(early), Len(late))

-----------------------------------------------------------------------------
(* The persistent baseline and the CUSUM over the excess above it. *)

(* Variant: the baseline starts at zero instead of at the first risk. *)
NextEwmaFromZero(ewma, risk) == ewma + (3 * (risk * 1000 - ewma)) \div 100

NextEwma(ewma, risk) ==
  IF ewma = 0 THEN risk * 1000 ELSE ewma + (3 * (risk * 1000 - ewma)) \div 100

NextCusum(ewma, cusum, risk) ==
  LET baseline == IF ewma > 0 THEN ewma ELSE risk * 1000
      sum      == cusum + (risk * 1000 - baseline - CusumSlack)
  IN  IF sum > 0 THEN sum ELSE 0

CusumFired(cusum) == cusum > CusumThreshold
=============================================================================
