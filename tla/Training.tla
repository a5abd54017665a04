------------------------------ MODULE Training ------------------------------
(***************************************************************************)
(* What the offline detectors learn from (train.py, train_rba_full.py,     *)
(* seed_sweep.py, tune.py with evaluate_tuned.py, phaseb_extra.py): which  *)
(* rows a score depends on.                                                *)
(*                                                                         *)
(* Fitting and predicting are left uninterpreted: a model is the sequence  *)
(* of rows it was fitted on, as features and label, and the score of a row *)
(* is the pair of the model and the row's features.  Every data set has    *)
(* the same rows here, read by each pipeline in its own way: the time t    *)
(* (step, TransactionDT, timestamp, repetition, day), the label y, who     *)
(* (origin account, card, subject, user), key (destination, device,        *)
(* country, PC), and a value val (amount, identity, round-trip time, ...)  *)
(* that may be missing.  The files are in order of time.                   *)
(***************************************************************************)
EXTENDS Sorting, Sequences, SequencesExt, FiniteSetsExt

CONSTANTS
  Times,        \* times of rows
  Contents,     \* rows but for their time and label: <<who, key, val>>
  Cut,          \* the last step of PaySim's training (600)
  InnerCut,     \* and that of its inner training (480)
  NegSample,    \* negatives sampled for training, or their cap
  Seeds,        \* seeds of the sweep, and the seed of the other scripts
  Seed,
  TrainReps,    \* repetitions a subject is enrolled with (200)
  ImpostorReps, \* repetitions of every other subject tried (5)
  MaxData       \* bound: rows

ASSUME SplitAssumption ==
  /\ Times \subseteq Int /\ Cut \in Int /\ InnerCut \in Int
  /\ NegSample \in Nat /\ Seeds \subseteq Nat /\ Seed \in Nat

VARIABLES rows, fitted

trainVars == <<rows, fitted>>

Blank == -1
Unset == "unset"
NotFitted == [by |-> Unset]

TrainInit == rows = <<>> /\ fitted = NotFitted

-----------------------------------------------------------------------------
(* Parts of a data frame: sets of indices, in order of the file. *)

Labelled(d, S, y) == {i \in S : d[i].y = y}

(* .sample(n, random_state): positions that depend on length and seed only. *)
Sampled(S, n, seed) ==
  IF Cardinality(S) <= n THEN S
  ELSE {InOrder(S)[((seed + k) % Cardinality(S)) + 1] : k \in 1 .. n}

(* All positives, then the negatives sampled. *)
Thinned(d, S, seed) ==
  InOrder(Labelled(d, S, 1)) \o InOrder(Sampled(Labelled(d, S, 0), NegSample, seed))

Model(d, order, feature) ==
  [n \in DOMAIN order |-> <<feature[order[n]], d[order[n]].y>>]

(* Series.quantile(p / 10), linear between two values; ten times as much. *)
QuantileTenfold(d, S, p) ==
  LET v    == [n \in 1 .. Cardinality(S) |-> d[InOrder(S)[n]].t]
      rank == (Len(v) - 1) * p
      low  == rank \div 10 + 1
      high == IF rank % 10 = 0 THEN low ELSE low + 1
      part == rank % 10
  IN  v[low] * (10 - part) + v[high] * part

UpTo(d, S, tenfold) == {i \in S : d[i].t * 10 <= tenfold}

(* What a script learnt, and what it knows of the rows it scores. *)
Scored(learnt, test, feature) == [learnt |-> learnt, seen |-> [j \in test |-> feature[j]]]

(* A leak audit also fits without the feature that matters most, which it  *)
(* chooses by rows and labels of its own.                                  *)
Audited(scored, chosenBy) ==
  [learnt |-> scored.learnt, seen |-> scored.seen, chosenBy |-> chosenBy]

-----------------------------------------------------------------------------
(* PaySim.  cumcount: the rows before this one with the same value.        *)

Who(d) == [i \in DOMAIN d |-> d[i].who]
Key(d) == [i \in DOMAIN d |-> d[i].key]

(* Variant: all rows with the same value. *)
SeenAnytime(column, i) == Cardinality({j \in DOMAIN column : column[j] = column[i]})

SeenBefore(column, i) == Cardinality({j \in 1 .. i - 1 : column[j] = column[i]})

PaysimFeatures(d) ==
  [i \in DOMAIN d |->
     <<d[i].t, d[i].val, SeenBefore(Who(d), i), SeenBefore(Key(d), i)>>]

StepUpTo(d, step) == {i \in DOMAIN d : d[i].t <= step}

PaysimModel(d, step, seed) == Model(d, Thinned(d, StepUpTo(d, step), seed), PaysimFeatures(d))

Paysim(d) ==
  Scored(PaysimModel(d, Cut, Seed), DOMAIN d \ StepUpTo(d, Cut), PaysimFeatures(d))

SweepPaysim(d) ==
  Scored([seed \in Seeds |-> PaysimModel(d, Cut, seed)],
         DOMAIN d \ StepUpTo(d, Cut), PaysimFeatures(d))

(* Without the balance columns. *)
LeakPaysim(d) == Paysim(d)

(* The bake-off of phaseb_extra scores its validation rows, its audit the  *)
(* test rows, of which it takes a sample to choose by.                     *)
PaysimInner(d) ==
  LET f    == PaysimFeatures(d)
      test == DOMAIN d \ StepUpTo(d, Cut)
  IN  Audited(Scored(PaysimModel(d, InnerCut, Seed), DOMAIN d \ StepUpTo(d, InnerCut), f),
              Model(d, InOrder(test), f))

-----------------------------------------------------------------------------
(* IEEE-CIS.  The devices most often named, over all identity rows; here   *)
(* the first of them.                                                      *)

(* For each device named, the rows that name it. *)
Naming(d) ==
  LET named == {i \in DOMAIN d : d[i].val # Blank}
  IN  [k \in {d[i].key : i \in named} |-> {i \in named : d[i].key = k}]

FirstMostOften(naming) ==
  LET best == {k \in DOMAIN naming :
                 \A l \in DOMAIN naming : Cardinality(naming[k]) >= Cardinality(naming[l])}
  IN  CHOOSE k \in best : \A l \in best : Min(naming[k]) <= Min(naming[l])

TopDevice(d) == IF DOMAIN Naming(d) = {} THEN Unset ELSE FirstMostOften(Naming(d))

IeeeFeatures(d) ==
  [i \in DOMAIN d |->
     <<d[i].who, IF d[i].val = Blank THEN Unset
                 ELSE IF d[i].key = TopDevice(d) THEN d[i].key ELSE "OTHER">>]

IeeeTrain(d) == UpTo(d, DOMAIN d, QuantileTenfold(d, DOMAIN d, 8))
IeeeInner(d) == UpTo(d, IeeeTrain(d), QuantileTenfold(d, IeeeTrain(d), 8))

IeeeModel(d, S) == Model(d, InOrder(S), IeeeFeatures(d))

Ieee(d) == Scored(IeeeModel(d, IeeeTrain(d)), DOMAIN d \ IeeeTrain(d), IeeeFeatures(d))

SweepIeee(d) ==
  Scored([seed \in Seeds |-> IeeeModel(d, IeeeTrain(d))], DOMAIN d \ IeeeTrain(d), IeeeFeatures(d))

LeakIeee(d) == Audited(Ieee(d), IeeeModel(d, DOMAIN d \ IeeeTrain(d)))

(* tune: families are compared, and hyperparameters searched for with      *)
(* fewer negatives, on the rows of a validation set and their labels.      *)
Validation(d) == IeeeTrain(d) \ IeeeInner(d)

Bakeoff(d) ==
  Scored(<<IeeeModel(d, IeeeInner(d)), IeeeModel(d, Validation(d))>>, Validation(d), IeeeFeatures(d))

SearchedBy(d) ==
  <<Model(d, Thinned(d, IeeeInner(d), Seed), IeeeFeatures(d)), IeeeModel(d, Validation(d))>>

(* evaluate_tuned: fitted without the validation set, calibrated on it. *)
Tuned(d) ==
  Scored(<<SearchedBy(d), IeeeModel(d, IeeeInner(d)), IeeeModel(d, Validation(d))>>,
         DOMAIN d \ IeeeTrain(d), IeeeFeatures(d))

-----------------------------------------------------------------------------
(* RBA.  Rows are successful logins.  Negatives exist only in the sampled  *)
(* window, and the cut is that of the account takeovers in it.             *)

InWindow(d) ==
  {i \in DOMAIN d : \E j \in Labelled(d, DOMAIN d, 0) : d[i].t <= d[j].t}

RbaTrain(d, S) == UpTo(d, S, QuantileTenfold(d, Labelled(d, S, 1), 6))

(* The encoding of a key: how many of the genuine training rows have it. *)
(* Variant: of all genuine rows. *)
FrequencyOverall(d, train, i) ==
  LET genuine == {j \in DOMAIN d : d[j].y = 0}
  IN  <<Cardinality({j \in genuine : d[j].key = d[i].key}), Cardinality(genuine)>>

Frequency(d, train, i) ==
  LET genuine == {j \in train : d[j].y = 0}
  IN  <<Cardinality({j \in genuine : d[j].key = d[i].key}), Cardinality(genuine)>>

(* The round-trip times known, in order; their median replaces one missing. *)
KnownTimes(d, S) ==
  [v \in {d[i].val : i \in S} \ {Blank} |-> Cardinality({i \in S : d[i].val = v})]

RbaFeatures(d, S, train) ==
  [i \in S |-> <<d[i].t, IF d[i].val = Blank THEN KnownTimes(d, S) ELSE <<d[i].val>>,
                 Frequency(d, train, i)>>]

Rba(d) ==
  LET S == InWindow(d)
      train == RbaTrain(d, S)
      f == RbaFeatures(d, S, train)
  IN  Scored(Model(d, InOrder(train), f), S \ train, f)

SweepRba(d) == [Rba(d) EXCEPT !.learnt = [seed \in Seeds |-> @]]

(* With and without the IP reputation, a column of its own. *)
LeakRba(d) == Rba(d)

(* train_rba_full: no window, no median, frequencies after thinning. *)
RbaFull(d) ==
  LET train == RbaTrain(d, DOMAIN d)
      thin  == Thinned(d, train, Seed)
      f == [i \in DOMAIN d |-> <<d[i].t, d[i].val, Frequency(d, ToSet(thin), i)>>]
  IN  Scored(Model(d, thin, f), DOMAIN d \ train, f)

-----------------------------------------------------------------------------
(* CMU keystrokes, and CERT user-days. *)

RepsOf(d, u) == InOrder({i \in DOMAIN d : d[i].who = u})
FirstOf(s, n) == {s[k] : k \in {j \in DOMAIN s : j <= n}}
Subjects(d) == {d[i].who : i \in DOMAIN d}

Enrolled(d, u) == FirstOf(RepsOf(d, u), TrainReps)
Tried(d, u) ==
  (ToSet(RepsOf(d, u)) \ Enrolled(d, u))
    \cup UNION {FirstOf(RepsOf(d, v), ImpostorReps) : v \in Subjects(d) \ {u}}

Stroke(row) == <<row.key, row.val>>

(* A row is tried on its own subject and, among the first, on the others. *)
Cmu(d) ==
  Scored([u \in Subjects(d) |-> {<<i, Stroke(d[i])>> : i \in Enrolled(d, u)}], DOMAIN d,
         [j \in DOMAIN d |-> <<Stroke(d[j]), {u \in Subjects(d) : j \in Tried(d, u)}>>])

(* Another distance, of the same rows. *)
Mahalanobis(d) == Cmu(d)

(* The deviation of a user-day from the user's own median, scaled by the   *)
(* deviation usual for the user, on the user's usual PC: all of them over  *)
(* all days.                                                               *)
Deviation(d) ==
  [i \in DOMAIN d |->
     <<Stroke(d[i]), [k \in DOMAIN RepsOf(d, d[i].who) |-> Stroke(d[RepsOf(d, d[i].who)[k]])]>>]

Cert(d) == Scored(Deviation(d), DOMAIN d, Deviation(d))

SweepCert(d) == [Cert(d) EXCEPT !.learnt = [seed \in Seeds |-> @]]

LeakCert(d) == Audited(Cert(d), Model(d, InOrder(DOMAIN d), Deviation(d)))

(* The supervised upper bound: GroupKFold, here with a fold for each user. *)
Grouped(d) ==
  Scored([u \in Subjects(d) |-> Model(d, InOrder({i \in DOMAIN d : d[i].who # u}), Deviation(d))],
         DOMAIN d, Deviation(d))

-----------------------------------------------------------------------------
PaysimScripts == {"paysim", "sweep_paysim", "leak_paysim"}
IeeeScripts   == {"ieee", "sweep_ieee", "leak_ieee", "bakeoff", "tuned"}
RbaScripts    == {"rba", "sweep_rba", "leak_rba"}
CmuScripts    == {"cmu", "mahalanobis"}
CertScripts   == {"cert", "sweep_cert", "leak_cert", "grouped"}

Scripts == PaysimScripts \cup IeeeScripts \cup RbaScripts \cup CertScripts
             \cup CmuScripts \cup {"phaseb", "rba_full"}

Outcome(by, d) ==
  CASE by = "paysim"       -> Paysim(d)
    [] by = "sweep_paysim" -> SweepPaysim(d)
    [] by = "leak_paysim"  -> LeakPaysim(d)
    [] by = "phaseb"       -> PaysimInner(d)
    [] by = "ieee"         -> Ieee(d)
    [] by = "sweep_ieee"   -> SweepIeee(d)
    [] by = "leak_ieee"    -> LeakIeee(d)
    [] by = "bakeoff"      -> Bakeoff(d)
    [] by = "tuned"        -> Tuned(d)
    [] by = "rba"          -> Rba(d)
    [] by = "sweep_rba"    -> SweepRba(d)
    [] by = "leak_rba"     -> LeakRba(d)
    [] by = "rba_full"     -> RbaFull(d)
    [] by = "cmu"          -> Cmu(d)
    [] by = "mahalanobis"  -> Mahalanobis(d)
    [] by = "cert"         -> Cert(d)
    [] by = "sweep_cert"   -> SweepCert(d)
    [] by = "leak_cert"    -> LeakCert(d)
    [] by = "grouped"      -> Grouped(d)

(* The rows held back, which nothing is to be learnt from. *)
Test(by, d) ==
  CASE by \in PaysimScripts -> DOMAIN d \ StepUpTo(d, Cut)
    [] by = "phaseb"        -> DOMAIN d \ StepUpTo(d, InnerCut)
    [] by \in IeeeScripts   -> DOMAIN d \ IeeeTrain(d)
    [] by \in RbaScripts    -> InWindow(d) \ RbaTrain(d, InWindow(d))
    [] by = "rba_full"      -> DOMAIN d \ RbaTrain(d, DOMAIN d)
    [] by \in CmuScripts    -> DOMAIN d \ UNION {Enrolled(d, u) : u \in Subjects(d)}
    [] by \in CertScripts   -> DOMAIN d

(* A classifier needs rows, and the RBA cuts an account takeover. *)
CanFit(by, d) ==
  /\ d # <<>>
  /\ by \in PaysimScripts => Labelled(d, StepUpTo(d, Cut), 1) # {}
        /\ Cardinality(Labelled(d, StepUpTo(d, Cut), 0)) >= NegSample
  /\ by = "phaseb" => Labelled(d, StepUpTo(d, InnerCut), 1) # {}
        /\ Cardinality(Labelled(d, StepUpTo(d, InnerCut), 0)) >= NegSample
  /\ by \in RbaScripts \cup {"rba_full"} => Labelled(d, InWindow(d), 1) # {}
  /\ by = "grouped" => Cardinality(Subjects(d)) > 1

AddRowOf(t, y, content) ==
  /\ fitted = NotFitted /\ Len(rows) < MaxData
  /\ rows # <<>> => t >= Last(rows).t
  /\ rows' = Append(rows, [t |-> t, y |-> y, who |-> content[1], key |-> content[2],
                           val |-> content[3]])
  /\ UNCHANGED fitted

Fit(by) ==
  /\ fitted = NotFitted /\ CanFit(by, rows)
  /\ fitted' = [by |-> by, scores |-> Outcome(by, rows)]
  /\ UNCHANGED rows

TrainNext ==
  \/ \E t \in Times, y \in 0 .. 1, content \in Contents : AddRowOf(t, y, content)
  \/ \E by \in Scripts : Fit(by)

TrainSpec == TrainInit /\ [][TrainNext]_trainVars

-----------------------------------------------------------------------------
(* The same rows on both sides of the cut. *)
SameSplit(by, d, e) ==
  CASE by \in RbaScripts -> InWindow(d) = InWindow(e) /\ Test(by, d) = Test(by, e)
    [] by = "rba_full"   -> Test(by, d) = Test(by, e)
    [] by \in CmuScripts -> Who(d) = Who(e)
    [] OTHER             -> TRUE

(* The same of what is computed over the whole file. *)
SameWhole(by, d, e) ==
  /\ by \in IeeeScripts => TopDevice(d) = TopDevice(e)
  /\ by \in RbaScripts => KnownTimes(d, InWindow(d)) = KnownTimes(e, InWindow(e))

(* train.py:12 "no look-ahead leakage", for labels: giving a row held back *)
(* the other label changes nothing that is learnt or seen of any row, not  *)
(* even of those the tuning chooses by, nor in the fold of a user when it  *)
(* is a row of that user; as long as the split stays what it was (the RBA  *)
(* window and cut are placed by labels, those held back included), and but *)
(* for the feature a leak audit leaves out.                                *)
TestLabelsUnseen ==
  \A i \in IF fitted.by = Unset THEN {} ELSE Test(fitted.by, rows) :
    LET by == fitted.by
        flipped == [rows EXCEPT ![i].y = 1 - @]
        after == Outcome(by, flipped)
    IN  CanFit(by, flipped) /\ SameSplit(by, rows, flipped) =>
          /\ after.seen = fitted.scores.seen
          /\ IF by = "grouped" THEN after.learnt[rows[i].who] = fitted.scores.learnt[rows[i].who]
             ELSE after.learnt = fitted.scores.learnt

(* And for everything else: another content of a row held back changes     *)
(* neither what is learnt nor what is seen of any row before it, but for   *)
(* what is computed over the whole file: the devices most often named      *)
(* (IEEE), the median round-trip time (RBA), and a user's norm (CERT,      *)
(* which holds nothing back).                                              *)
NoLookAhead ==
  \A i \in IF fitted.by \in {Unset} \cup CertScripts THEN {} ELSE Test(fitted.by, rows), c \in Contents :
    LET by  == fitted.by
        alt == [rows EXCEPT ![i].who = c[1], ![i].key = c[2], ![i].val = c[3]]
        after == Outcome(by, alt)
    IN  SameSplit(by, rows, alt) /\ SameWhole(by, rows, alt) =>
          /\ after.learnt = fitted.scores.learnt
          /\ \A j \in DOMAIN after.seen : j < i => after.seen[j] = fitted.scores.seen[j]
=============================================================================
