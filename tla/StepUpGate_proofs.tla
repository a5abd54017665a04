-------------------------- MODULE StepUpGate_proofs --------------------------
(***************************************************************************)
(* Proofs about the step-up gate, for any number of threads, identities    *)
(* and assertions, any limits, any clock and any number of restarts.       *)
(***************************************************************************)
EXTENDS StepUpGate, FiniteSetTheorems, TLAPS

Listing == {"get", "filter", "assign", "test", "count", "delete", "hold", "append"}
Looking == {"seen", "prune", "add"}
Steps == Listing \cup Looking \cup Answered \cup {"idle", "validate", "apply", "killed"}

Submission ==
  [at : Steps, token : Assertions \cup {Garbage}, identity : Identities, now : Nat,
   fresh : BOOLEAN, expired : BOOLEAN, stale : SUBSET Assertions,
   of : Buckets, held : Requests \cup {NoList}, kept : SUBSET Requests,
   applied : BOOLEAN, epoch : Nat]

BucketsTyped == bucket \in [Buckets -> [Identities -> Requests \cup {NoList}]]
ListsTyped == lists \in [Requests -> SUBSET Requests]

(* A thread that works on a list has one. *)
HandsFull == \A r \in Requests : req[r].at \in Handling => req[r].held \in Requests

(* Every variable keeps its range; in particular only signed assertions'   *)
(* nonces are ever consumed (there and below: AssertionValidator.validate). *)
TypeOK ==
  /\ time \in Nat
  /\ nonces \subseteq Assertions
  /\ BucketsTyped
  /\ ListsTyped
  /\ restarts \in Nat
  /\ req \in [Requests -> Submission]
  /\ met \in [Requests -> SUBSET Requests]
  /\ HandsFull

-----------------------------------------------------------------------------
(* What Set does: one record changes, and into the given one but for the   *)
(* list a thread that is through forgets.                                  *)
LEMMA SetFacts ==
  ASSUME req \in [Requests -> Submission], NEW r \in Requests,
         NEW new \in Submission, Set(r, new)
  PROVE  /\ req' \in [Requests -> Submission]
         /\ \A q \in Requests \ {r} : req'[q] = req[q]
         /\ req'[r].at = new.at /\ req'[r].token = new.token
         /\ req'[r].identity = new.identity /\ req'[r].now = new.now
         /\ req'[r].fresh = new.fresh /\ req'[r].expired = new.expired
         /\ req'[r].stale = new.stale /\ req'[r].of = new.of
         /\ req'[r].applied = new.applied /\ req'[r].epoch = new.epoch
         /\ new.at \in Handling => req'[r].held = new.held
         /\ new.at = "assign" => req'[r].kept = new.kept
<1> DEFINE held == IF new.at \in Handling THEN new.held ELSE NoList
           kept == IF new.at = "assign" THEN new.kept ELSE {}
           put == [new EXCEPT !.held = held, !.kept = kept]
<1>1. held \in Requests \cup {NoList} /\ kept \in SUBSET Requests
  BY DEF Submission
<1>2. put \in Submission
  BY <1>1 DEF Submission
<1>3. req' = [req EXCEPT ![r] = put]
  BY DEF Set
<1>4. /\ req' \in [Requests -> Submission]
      /\ \A q \in Requests \ {r} : req'[q] = req[q]
      /\ req'[r] = put
  BY <1>2, <1>3
<1>5. /\ put.at = new.at /\ put.token = new.token
      /\ put.identity = new.identity /\ put.now = new.now
      /\ put.fresh = new.fresh /\ put.expired = new.expired
      /\ put.stale = new.stale /\ put.of = new.of
      /\ put.applied = new.applied /\ put.epoch = new.epoch
      /\ new.at \in Handling => put.held = new.held
      /\ new.at = "assign" => put.kept = new.kept
  BY DEF Submission
<1> QED BY <1>4, <1>5

(* The list a rate step works with, and the bucket it puts it in.          *)
LEMMA ListTyped ==
  ASSUME TypeOK, NEW r \in Requests
  PROVE  /\ ListOf(r) \in Requests \cup {NoList}
         /\ req[r].of \in Buckets /\ req[r].identity \in Identities
         /\ req[r].at \in Handling => req[r].held \in Requests
BY DEF TypeOK, BucketsTyped, HandsFull, ListOf, Submission

LEMMA PutListTyped ==
  ASSUME TypeOK, NEW r \in Requests, NEW l \in Requests \cup {NoList}, PutList(r, l)
  PROVE  /\ BucketsTyped'
         /\ bucket'[req[r].of][req[r].identity] = l
         /\ \A b \in Buckets, i \in Identities :
              b # req[r].of \/ i # req[r].identity => bucket'[b][i] = bucket[b][i]
<1>1. req[r].of \in Buckets /\ req[r].identity \in Identities
  BY ListTyped
<1> QED BY <1>1 DEF TypeOK, BucketsTyped, PutList

-----------------------------------------------------------------------------
(* The steps on the buckets have in common what they leave alone. *)
RateStep(r) ==
  \/ RateGet(r) \/ RateFilter(r) \/ RateAssign(r) \/ RateTest(r)
  \/ RateCount(r) \/ RateDelete(r) \/ Hold(r) \/ AppendTime(r)

Others(r) == \A q \in Requests \ {r} : req'[q] = req[q]

Same(r) ==
  /\ req'[r].token = req[r].token /\ req'[r].identity = req[r].identity
  /\ req'[r].now = req[r].now /\ req'[r].fresh = req[r].fresh
  /\ req'[r].expired = req[r].expired /\ req'[r].stale = req[r].stale
  /\ req'[r].of = req[r].of /\ req'[r].applied = req[r].applied
  /\ req'[r].epoch = req[r].epoch

Quiet(r) ==
  /\ req[r].at \in Listing
  /\ req' \in [Requests -> Submission] /\ Others(r) /\ Same(r)
  /\ req'[r].at \in Listing \cup Answered \cup {"validate", "apply"}
  /\ req'[r].at = "validate" => req[r].of = "failures"
  /\ req'[r].at = "apply" => req[r].of = "accepted"
  /\ req'[r].at \in Handling => req'[r].held \in Requests
  /\ BucketsTyped' /\ ListsTyped'
  /\ UNCHANGED <<time, nonces, restarts, met>>

LEMMA CountedTyped ==
  ASSUME NEW r, NEW n
  PROVE  /\ Counted(r, n) \in {"flooded", "validate", "capped", "hold"}
         /\ Counted(r, n) = "validate" => req[r].of = "failures"
         /\ Counted(r, n) = "hold" => req[r].of # "failures"
         /\ Counted(r, n) = "flooded" => req[r].of = "failures" /\ n >= FailureMax
         /\ Counted(r, n) = "capped" => req[r].of # "failures" /\ n >= AcceptedMax
BY DEF Counted

LEMMA RateStepQuiet ==
  ASSUME TypeOK, NEW r \in Requests, RateStep(r)
  PROVE  Quiet(r)
<1> USE DEF At, Goto
<1> /\ req \in [Requests -> Submission] /\ req[r] \in Submission
    /\ ListOf(r) \in Requests \cup {NoList}
    /\ req[r].at \in Handling => req[r].held \in Requests
    /\ BucketsTyped /\ ListsTyped
  BY ListTyped DEF TypeOK
<1> DEFINE Outcome(new) ==
      /\ new \in Submission
      /\ new.token = req[r].token /\ new.identity = req[r].identity
      /\ new.now = req[r].now /\ new.fresh = req[r].fresh
      /\ new.expired = req[r].expired /\ new.stale = req[r].stale
      /\ new.of = req[r].of /\ new.applied = req[r].applied
      /\ new.epoch = req[r].epoch
      /\ new.at \in Listing \cup Answered \cup {"validate", "apply"}
      /\ new.at = "validate" => req[r].of = "failures"
      /\ new.at = "apply" => req[r].of = "accepted"
      /\ new.at \in Handling => new.held \in Requests
<1>a. ASSUME NEW new, Outcome(new), Set(r, new), req[r].at \in Listing,
             BucketsTyped', ListsTyped', UNCHANGED <<time, nonces, restarts, met>>
      PROVE  Quiet(r)
  <2> new \in Submission
    BY <1>a
  <2> QED BY <1>a, SetFacts DEF Quiet, Others, Same
<1>b. ASSUME NEW at \in Listing \cup Answered \cup {"validate", "apply"},
             at = "validate" => req[r].of = "failures",
             at = "apply" => req[r].of = "accepted",
             at \in Handling => req[r].held \in Requests
      PROVE  Outcome([req[r] EXCEPT !.at = at])
  BY <1>b DEF Submission, Steps
<1> HIDE DEF Outcome
<1>c. UNCHANGED bucket => BucketsTyped'
  BY DEF BucketsTyped
<1>d. UNCHANGED lists => ListsTyped'
  BY DEF ListsTyped
<1>1. CASE RateGet(r)
  <2> DEFINE at == IF ListOf(r) = NoList THEN Counted(r, 0) ELSE "filter"
             new == [req[r] EXCEPT !.held = ListOf(r), !.at = at]
  <2>1. /\ at \in Listing \cup Answered \cup {"validate", "apply"}
        /\ at = "validate" => req[r].of = "failures"
        /\ at # "apply"
        /\ at \in Handling => ListOf(r) \in Requests
    BY CountedTyped DEF Listing, Answered, Handling
  <2> HIDE DEF at
  <2>2. Outcome(new)
    BY <2>1 DEF Outcome, Submission, Steps
  <2> QED BY <1>1, <1>a, <1>c, <1>d, <2>2 DEF RateGet, Listing, at
<1>2. CASE RateFilter(r)
  <2> DEFINE kept == Recent(lists[req[r].held], req[r].now)
             new == [req[r] EXCEPT !.at = "assign", !.kept = kept]
  <2>1. kept \in SUBSET Requests /\ req[r].held \in Requests
    BY <1>2 DEF RateFilter, Handling, Recent, ListsTyped
  <2> HIDE DEF kept
  <2>2. Outcome(new)
    BY <2>1 DEF Outcome, Submission, Steps, Listing
  <2> QED BY <1>2, <1>a, <1>c, <1>d, <2>2 DEF RateFilter, Listing, kept
<1>3. CASE RateAssign(r)
  <2>1. Outcome([req[r] EXCEPT !.at = "test"])
    BY <1>3, <1>b DEF RateAssign, Listing, Handling
  <2>2. ListsTyped'
    BY <1>3 DEF RateAssign, ListsTyped, Submission
  <2> QED BY <1>3, <1>a, <1>c, <2>1, <2>2 DEF RateAssign, Listing
<1>4. CASE RateTest(r)
  <2>1. /\ Outcome([req[r] EXCEPT !.at = "delete"])
        /\ Outcome([req[r] EXCEPT !.at = "count"])
    BY <1>4, <1>b DEF RateTest, Listing, Handling
  <2> QED BY <1>4, <1>a, <1>c, <1>d, <2>1 DEF RateTest, Listing
<1>5. CASE RateCount(r)
  <2> DEFINE at == Counted(r, Cardinality(lists[req[r].held]))
  <2>1. Outcome([req[r] EXCEPT !.at = at])
    BY <1>b, CountedTyped DEF Listing, Answered, Handling
  <2> QED BY <1>5, <1>a, <1>c, <1>d, <2>1 DEF RateCount, Listing
<1>6. CASE RateDelete(r)
  <2>1. BucketsTyped'
    BY <1>6, PutListTyped DEF RateDelete
  <2>2. /\ Outcome([req[r] EXCEPT !.at = Counted(r, 0)])
        /\ Outcome([req[r] EXCEPT !.at = "crashed"])
    BY <1>b, CountedTyped DEF Listing, Answered, Handling
  <2> QED BY <1>6, <1>a, <1>d, <2>1, <2>2 DEF RateDelete, Listing
<1>7. CASE Hold(r)
  <2> DEFINE list == IF ListOf(r) = NoList THEN r ELSE ListOf(r)
             new == [req[r] EXCEPT !.at = "append", !.held = list]
  <2>1. list \in Requests
    OBVIOUS
  <2> HIDE DEF list
  <2>2. PutList(r, list) /\ lists' = [lists EXCEPT ![r] = {}] /\ Set(r, new)
        /\ req[r].at = "hold" /\ UNCHANGED <<time, nonces, restarts, met>>
    BY <1>7 DEF Hold, list
  <2>3. BucketsTyped' /\ ListsTyped'
    BY <2>1, <2>2, PutListTyped DEF ListsTyped
  <2>4. Outcome(new)
    BY <2>1 DEF Outcome, Submission, Steps, Listing
  <2> QED BY <1>a, <2>2, <2>3, <2>4 DEF Listing
<1>8. CASE AppendTime(r)
  <2>1. ListsTyped'
    BY <1>8 DEF AppendTime, ListsTyped, Handling
  <2>2. Outcome([req[r] EXCEPT
          !.at = IF req[r].of = "accepted" THEN "apply" ELSE "rejected"])
    BY <1>b DEF Answered, Handling
  <2> QED BY <1>8, <1>a, <1>c, <2>1, <2>2 DEF AppendTime, Listing
<1> QED BY <1>1, <1>2, <1>3, <1>4, <1>5, <1>6, <1>7, <1>8 DEF RateStep

-----------------------------------------------------------------------------
(* The other steps of a thread. *)
Bound(r) ==
  /\ req' \in [Requests -> Submission] /\ Others(r)
  /\ req'[r].token = req[r].token /\ req'[r].identity = req[r].identity
  /\ req'[r].now = req[r].now /\ req'[r].epoch = req[r].epoch

Entered(r) ==
  /\ req[r].at = "idle"
  /\ req' \in [Requests -> Submission] /\ Others(r)
  /\ req'[r].at = "get" /\ req'[r].of = "failures"
  /\ ~req'[r].applied /\ req'[r].epoch = restarts /\ req'[r].stale = {}
  /\ \A p \in Requests : p \in met'[r] <=> InFlight(p)
  /\ \A q \in Requests \ {r}, p \in Requests :
       p \in met'[q] <=> p \in met[q] \/ (p = r /\ InFlight(q))
  /\ UNCHANGED <<time, nonces, bucket, lists, restarts>>

LEMMA EnterFacts ==
  ASSUME TypeOK, NEW r \in Requests, NEW s \in Submissions, Enter(r, s[1], s[2])
  PROVE  Entered(r)
<1> DEFINE new == [NoRequest EXCEPT !.at = "get", !.token = s[1], !.now = time,
                                    !.identity = s[2], !.epoch = restarts]
<1>1. s[1] \in Assertions \cup {Garbage} /\ s[2] \in Identities
  BY AssertionsAssumption
<1>2. (CHOOSE i \in Identities : TRUE) \in Identities
  BY SetsAssumption
<1>3. /\ new \in Submission
      /\ new.at = "get" /\ new.of = "failures" /\ ~new.applied
      /\ new.epoch = restarts /\ new.stale = {}
  BY <1>1, <1>2 DEF TypeOK, NoRequest, Submission, Steps, Listing, Buckets
<1>4. Set(r, new)
  BY DEF Enter
<1> HIDE DEF new
<1>5. req' \in [Requests -> Submission] /\ Others(r)
  BY <1>3, <1>4, SetFacts DEF TypeOK, Others
<1>6. /\ req'[r].at = "get" /\ req'[r].of = "failures"
      /\ ~req'[r].applied /\ req'[r].epoch = restarts /\ req'[r].stale = {}
  BY <1>3, <1>4, SetFacts DEF TypeOK
<1>7. /\ \A p \in Requests : p \in met'[r] <=> InFlight(p)
      /\ \A q \in Requests \ {r}, p \in Requests :
           p \in met'[q] <=> p \in met[q] \/ (p = r /\ InFlight(q))
  <2> DEFINE others == {q \in Requests : InFlight(q)}
             value(q) == IF q = r THEN others
                         ELSE IF q \in others THEN met[q] \cup {r} ELSE met[q]
  <2>1. met' = [q \in Requests |-> value(q)]
    BY DEF Enter
  <2> HIDE DEF value
  <2>2. \A q \in Requests : met'[q] = value(q)
    BY <2>1
  <2> USE DEF value
  <2> QED BY <2>2 DEF TypeOK
<1>8. req[r].at = "idle" /\ UNCHANGED <<time, nonces, bucket, lists, restarts>>
  BY DEF Enter, At
<1> QED BY <1>5, <1>6, <1>7, <1>8 DEF Entered

LEMMA ValidateFacts ==
  ASSUME TypeOK, NEW r \in Requests, Validate(r)
  PROVE  /\ req[r].at = "validate" /\ Bound(r)
         /\ req'[r].expired = req[r].expired /\ req'[r].stale = req[r].stale
         /\ req'[r].of = req[r].of /\ req'[r].applied = req[r].applied
         /\ req'[r].at \in {"seen", "hold"}
         /\ req'[r].at = "seen" => /\ req[r].token \in Assertions /\ req'[r].fresh
                                  /\ BoundTo[req[r].token] = req[r].identity
         /\ req'[r].at = "hold" => ~(/\ req'[r].fresh
                                    /\ BoundTo[req[r].token] = req[r].identity)
         /\ UNCHANGED <<time, nonces, bucket, lists, restarts, met>>
<1> DEFINE fresh == Verifiable(req[r].token, time)
           at == IF fresh /\ BoundTo[req[r].token] = req[r].identity
                 THEN "seen" ELSE "hold"
           new == [req[r] EXCEPT !.fresh = fresh, !.at = at]
<1>1. fresh \in BOOLEAN /\ at \in {"seen", "hold"}
  BY DEF Verifiable, Fresh
<1>2. Set(r, new) /\ req[r].at = "validate"
      /\ UNCHANGED <<time, nonces, bucket, lists, restarts, met>>
  BY DEF Validate, At
<1>e. /\ at = "seen" => /\ req[r].token \in Assertions /\ fresh
                        /\ BoundTo[req[r].token] = req[r].identity
      /\ at = "hold" => ~(fresh /\ BoundTo[req[r].token] = req[r].identity)
  BY DEF Verifiable
<1>g. new = [req[r] EXCEPT !.fresh = fresh, !.at = at]
  OBVIOUS
<1> HIDE DEF fresh, at, new
<1>3. /\ new \in Submission
      /\ new.at = at /\ new.fresh = fresh /\ new.token = req[r].token
      /\ new.identity = req[r].identity /\ new.now = req[r].now
      /\ new.epoch = req[r].epoch /\ new.expired = req[r].expired
      /\ new.stale = req[r].stale /\ new.of = req[r].of
      /\ new.applied = req[r].applied
  <2>1. req[r] \in Submission
    BY DEF TypeOK
  <2>2. at \in Steps
    BY <1>1 DEF Steps, Listing, Looking, Answered
  <2> QED BY <1>1, <1>g, <2>1, <2>2 DEF Submission
<1>4. /\ Bound(r)
      /\ req'[r].expired = req[r].expired /\ req'[r].stale = req[r].stale
      /\ req'[r].of = req[r].of /\ req'[r].applied = req[r].applied
      /\ req'[r].fresh = fresh /\ req'[r].at = at
  BY <1>2, <1>3, SetFacts DEF TypeOK, Bound, Others
<1> QED BY <1>1, <1>2, <1>4, <1>e

LEMMA SeenFacts ==
  ASSUME TypeOK, NEW r \in Requests, Seen(r)
  PROVE  /\ req[r].at = "seen" /\ Bound(r)
         /\ req'[r].fresh = req[r].fresh
         /\ req'[r].of = req[r].of /\ req'[r].applied = req[r].applied
         /\ Exp(req[r].token) < time => req'[r].expired
         /\ req'[r].stale = Stale
         /\ req'[r].at \in {"hold", "add", "prune"}
         /\ req'[r].at = "hold" => req[r].token \in nonces
         /\ req'[r].at = "add" => req[r].token \notin nonces
         /\ UNCHANGED <<time, nonces, bucket, lists, restarts, met>>
<1> DEFINE expired == Exp(req[r].token) < time
           stale == Stale
           at == IF Stale = {} THEN Found(r) ELSE "prune"
           new == [req[r] EXCEPT !.expired = expired, !.stale = stale, !.at = at]
<1>1. /\ expired \in BOOLEAN /\ stale \in SUBSET Assertions
      /\ at \in {"hold", "add", "prune"}
      /\ at = "hold" => req[r].token \in nonces
      /\ at = "add" => req[r].token \notin nonces
  BY DEF Seen, Stale, Found, TypeOK
<1>2. /\ Set(r, new) /\ req[r].at = "seen"
      /\ UNCHANGED <<time, nonces, bucket, lists, restarts, met>>
  BY DEF Seen, At
<1>e. (Exp(req[r].token) < time => expired) /\ stale = Stale
  OBVIOUS
<1>g. new = [req[r] EXCEPT !.expired = expired, !.stale = stale, !.at = at]
  OBVIOUS
<1> HIDE DEF expired, stale, at, new
<1>3. /\ new \in Submission
      /\ new.at = at /\ new.fresh = req[r].fresh /\ new.token = req[r].token
      /\ new.identity = req[r].identity /\ new.now = req[r].now
      /\ new.epoch = req[r].epoch /\ new.expired = expired
      /\ new.stale = stale /\ new.of = req[r].of
      /\ new.applied = req[r].applied
  <2>1. req[r] \in Submission
    BY DEF TypeOK
  <2>2. at \in Steps
    BY <1>1 DEF Steps, Listing, Looking, Answered
  <2> QED BY <1>1, <1>g, <2>1, <2>2 DEF Submission
<1>4. /\ Bound(r)
      /\ req'[r].expired = expired /\ req'[r].stale = stale
      /\ req'[r].of = req[r].of /\ req'[r].applied = req[r].applied
      /\ req'[r].fresh = req[r].fresh /\ req'[r].at = at
  BY <1>2, <1>3, SetFacts DEF TypeOK, Bound, Others
<1> QED BY <1>1, <1>2, <1>4, <1>e

LEMMA PruneFacts ==
  ASSUME TypeOK, NEW r \in Requests, Prune(r)
  PROVE  /\ req[r].at = "prune" /\ Bound(r)
         /\ req'[r].fresh = req[r].fresh
         /\ req'[r].of = req[r].of /\ req'[r].applied = req[r].applied
         /\ req[r].expired \/ Exp(req[r].token) < time => req'[r].expired
         /\ req'[r].stale = {}
         /\ req'[r].at \in {"hold", "add", "crashed"}
         /\ req'[r].at = "hold" => req[r].token \in nonces'
         /\ req'[r].at = "add" => req[r].token \notin nonces'
         /\ req'[r].at = "crashed" => ~(req[r].stale \subseteq nonces)
         /\ nonces' = nonces \ req[r].stale
         /\ UNCHANGED <<time, bucket, lists, restarts, met>>
<1> DEFINE expired == req[r].expired \/ Exp(req[r].token) < time
           at == IF req[r].stale \subseteq nonces THEN Found(r) ELSE "crashed"
           new == [req[r] EXCEPT !.expired = expired, !.stale = {}, !.at = at]
<1>1. /\ expired \in BOOLEAN
      /\ at \in {"hold", "add", "crashed"}
      /\ at = "hold" => req[r].token \in nonces'
      /\ at = "add" => req[r].token \notin nonces'
      /\ at = "crashed" => ~(req[r].stale \subseteq nonces)
  BY DEF Found, TypeOK, Submission
<1>2. /\ Set(r, new) /\ req[r].at = "prune"
      /\ nonces' = nonces \ req[r].stale
      /\ UNCHANGED <<time, bucket, lists, restarts, met>>
  BY DEF Prune, At
<1>e. req[r].expired \/ Exp(req[r].token) < time => expired
  OBVIOUS
<1>g. new = [req[r] EXCEPT !.expired = expired, !.stale = {}, !.at = at]
  OBVIOUS
<1> HIDE DEF expired, at, new
<1>3. /\ new \in Submission
      /\ new.at = at /\ new.fresh = req[r].fresh /\ new.token = req[r].token
      /\ new.identity = req[r].identity /\ new.now = req[r].now
      /\ new.epoch = req[r].epoch /\ new.expired = expired
      /\ new.stale = {} /\ new.of = req[r].of
      /\ new.applied = req[r].applied
  <2>1. req[r] \in Submission
    BY DEF TypeOK
  <2>2. at \in Steps
    BY <1>1 DEF Steps, Listing, Looking, Answered
  <2> QED BY <1>1, <1>g, <2>1, <2>2 DEF Submission
<1>4. /\ Bound(r)
      /\ req'[r].expired = expired /\ req'[r].stale = {}
      /\ req'[r].of = req[r].of /\ req'[r].applied = req[r].applied
      /\ req'[r].fresh = req[r].fresh /\ req'[r].at = at
  BY <1>2, <1>3, SetFacts DEF TypeOK, Bound, Others
<1> QED BY <1>1, <1>2, <1>4, <1>e

LEMMA AddNonceFacts ==
  ASSUME TypeOK, NEW r \in Requests, AddNonce(r)
  PROVE  /\ req[r].at = "add" /\ Bound(r)
         /\ req'[r].fresh = req[r].fresh /\ req'[r].stale = req[r].stale
         /\ req'[r].expired = req[r].expired /\ req'[r].applied = req[r].applied
         /\ req'[r].of = "accepted" /\ req'[r].at = "get"
         /\ nonces' = nonces \cup {req[r].token}
         /\ UNCHANGED <<time, bucket, lists, restarts, met>>
<1> DEFINE new == [req[r] EXCEPT !.at = "get", !.of = "accepted"]
<1>1. /\ Set(r, new) /\ req[r].at = "add"
      /\ nonces' = nonces \cup {req[r].token}
      /\ UNCHANGED <<time, bucket, lists, restarts, met>>
  BY DEF AddNonce, At
<1>2. /\ new \in Submission
      /\ new.at = "get" /\ new.fresh = req[r].fresh /\ new.token = req[r].token
      /\ new.identity = req[r].identity /\ new.now = req[r].now
      /\ new.epoch = req[r].epoch /\ new.expired = req[r].expired
      /\ new.stale = req[r].stale /\ new.of = "accepted"
      /\ new.applied = req[r].applied
  <2>1. req[r] \in Submission
    BY DEF TypeOK
  <2> QED BY <2>1 DEF Submission, Steps, Listing, Buckets
<1> HIDE DEF new
<1> QED BY <1>1, <1>2, SetFacts DEF TypeOK, Bound, Others

LEMMA ApplyFacts ==
  ASSUME TypeOK, NEW r \in Requests, Apply(r) \/ ApplyRaises(r)
  PROVE  /\ req[r].at = "apply" /\ Bound(r)
         /\ req'[r].fresh = req[r].fresh /\ req'[r].stale = req[r].stale
         /\ req'[r].expired = req[r].expired /\ req'[r].of = req[r].of
         /\ req'[r].at \in {"ok", "error"}
         /\ UNCHANGED <<time, nonces, bucket, lists, restarts, met>>
<1>1. PICK at \in {"ok", "error"}, applied \in BOOLEAN :
        Set(r, [req[r] EXCEPT !.at = at, !.applied = applied])
  BY DEF Apply, ApplyRaises
<1> DEFINE new == [req[r] EXCEPT !.at = at, !.applied = applied]
<1>2. Set(r, new)
  BY <1>1
<1>3. /\ new \in Submission
      /\ new.at = at /\ new.fresh = req[r].fresh /\ new.token = req[r].token
      /\ new.identity = req[r].identity /\ new.now = req[r].now
      /\ new.epoch = req[r].epoch /\ new.expired = req[r].expired
      /\ new.stale = req[r].stale /\ new.of = req[r].of
  <2>1. req[r] \in Submission
    BY DEF TypeOK
  <2>2. at \in Steps
    BY DEF Steps, Answered
  <2> HIDE <1>1, <1>2
  <2> QED BY <2>1, <2>2 DEF Submission
<1>4. req[r].at = "apply" /\ UNCHANGED <<time, nonces, bucket, lists, restarts, met>>
  BY DEF Apply, ApplyRaises, At
<1> HIDE DEF new
<1> QED BY <1>2, <1>3, <1>4, SetFacts DEF TypeOK, Bound, Others

LEMMA RestartFacts ==
  ASSUME TypeOK, Restart
  PROVE  /\ req' \in [Requests -> Submission]
         /\ \A r \in Requests : Same(r) /\ req'[r].at =
              IF InFlight(r) THEN "killed" ELSE req[r].at
         /\ bucket' = [b \in Buckets |-> [i \in Identities |-> NoList]]
         /\ lists' = [l \in Requests |-> {}]
         /\ BucketsTyped' /\ ListsTyped'
         /\ restarts' = restarts + 1 /\ nonces' = {} /\ UNCHANGED <<time, met>>
<1>1. ASSUME NEW r \in Requests
      PROVE  /\ req'[r] \in Submission
             /\ Same(r)
             /\ req'[r].at = IF InFlight(r) THEN "killed" ELSE req[r].at
  <2> DEFINE killed == [req[r] EXCEPT !.at = "killed", !.held = NoList, !.kept = {}]
  <2>1. req[r] \in Submission
    BY DEF TypeOK
  <2>2. /\ killed \in Submission /\ killed.at = "killed"
        /\ killed.token = req[r].token /\ killed.identity = req[r].identity
        /\ killed.now = req[r].now /\ killed.fresh = req[r].fresh
        /\ killed.expired = req[r].expired /\ killed.stale = req[r].stale
        /\ killed.of = req[r].of /\ killed.applied = req[r].applied
        /\ killed.epoch = req[r].epoch
    BY <2>1 DEF Submission, Steps
  <2>3. req'[r] = IF InFlight(r) THEN killed ELSE req[r]
    BY DEF Restart
  <2> HIDE DEF killed
  <2> QED BY <2>1, <2>2, <2>3 DEF Same
<1>2. BucketsTyped' /\ ListsTyped'
  BY DEF Restart, BucketsTyped, ListsTyped
<1> QED BY <1>1, <1>2 DEF Restart

-----------------------------------------------------------------------------
(* The inductive invariant.  Once past its validation a thread carries a   *)
(* verified assertion; the accepted bucket is for those past the cache.    *)
Verified ==
  \A r \in Requests :
    /\ (req[r].at \in Looking \/ req[r].of = "accepted") =>
         /\ req[r].token \in Assertions /\ req[r].fresh
         /\ BoundTo[req[r].token] = req[r].identity
    /\ (req[r].at = "apply" \/ req[r].applied) => req[r].of = "accepted"
    /\ req[r].at \in Looking \cup {"idle", "validate"} => req[r].of = "failures"

(* A thread belongs to one life of the process. *)
Epochs ==
  \A r \in Requests :
    /\ req[r].epoch <= restarts
    /\ InFlight(r) => req[r].epoch = restarts

(* The ghost met: whoever is at work together has met, both ways. *)
Overlap ==
  \A r, q \in Requests :
    /\ q \in met[r] => r \in met[q]
    /\ req[r].at = "idle" => met[r] = {}
    /\ r # q /\ InFlight(r) /\ InFlight(q) => q \in met[r]

(* What a thread is about to prune has expired, and what this life of the  *)
(* process consumed and has not expired is in the cache.                   *)
Remembered ==
  \A r \in Requests :
    /\ \A a \in req[r].stale : Exp(a) < time
    /\ req[r].of = "accepted" /\ req[r].epoch = restarts =>
         Exp(req[r].token) < time \/ req[r].token \in nonces

Again(r, q) ==
  r # q /\ req[r].token = req[q].token /\ req[r].epoch = req[q].epoch

(* A thread that found its nonce unknown, and is to add it, has met every  *)
(* other that consumed it, unless it looked too late.                      *)
Unseen ==
  \A r, q \in Requests :
    Again(r, q) /\ req[r].at = "add" /\ req[q].of = "accepted" =>
      q \in met[r] \/ req[r].expired

Once ==
  \A r, q \in Requests :
    Again(r, q) /\ req[r].of = "accepted" /\ req[q].of = "accepted" =>
      q \in met[r] \/ req[r].expired \/ req[q].expired

IInv == TypeOK /\ Verified /\ Epochs /\ Overlap /\ Remembered /\ Unseen /\ Once

LEMMA InitTyped == Init => TypeOK
<1> SUFFICES ASSUME Init PROVE TypeOK
  OBVIOUS
<1>1. (CHOOSE i \in Identities : TRUE) \in Identities
  BY SetsAssumption
<1>2. NoRequest \in Submission
  BY <1>1 DEF NoRequest, Submission, Steps, Buckets
<1>3. \A r \in Requests : req[r].at = "idle"
  BY DEF Init, NoRequest
<1>4. BucketsTyped /\ ListsTyped /\ HandsFull
  BY <1>3 DEF Init, BucketsTyped, ListsTyped, HandsFull, Handling
<1> QED BY <1>2, <1>4 DEF Init, TypeOK

LEMMA StillTyped ==
  ASSUME TypeOK, NEW r \in Requests, Others(r), req' \in [Requests -> Submission],
         req'[r].at \notin Handling
  PROVE  HandsFull'
BY DEF TypeOK, HandsFull, Others

LEMMA NextTyped == TypeOK /\ Verified /\ [Next]_vars => TypeOK'
<1> SUFFICES ASSUME TypeOK, Verified, [Next]_vars PROVE TypeOK'
  OBVIOUS
<1> UNCHANGED bucket => BucketsTyped'
  BY DEF TypeOK, BucketsTyped
<1> UNCHANGED lists => ListsTyped'
  BY DEF TypeOK, ListsTyped
<1>1. ASSUME NEW r \in Requests, NEW s \in Submissions, Enter(r, s[1], s[2])
      PROVE  TypeOK'
  <2>1. met' \in [Requests -> SUBSET Requests]
    <3> DEFINE others == {q \in Requests : InFlight(q)}
               value(q) == IF q = r THEN others
                           ELSE IF q \in others THEN met[q] \cup {r} ELSE met[q]
    <3>1. \A q \in Requests : value(q) \in SUBSET Requests
      BY DEF TypeOK
    <3>2. met' = [q \in Requests |-> value(q)]
      BY <1>1 DEF Enter
    <3> HIDE DEF value
    <3> QED BY <3>1, <3>2
  <2>2. Entered(r)
    BY <1>1, EnterFacts
  <2>3. HandsFull'
    BY <2>2, StillTyped DEF Entered, Handling
  <2> QED BY <2>1, <2>2, <2>3 DEF TypeOK, Entered
<1>2. ASSUME NEW r \in Requests, RateStep(r) PROVE TypeOK'
  <2>1. Quiet(r)
    BY <1>2, RateStepQuiet
  <2>2. HandsFull'
    BY <2>1 DEF Quiet, Others, TypeOK, HandsFull
  <2> QED BY <2>1, <2>2 DEF TypeOK, Quiet
<1>3. ASSUME NEW r \in Requests,
             Validate(r) \/ Seen(r) \/ Prune(r) \/ AddNonce(r) \/ Apply(r) \/ ApplyRaises(r)
      PROVE  TypeOK'
  <2>1. Bound(r) /\ req'[r].at \notin Handling /\ UNCHANGED <<time, bucket, lists, restarts, met>>
    BY <1>3, ValidateFacts, SeenFacts, PruneFacts, AddNonceFacts, ApplyFacts DEF Handling
  <2>2. HandsFull'
    BY <2>1, StillTyped DEF Bound
  <2>3. nonces' \subseteq Assertions
    <3>1. CASE AddNonce(r)
      <4>1. req[r].token \in Assertions
        BY <3>1, AddNonceFacts DEF Verified, Looking
      <4> QED BY <3>1, <4>1, AddNonceFacts DEF TypeOK
    <3>2. CASE Prune(r)
      BY <3>2, PruneFacts DEF TypeOK
    <3>3. CASE Validate(r) \/ Seen(r) \/ Apply(r) \/ ApplyRaises(r)
      BY <3>3, ValidateFacts, SeenFacts, ApplyFacts DEF TypeOK
    <3> QED BY <1>3, <3>1, <3>2, <3>3
  <2> QED BY <2>1, <2>2, <2>3 DEF TypeOK, Bound
<1>4. CASE Restart
  <2>1. HandsFull'
    BY <1>4, RestartFacts DEF TypeOK, HandsFull, Handling, InFlight, Answered
  <2> QED BY <1>4, <2>1, RestartFacts DEF TypeOK
<1>5. CASE Tick \/ UNCHANGED vars
  <2>1. HandsFull'
    BY <1>5 DEF Tick, vars, TypeOK, HandsFull
  <2> QED BY <1>5, <2>1 DEF Tick, vars, TypeOK
<1> QED BY <1>1, <1>2, <1>3, <1>4, <1>5 DEF Next, RateStep

LEMMA InitInv == Init => IInv
<1> SUFFICES ASSUME Init PROVE IInv
  OBVIOUS
<1>1. TypeOK
  BY InitTyped
<1>2. ASSUME NEW r \in Requests
      PROVE  /\ req[r].at = "idle" /\ req[r].of = "failures"
             /\ ~req[r].applied /\ req[r].stale = {}
             /\ req[r].epoch = 0 /\ met[r] = {}
  BY DEF Init, NoRequest
<1>3. restarts = 0
  BY DEF Init
<1>4. ASSUME NEW r \in Requests PROVE ~InFlight(r)
  BY <1>2 DEF InFlight
<1>5. Verified
  BY <1>2 DEF Verified, Looking
<1>6. Epochs /\ Overlap
  BY <1>2, <1>3, <1>4 DEF Epochs, Overlap
<1>7. Remembered /\ Unseen /\ Once
  BY <1>2 DEF Remembered, Unseen, Once
<1> QED BY <1>1, <1>5, <1>6, <1>7 DEF IInv

(* Each part of the invariant survives every step. *)
LEMMA VerifiedStep == TypeOK /\ Verified /\ [Next]_vars => Verified'
<1> SUFFICES ASSUME TypeOK, Verified, [Next]_vars PROVE Verified'
  OBVIOUS
<1> USE DEF Verified
<1>1. ASSUME NEW r \in Requests, NEW s \in Submissions, Enter(r, s[1], s[2])
      PROVE  Verified'
  BY <1>1, EnterFacts DEF Entered, Others, Looking
<1>2. ASSUME NEW r \in Requests, RateStep(r) PROVE Verified'
  BY <1>2, RateStepQuiet DEF Quiet, Same, Others, Listing, Looking, Answered
<1>3. ASSUME NEW r \in Requests, Validate(r) PROVE Verified'
  BY <1>3, ValidateFacts DEF Bound, Others, Looking
<1>4. ASSUME NEW r \in Requests, Seen(r) PROVE Verified'
  BY <1>4, SeenFacts DEF Bound, Others, Looking
<1>5. ASSUME NEW r \in Requests, Prune(r) PROVE Verified'
  BY <1>5, PruneFacts DEF Bound, Others, Looking
<1>6. ASSUME NEW r \in Requests, AddNonce(r) PROVE Verified'
  BY <1>6, AddNonceFacts DEF Bound, Others, Looking
<1>7. ASSUME NEW r \in Requests, Apply(r) \/ ApplyRaises(r) PROVE Verified'
  BY <1>7, ApplyFacts DEF Bound, Others, Looking
<1>8. CASE Restart
  BY <1>8, RestartFacts DEF Same, Looking
<1>9. CASE Tick
  BY <1>9 DEF Tick
<1>10. CASE UNCHANGED vars
  BY <1>10 DEF vars
<1> QED BY <1>1, <1>2, <1>3, <1>4, <1>5, <1>6, <1>7, <1>8, <1>9, <1>10
        DEF Next, RateStep

LEMMA EpochsStep == TypeOK /\ Epochs /\ [Next]_vars => Epochs'
<1> SUFFICES ASSUME TypeOK, Epochs, [Next]_vars PROVE Epochs'
  OBVIOUS
<1> USE DEF Epochs
<1> restarts \in Nat /\ \A r \in Requests : req[r].epoch \in Nat
  BY DEF TypeOK, Submission
<1>1. ASSUME NEW r \in Requests, NEW s \in Submissions, Enter(r, s[1], s[2])
      PROVE  Epochs'
  BY <1>1, EnterFacts DEF Entered, Others, InFlight
<1>2. ASSUME NEW r \in Requests, RateStep(r) PROVE Epochs'
  BY <1>2, RateStepQuiet DEF Quiet, Same, Others, Listing, Answered, InFlight
<1>3. ASSUME NEW r \in Requests, Validate(r) PROVE Epochs'
  BY <1>3, ValidateFacts DEF Bound, Others, InFlight, Answered
<1>4. ASSUME NEW r \in Requests, Seen(r) PROVE Epochs'
  BY <1>4, SeenFacts DEF Bound, Others, InFlight, Answered
<1>5. ASSUME NEW r \in Requests, Prune(r) PROVE Epochs'
  BY <1>5, PruneFacts DEF Bound, Others, InFlight, Answered
<1>6. ASSUME NEW r \in Requests, AddNonce(r) PROVE Epochs'
  BY <1>6, AddNonceFacts DEF Bound, Others, InFlight, Answered
<1>7. ASSUME NEW r \in Requests, Apply(r) \/ ApplyRaises(r) PROVE Epochs'
  BY <1>7, ApplyFacts DEF Bound, Others, InFlight, Answered
<1>8. CASE Restart
  BY <1>8, RestartFacts DEF Same, InFlight
<1>9. CASE Tick
  BY <1>9 DEF Tick, InFlight
<1>10. CASE UNCHANGED vars
  BY <1>10 DEF vars, InFlight
<1> QED BY <1>1, <1>2, <1>3, <1>4, <1>5, <1>6, <1>7, <1>8, <1>9, <1>10
        DEF Next, RateStep

LEMMA OverlapStep == TypeOK /\ Overlap /\ [Next]_vars => Overlap'
<1> SUFFICES ASSUME TypeOK, Overlap, [Next]_vars PROVE Overlap'
  OBVIOUS
<1> USE DEF Overlap
<1>1. ASSUME NEW r \in Requests, NEW s \in Submissions, Enter(r, s[1], s[2])
      PROVE  Overlap'
  <2>1. Entered(r) /\ \A q \in Requests : met[q] \subseteq Requests
    BY <1>1, EnterFacts DEF TypeOK
  <2>2. /\ InFlight(r)' /\ ~InFlight(r)
        /\ \A q \in Requests \ {r} : InFlight(q)' = InFlight(q)
    BY <2>1 DEF Entered, Others, InFlight, Answered
  <2>3. met[r] = {} /\ \A q \in Requests : r \notin met[q]
    BY <2>1 DEF Entered
  <2>4. \A q \in Requests : met'[q] \subseteq Requests
    BY <1>1 DEF TypeOK, Enter
  <2>5. ASSUME NEW p \in Requests, NEW q \in Requests, q \in met'[p]
        PROVE  p \in met'[q]
    BY <2>1, <2>2, <2>3, <2>5 DEF Entered
  <2>6. ASSUME NEW p \in Requests, req'[p].at = "idle"
        PROVE  met'[p] = {}
    <3>1. p # r /\ req[p].at = "idle" /\ ~InFlight(p)
      BY <2>1, <2>6 DEF Entered, Others, InFlight
    <3> QED BY <2>1, <2>4, <3>1 DEF Entered
  <2>7. ASSUME NEW p \in Requests, NEW q \in Requests, p # q,
               InFlight(p)', InFlight(q)'
        PROVE  q \in met'[p]
    BY <2>1, <2>2, <2>7 DEF Entered
  <2> QED BY <2>5, <2>6, <2>7
<1>2. ASSUME NEW r \in Requests, RateStep(r) PROVE Overlap'
  BY <1>2, RateStepQuiet DEF Quiet, Others, Listing, Answered, InFlight
<1>3. ASSUME NEW r \in Requests, Validate(r) PROVE Overlap'
  BY <1>3, ValidateFacts DEF Bound, Others, InFlight, Answered
<1>4. ASSUME NEW r \in Requests, Seen(r) PROVE Overlap'
  BY <1>4, SeenFacts DEF Bound, Others, InFlight, Answered
<1>5. ASSUME NEW r \in Requests, Prune(r) PROVE Overlap'
  BY <1>5, PruneFacts DEF Bound, Others, InFlight, Answered
<1>6. ASSUME NEW r \in Requests, AddNonce(r) PROVE Overlap'
  BY <1>6, AddNonceFacts DEF Bound, Others, InFlight, Answered
<1>7. ASSUME NEW r \in Requests, Apply(r) \/ ApplyRaises(r) PROVE Overlap'
  BY <1>7, ApplyFacts DEF Bound, Others, InFlight, Answered
<1>8. CASE Restart
  BY <1>8, RestartFacts DEF InFlight
<1>9. CASE Tick
  BY <1>9 DEF Tick, InFlight
<1>10. CASE UNCHANGED vars
  BY <1>10 DEF vars, InFlight
<1> QED BY <1>1, <1>2, <1>3, <1>4, <1>5, <1>6, <1>7, <1>8, <1>9, <1>10
        DEF Next, RateStep

LEMMA RememberedStep ==
  TypeOK /\ Verified /\ Epochs /\ Remembered /\ [Next]_vars => Remembered'
<1> SUFFICES ASSUME TypeOK, Verified, Epochs, Remembered, [Next]_vars
             PROVE  Remembered'
  OBVIOUS
<1> USE DEF Remembered
<1> time \in Nat /\ restarts \in Nat /\ \A a \in Assertions : Exp(a) \in Nat
  BY AssertionsAssumption, LimitsAssumption DEF TypeOK, Exp
<1> \A r \in Requests : /\ req[r].stale \subseteq Assertions
                        /\ req[r].epoch \in Nat
  BY DEF TypeOK, Submission
<1>1. ASSUME NEW r \in Requests, NEW s \in Submissions, Enter(r, s[1], s[2])
      PROVE  Remembered'
  BY <1>1, EnterFacts DEF Entered, Others
<1>2. ASSUME NEW r \in Requests, RateStep(r) PROVE Remembered'
  BY <1>2, RateStepQuiet DEF Quiet, Same, Others
<1>3. ASSUME NEW r \in Requests, Validate(r) PROVE Remembered'
  BY <1>3, ValidateFacts DEF Bound, Others
<1>4. ASSUME NEW r \in Requests, Seen(r) PROVE Remembered'
  BY <1>4, SeenFacts DEF Bound, Others, Stale
<1>5. ASSUME NEW r \in Requests, Prune(r) PROVE Remembered'
  BY <1>5, PruneFacts DEF Bound, Others
<1>6. ASSUME NEW r \in Requests, AddNonce(r) PROVE Remembered'
  BY <1>6, AddNonceFacts DEF Bound, Others
<1>7. ASSUME NEW r \in Requests, Apply(r) \/ ApplyRaises(r) PROVE Remembered'
  BY <1>7, ApplyFacts DEF Bound, Others
<1>8. CASE Restart
  BY <1>8, RestartFacts DEF Same, Epochs
<1>9. CASE Tick
  BY <1>9 DEF Tick, Verified
<1>10. CASE UNCHANGED vars
  BY <1>10 DEF vars
<1> QED BY <1>1, <1>2, <1>3, <1>4, <1>5, <1>6, <1>7, <1>8, <1>9, <1>10
        DEF Next, RateStep

LEMMA UnseenStep ==
  TypeOK /\ Epochs /\ Overlap /\ Remembered /\ Unseen /\ [Next]_vars => Unseen'
<1> SUFFICES ASSUME TypeOK, Epochs, Overlap, Remembered, Unseen, [Next]_vars
             PROVE  Unseen'
  OBVIOUS
<1> USE DEF Unseen
<1>1. ASSUME NEW r \in Requests, NEW s \in Submissions, Enter(r, s[1], s[2])
      PROVE  Unseen'
  BY <1>1, EnterFacts DEF Entered, Others, Again
<1>2. ASSUME NEW r \in Requests, RateStep(r) PROVE Unseen'
  BY <1>2, RateStepQuiet DEF Quiet, Same, Others, Listing, Answered, Again
<1>3. ASSUME NEW r \in Requests, Validate(r) PROVE Unseen'
  BY <1>3, ValidateFacts DEF Bound, Others, Again
<1>4. ASSUME NEW r \in Requests, Seen(r) PROVE Unseen'
  BY <1>4, SeenFacts DEF Bound, Others, Again, Epochs, Remembered, InFlight, Answered
<1>5. ASSUME NEW r \in Requests, Prune(r) PROVE Unseen'
  BY <1>5, PruneFacts DEF Bound, Others, Again, Epochs, Remembered, InFlight, Answered
<1>6. ASSUME NEW r \in Requests, AddNonce(r) PROVE Unseen'
  BY <1>6, AddNonceFacts DEF Bound, Others, Again, Overlap, InFlight, Answered
<1>7. ASSUME NEW r \in Requests, Apply(r) \/ ApplyRaises(r) PROVE Unseen'
  BY <1>7, ApplyFacts DEF Bound, Others, Again
<1>8. CASE Restart
  BY <1>8, RestartFacts DEF InFlight, Answered
<1>9. CASE Tick
  BY <1>9 DEF Tick, Again
<1>10. CASE UNCHANGED vars
  BY <1>10 DEF vars, Again
<1> QED BY <1>1, <1>2, <1>3, <1>4, <1>5, <1>6, <1>7, <1>8, <1>9, <1>10
        DEF Next, RateStep

LEMMA OnceStep ==
  TypeOK /\ Verified /\ Overlap /\ Unseen /\ Once /\ [Next]_vars => Once'
<1> SUFFICES ASSUME TypeOK, Verified, Overlap, Unseen, Once, [Next]_vars
             PROVE  Once'
  OBVIOUS
<1> USE DEF Once
<1>1. ASSUME NEW r \in Requests, NEW s \in Submissions, Enter(r, s[1], s[2])
      PROVE  Once'
  BY <1>1, EnterFacts DEF Entered, Others, Again
<1>2. ASSUME NEW r \in Requests, RateStep(r) PROVE Once'
  BY <1>2, RateStepQuiet DEF Quiet, Same, Others, Again
<1>3. ASSUME NEW r \in Requests, Validate(r) PROVE Once'
  BY <1>3, ValidateFacts DEF Bound, Others, Again
<1>4. ASSUME NEW r \in Requests, Seen(r) PROVE Once'
  BY <1>4, SeenFacts DEF Bound, Others, Again, Verified, Looking
<1>5. ASSUME NEW r \in Requests, Prune(r) PROVE Once'
  BY <1>5, PruneFacts DEF Bound, Others, Again
<1>6. ASSUME NEW r \in Requests, AddNonce(r) PROVE Once'
  BY <1>6, AddNonceFacts DEF Bound, Others, Again, Unseen, Overlap
<1>7. ASSUME NEW r \in Requests, Apply(r) \/ ApplyRaises(r) PROVE Once'
  BY <1>7, ApplyFacts DEF Bound, Others, Again
<1>8. CASE Restart
  BY <1>8, RestartFacts DEF Same, Again
<1>9. CASE Tick
  BY <1>9 DEF Tick, Again
<1>10. CASE UNCHANGED vars
  BY <1>10 DEF vars, Again
<1> QED BY <1>1, <1>2, <1>3, <1>4, <1>5, <1>6, <1>7, <1>8, <1>9, <1>10
        DEF Next, RateStep

-----------------------------------------------------------------------------
(* The gate keeps its invariant, from the start, whatever the threads do   *)
(* and however often the process is restarted (step_up_outcome).           *)
THEOREM Invariance == Spec => []IInv
<1>1. Init => IInv
  BY InitInv
<1>2. IInv /\ [Next]_vars => IInv'
  BY NextTyped, VerifiedStep, EpochsStep, OverlapStep, RememberedStep,
     UnseenStep, OnceStep DEF IInv
<1> QED BY <1>1, <1>2, PTL DEF Spec

(* Type correctness: among others, the nonce cache never holds anything    *)
(* but nonces of assertions the verifier signed.                           *)
THEOREM TypeCorrect == Spec => []TypeOK
<1>1. IInv => TypeOK
  BY DEF IInv
<1> QED BY <1>1, Invariance, PTL

(* Trust moves only on a signed outcome about that identity that was fresh *)
(* when it was checked: it passed the accepted bucket, which only a        *)
(* verified assertion reaches.                                             *)
THEOREM OutcomesVerified == Spec => []OnlyVerifiedOutcomes
<1>1. IInv => OnlyVerifiedOutcomes
  BY DEF IInv, Verified, OnlyVerifiedOutcomes
<1> QED BY <1>1, Invariance, PTL

(* One assertion moves trust twice only in a race of two submissions, past *)
(* its expiry, or across a restart of the process.                         *)
THEOREM SingleUse == Spec => []SingleUseUnlessRaced
<1>1. IInv => SingleUseUnlessRaced
  BY DEF IInv, Verified, Once, Again, SingleUseUnlessRaced
<1> QED BY <1>1, Invariance, PTL

-----------------------------------------------------------------------------
(* The rate buckets in detail: what a step on them does to them, and which *)
(* of their own steps lead where.                                          *)
Details(r) ==
  LET old == req[r]
      new == req'[r]
      here == ListOf(r)
  IN  /\ \A b \in Buckets, i \in Identities :
           b # old.of \/ i # old.identity => bucket'[b][i] = bucket[b][i]
      /\ bucket'[old.of][old.identity] =
           IF old.at = "delete" THEN NoList
           ELSE IF old.at = "hold" /\ here = NoList THEN r ELSE here
      /\ \A l \in Requests : lists'[l] \subseteq lists[l]
           \cup (IF old.at = "assign" /\ l = old.held THEN old.kept ELSE {})
           \cup (IF old.at = "append" /\ l = old.held THEN {r} ELSE {})
      /\ new.at = "filter" => old.at = "get" /\ here # NoList /\ new.held = here
      /\ new.at = "assign" =>
           /\ old.at = "filter" /\ new.held = old.held
           /\ new.kept \subseteq Recent(lists[old.held], old.now)
      /\ new.at = "test" =>
           old.at = "assign" /\ new.held = old.held /\ lists'[old.held] \subseteq old.kept
      /\ new.at = "count" => old.at = "test" /\ new.held = old.held
      /\ new.at = "delete" => old.at = "test"
      /\ new.at = "crashed" => old.at = "delete" /\ here = NoList
      /\ new.at = "flooded" =>
           /\ old.at = "count" /\ old.of = "failures"
           /\ Cardinality(lists[old.held]) >= FailureMax
      /\ new.at = "capped" =>
           /\ old.at = "count" /\ old.of = "accepted"
           /\ Cardinality(lists[old.held]) >= AcceptedMax
      /\ new.at = "hold" => old.of = "accepted"
      /\ new.at = "append" => old.at = "hold" /\ new.held = IF here = NoList THEN r ELSE here
      /\ new.at = "rejected" => old.at = "append" /\ old.of = "failures"
      /\ new.at = "apply" => old.at = "append"
      /\ old.at = "hold" => new.at = "append"
      /\ old.at = "append" => new.at = IF old.of = "accepted" THEN "apply" ELSE "rejected"

(* With a limit of one at least, nothing in the bucket turns nobody away. *)
LEMMA CountedNone ==
  ASSUME TypeOK, NEW r \in Requests
  PROVE  /\ Counted(r, 0) \in {"validate", "hold"}
         /\ Counted(r, 0) = "hold" => req[r].of = "accepted"
BY LimitsAssumption DEF Counted, TypeOK, Submission, Buckets

LEMMA StepDetails ==
  ASSUME TypeOK, NEW r \in Requests, RateStep(r)
  PROVE  Details(r)
<1> DEFINE old == req[r]
           here == ListOf(r)
           Alone == \A b \in Buckets, i \in Identities :
                      b # old.of \/ i # old.identity => bucket'[b][i] = bucket[b][i]
<1>1. /\ req \in [Requests -> Submission] /\ old \in Submission
      /\ here \in Requests \cup {NoList} /\ old.of \in Buckets
      /\ old.at \in Handling => old.held \in Requests
      /\ lists \in [Requests -> SUBSET Requests]
  BY ListTyped DEF TypeOK, ListsTyped
<1>2. ASSUME NEW at \in Steps, Goto(r, at)
      PROVE  /\ req'[r].at = at
             /\ at \in Handling => req'[r].held = old.held
  <2> DEFINE new == [old EXCEPT !.at = at]
  <2>1. new \in Submission /\ new.at = at /\ new.held = old.held
    BY <1>1 DEF Submission
  <2>2. Set(r, new)
    BY <1>2 DEF Goto
  <2> HIDE DEF new
  <2> QED BY <1>1, <2>1, <2>2, SetFacts
<1>3. UNCHANGED bucket => Alone /\ bucket'[old.of][old.identity] = here
  BY DEF ListOf
<1>4. CASE RateGet(r)
  <2> DEFINE at == IF here = NoList THEN Counted(r, 0) ELSE "filter"
             new == [old EXCEPT !.held = here, !.at = at]
  <2>1. at \in {"filter", "validate", "hold"} /\ (at = "filter" => here # NoList)
        /\ (at = "hold" => old.of = "accepted")
    BY CountedNone
  <2>2. Set(r, new) /\ old.at = "get" /\ UNCHANGED <<bucket, lists>>
    BY <1>4 DEF RateGet, At
  <2> HIDE DEF at
  <2>3. new \in Submission /\ new.at = at /\ new.held = here
    BY <1>1, <2>1 DEF Submission, Steps, Listing
  <2> HIDE DEF new
  <2>4. req'[r].at = at /\ (at = "filter" => req'[r].held = here)
    BY <1>1, <2>1, <2>2, <2>3, SetFacts DEF Handling
  <2> HIDE DEF here
  <2> QED BY <1>3, <2>1, <2>2, <2>4 DEF Details, here
<1>5. CASE RateFilter(r)
  <2> DEFINE kept == Recent(lists[old.held], old.now)
             new == [old EXCEPT !.at = "assign", !.kept = kept]
  <2>1. Set(r, new) /\ old.at = "filter" /\ UNCHANGED <<bucket, lists>>
    BY <1>5 DEF RateFilter, At
  <2>2. kept \in SUBSET Requests
    BY <1>1, <2>1 DEF Recent, Handling
  <2>k. kept \subseteq Recent(lists[old.held], old.now)
    OBVIOUS
  <2> HIDE DEF kept
  <2>3. new \in Submission /\ new.at = "assign" /\ new.held = old.held /\ new.kept = kept
    BY <1>1, <2>2 DEF Submission, Steps, Listing
  <2> HIDE DEF new
  <2>4. req'[r].at = "assign" /\ req'[r].held = old.held /\ req'[r].kept = kept
    BY <1>1, <2>1, <2>3, SetFacts DEF Handling
  <2> QED BY <1>3, <2>1, <2>k, <2>4 DEF Details
<1>6. CASE RateAssign(r)
  <2>1. old.at = "assign" /\ UNCHANGED bucket /\ old.held \in Requests
        /\ lists' = [lists EXCEPT ![old.held] = old.kept]
    BY <1>1, <1>6 DEF RateAssign, At, Handling
  <2>2. req'[r].at = "test" /\ req'[r].held = old.held
    BY <1>2, <1>6 DEF RateAssign, Steps, Listing, Handling
  <2>3. lists'[old.held] = old.kept /\ \A l \in Requests \ {old.held} : lists'[l] = lists[l]
    BY <1>1, <2>1
  <2> QED BY <1>3, <2>1, <2>2, <2>3 DEF Details
<1>7. CASE RateTest(r)
  <2> DEFINE at == IF lists[old.held] = {} THEN "delete" ELSE "count"
  <2>1. old.at = "test" /\ UNCHANGED <<bucket, lists>> /\ Goto(r, at)
    BY <1>7 DEF RateTest, At
  <2>2. at \in {"delete", "count"} /\ at \in Steps
    BY DEF Steps, Listing
  <2> HIDE DEF at
  <2>3. req'[r].at = at /\ (at = "count" => req'[r].held = old.held)
    BY <1>2, <2>1, <2>2 DEF Handling
  <2> QED BY <1>3, <2>1, <2>2, <2>3 DEF Details
<1>8. CASE RateCount(r)
  <2> DEFINE n == Cardinality(lists[old.held])
             at == Counted(r, n)
  <2>1. old.at = "count" /\ UNCHANGED <<bucket, lists>> /\ Goto(r, at)
    BY <1>8 DEF RateCount, At
  <2>2. /\ at \in {"flooded", "validate", "capped", "hold"}
        /\ at = "flooded" => old.of = "failures" /\ n >= FailureMax
        /\ at = "capped" => old.of = "accepted" /\ n >= AcceptedMax
        /\ at = "hold" => old.of = "accepted"
    BY <1>1, CountedTyped DEF Buckets
  <2> HIDE DEF at
  <2>3. req'[r].at = at
    <3>1. at \in Steps
      BY <2>2 DEF Steps, Listing, Answered
    <3> QED BY <1>2, <2>1, <3>1
  <2> QED BY <1>3, <2>1, <2>2, <2>3 DEF Details
<1>9. CASE RateDelete(r)
  <2> DEFINE at == IF here = NoList THEN "crashed" ELSE Counted(r, 0)
  <2>1. old.at = "delete" /\ PutList(r, NoList) /\ Goto(r, at) /\ UNCHANGED lists
    BY <1>9 DEF RateDelete, At
  <2>2. /\ at \in {"crashed", "validate", "hold"}
        /\ at = "crashed" => here = NoList
        /\ at = "hold" => old.of = "accepted"
    BY CountedNone
  <2> HIDE DEF at
  <2>3. req'[r].at = at
    <3>1. at \in Steps
      BY <2>2 DEF Steps, Listing, Answered
    <3> QED BY <1>2, <2>1, <3>1
  <2>4. Alone /\ bucket'[old.of][old.identity] = NoList
    BY <2>1, PutListTyped
  <2> QED BY <2>1, <2>2, <2>3, <2>4 DEF Details
<1>10. CASE Hold(r)
  <2> DEFINE list == IF here = NoList THEN r ELSE here
             new == [old EXCEPT !.at = "append", !.held = list]
  <2>1. Set(r, new) /\ old.at = "hold" /\ PutList(r, list) /\ lists' = [lists EXCEPT ![r] = {}]
    BY <1>10 DEF Hold, At
  <2>2. list \in Requests
    BY <1>1
  <2>3. new \in Submission /\ new.at = "append" /\ new.held = list
    BY <1>1, <2>2 DEF Submission, Steps, Listing
  <2>4. Alone /\ bucket'[old.of][old.identity] = list
    BY <2>1, <2>2, PutListTyped
  <2> HIDE DEF new
  <2>5. req'[r].at = "append" /\ req'[r].held = list
    BY <1>1, <2>1, <2>3, SetFacts DEF Handling
  <2>6. \A l \in Requests : lists'[l] \subseteq lists[l]
    BY <1>1, <2>1
  <2> QED BY <2>1, <2>4, <2>5, <2>6 DEF Details
<1>11. CASE AppendTime(r)
  <2> DEFINE at == IF old.of = "accepted" THEN "apply" ELSE "rejected"
  <2>1. old.at = "append" /\ Goto(r, at) /\ UNCHANGED bucket /\ old.held \in Requests
        /\ lists' = [lists EXCEPT ![old.held] = @ \cup {r}]
    BY <1>1, <1>11 DEF AppendTime, At, Handling
  <2>2. req'[r].at = at
    <3>1. at \in Steps
      BY DEF Steps, Answered
    <3> HIDE DEF at
    <3> QED BY <1>2, <2>1, <3>1
  <2>3. /\ lists'[old.held] = lists[old.held] \cup {r}
        /\ \A l \in Requests \ {old.held} : lists'[l] = lists[l]
    BY <1>1, <2>1
  <2>4. old.of = "accepted" \/ old.of = "failures"
    BY <1>1 DEF Buckets
  <2> QED BY <1>3, <2>1, <2>2, <2>3, <2>4 DEF Details
<1> QED BY <1>4, <1>5, <1>6, <1>7, <1>8, <1>9, <1>10, <1>11 DEF RateStep

-----------------------------------------------------------------------------
(* What turns a submission away.  A nonce in the cache is that of a        *)
(* submission that was accepted, and so is the one of a genuine assertion  *)
(* that is to be rejected.                                                 *)
Genuine(r) == req[r].fresh /\ BoundTo[req[r].token] = req[r].identity
Consumed(a) == \E q \in Requests : req[q].of = "accepted" /\ req[q].token = a

Recognised ==
  /\ \A a \in nonces : Consumed(a)
  /\ \A r \in Requests :
       /\ /\ req[r].of = "failures" /\ req[r].at \in {"hold", "append", "rejected"}
          /\ Genuine(r)
          => Consumed(req[r].token)
       /\ At(r, "rejected") => req[r].of = "failures"

(* What a thread has in hand is still there unless it met another.         *)
Disturbed ==
  \A r \in Requests :
    /\ req[r].at \in {"filter", "assign", "test", "delete"} =>
         ListOf(r) # NoList \/ met[r] # {}
    /\ At(r, "prune") => req[r].stale \subseteq nonces \/ met[r] # {}
    /\ At(r, "crashed") => met[r] # {}

(* A list, as long as it is in a bucket or a thread works on it, is that   *)
(* of the bucket and the identity of the request that made it.             *)
Settled == {"append", "rejected", "apply", "ok", "error", "killed"}
Home(l, b, i) == req[l].at \in Settled /\ req[l].of = b /\ req[l].identity = i
HomeNext(l, b, i) ==
  req'[l].at \in Settled /\ req'[l].of = b /\ req'[l].identity = i

Housed ==
  /\ \A b \in Buckets, i \in Identities :
       bucket[b][i] # NoList => Home(bucket[b][i], b, i)
  /\ \A r \in Requests : req[r].at \in Handling =>
       Home(req[r].held, req[r].of, req[r].identity)

(* A list has only those in it that failed, or were accepted, for its      *)
(* identity; what is lost by a race is lost to the limit.                  *)
Side(b) == IF b = "failures" THEN Refused ELSE Admitted
Filed(b, i) == {q \in Side(b) : req[q].identity = i}

Listed ==
  /\ \A l \in Requests : lists[l] # {} =>
       req[l].at \in Settled /\ lists[l] \subseteq Filed(req[l].of, req[l].identity)
  /\ \A r \in Requests : At(r, "assign") =>
       req[r].kept \subseteq Recent(Filed(req[r].of, req[r].identity), req[r].now)

(* What a thread tests and counts is what it kept, and what threads it met *)
(* have put into the list since.                                           *)
Weighed ==
  \A r \in Requests : req[r].at \in {"test", "count"} =>
    lists[req[r].held] \subseteq Counting(r, Side(req[r].of))

Limited ==
  \A r \in Requests :
    /\ At(r, "flooded") => Cardinality(Counting(r, Refused)) >= FailureMax
    /\ At(r, "capped") => Cardinality(Counting(r, Admitted)) >= AcceptedMax

(* What a submission that came in keeps, and one that is through. *)
Onward(q) ==
  \/ req'[q] = req[q]
  \/ req[q].at = "idle" /\ req'[q].at = "get" /\ req'[q].of = "failures"
  \/ /\ InFlight(q) /\ req'[q].token = req[q].token /\ req'[q].identity = req[q].identity
     /\ req'[q].now = req[q].now
     /\ req[q].of = "accepted" => req'[q].of = "accepted"
     /\ req[q].at = "apply" => req'[q].at \in {"ok", "error", "killed"}
     /\ req[q].at \in Settled => req'[q].of = req[q].of /\ req'[q].at \in Settled
  \/ ~InFlight(q) /\ req'[q].at = req[q].at /\ Same(q)

LEMMA NextOnward ==
  ASSUME TypeOK, [Next]_vars, NEW q \in Requests
  PROVE  Onward(q)
<1>1. ASSUME NEW r \in Requests, NEW s \in Submissions, Enter(r, s[1], s[2])
      PROVE  Onward(q)
  BY <1>1, EnterFacts DEF Entered, Others, Onward, Settled
<1>2. ASSUME NEW r \in Requests, RateStep(r) PROVE Onward(q)
  BY <1>2, RateStepQuiet, StepDetails
  DEF Quiet, Details, Same, Others, Onward, Listing, InFlight, Answered, Settled
<1>3. ASSUME NEW r \in Requests, Validate(r) PROVE Onward(q)
  BY <1>3, ValidateFacts DEF Bound, Others, Onward, InFlight, Answered, Settled
<1>4. ASSUME NEW r \in Requests, Seen(r) PROVE Onward(q)
  BY <1>4, SeenFacts DEF Bound, Others, Onward, InFlight, Answered, Settled
<1>5. ASSUME NEW r \in Requests, Prune(r) PROVE Onward(q)
  BY <1>5, PruneFacts DEF Bound, Others, Onward, InFlight, Answered, Settled
<1>6. ASSUME NEW r \in Requests, AddNonce(r) PROVE Onward(q)
  BY <1>6, AddNonceFacts DEF Bound, Others, Onward, InFlight, Answered, Settled
<1>7. ASSUME NEW r \in Requests, Apply(r) \/ ApplyRaises(r) PROVE Onward(q)
  BY <1>7, ApplyFacts DEF Bound, Others, Onward, InFlight, Answered, Settled
<1>8. CASE Restart
  BY <1>8, RestartFacts DEF Same, Onward, Settled
<1>9. CASE Tick \/ UNCHANGED vars
  BY <1>9 DEF Tick, vars, Onward
<1> QED BY <1>1, <1>2, <1>3, <1>4, <1>5, <1>6, <1>7, <1>8, <1>9
        DEF Next, RateStep

(* Who failed, or was accepted, stays so. *)
LEMMA FiledGrows ==
  ASSUME TypeOK, [Next]_vars
  PROVE  /\ Refused \subseteq Refused' /\ Admitted \subseteq Admitted'
         /\ \A q \in Refused \cup Admitted :
              req'[q].identity = req[q].identity /\ req'[q].now = req[q].now
<1>1. \A q \in Requests : Onward(q)
  BY NextOnward
<1>2. \A q \in Refused \cup Admitted : req[q].at \notin {"idle", "get"}
  BY DEF Refused, Admitted, At
<1>3. ASSUME NEW q \in Refused
      PROVE  /\ q \in Refused'
             /\ req'[q].identity = req[q].identity /\ req'[q].now = req[q].now
  BY <1>1, <1>2, <1>3 DEF Onward, Refused, At, InFlight, Answered, Same
<1>4. ASSUME NEW q \in Admitted
      PROVE  /\ q \in Admitted'
             /\ req'[q].identity = req[q].identity /\ req'[q].now = req[q].now
  BY <1>1, <1>2, <1>4 DEF Onward, Admitted, At, InFlight, Answered, Same
<1> QED BY <1>3, <1>4

LEMMA RecognisedStep ==
  TypeOK /\ Verified /\ Recognised /\ [Next]_vars => Recognised'
<1> SUFFICES ASSUME TypeOK, Verified, Recognised, [Next]_vars PROVE Recognised'
  OBVIOUS
<1>1. \A q \in Requests : Onward(q)
  BY NextOnward
<1>2. \A a : Consumed(a) => Consumed(a)'
  <2>1. \A q \in Requests : req[q].of = "accepted" => req[q].at # "idle"
    BY DEF Verified
  <2> QED BY <1>1, <2>1 DEF Onward, Consumed, Same
<1>3. ASSUME NEW r \in Requests, NEW s \in Submissions, Enter(r, s[1], s[2])
      PROVE  Recognised'
  BY <1>2, <1>3, EnterFacts DEF Entered, Others, Recognised, Genuine, At
<1>4. ASSUME NEW r \in Requests, RateStep(r) PROVE Recognised'
  BY <1>2, <1>4, RateStepQuiet, StepDetails
  DEF Quiet, Same, Others, Details, Recognised, Genuine, At, Listing, Answered
<1>5. ASSUME NEW r \in Requests, Validate(r) PROVE Recognised'
  BY <1>2, <1>5, ValidateFacts DEF Bound, Others, Recognised, Genuine, At
<1>6. ASSUME NEW r \in Requests, Seen(r) PROVE Recognised'
  BY <1>2, <1>6, SeenFacts DEF Bound, Others, Recognised, Genuine, At
<1>7. ASSUME NEW r \in Requests, Prune(r) PROVE Recognised'
  BY <1>2, <1>7, PruneFacts DEF Bound, Others, Recognised, Genuine, At
<1>8. ASSUME NEW r \in Requests, AddNonce(r) PROVE Recognised'
  <2>1. Consumed(req[r].token)'
    BY <1>8, AddNonceFacts DEF Bound, Consumed
  <2> QED BY <1>2, <1>8, <2>1, AddNonceFacts DEF Bound, Others, Recognised, Genuine, At
<1>9. ASSUME NEW r \in Requests, Apply(r) \/ ApplyRaises(r) PROVE Recognised'
  BY <1>2, <1>9, ApplyFacts DEF Bound, Others, Recognised, Genuine, At
<1>10. CASE Restart
  BY <1>2, <1>10, RestartFacts DEF Same, Recognised, Genuine, At
<1>11. CASE Tick \/ UNCHANGED vars
  BY <1>11 DEF Tick, vars, Recognised, Genuine, Consumed, At
<1> QED BY <1>3, <1>4, <1>5, <1>6, <1>7, <1>8, <1>9, <1>10, <1>11
        DEF Next, RateStep

LEMMA DisturbedStep ==
  TypeOK /\ Overlap /\ Disturbed /\ [Next]_vars => Disturbed'
<1> SUFFICES ASSUME TypeOK, Overlap, Disturbed, [Next]_vars PROVE Disturbed'
  OBVIOUS
<1> DEFINE AtList == {"filter", "assign", "test", "delete"}
           Fine(r) ==
             /\ req'[r].at \in AtList => ListOf(r)' # NoList \/ met'[r] # {}
             /\ req'[r].at = "prune" => req'[r].stale \subseteq nonces' \/ met'[r] # {}
             /\ req'[r].at = "crashed" => met'[r] # {}
<1>1. ASSUME NEW p \in Requests, InFlight(p), met' = met,
             NEW r \in Requests \ {p}, req'[r] = req[r]
      PROVE  Fine(r)
  <2>1. req[r].at \in AtList \cup {"prune"} => met[r] # {}
    BY <1>1 DEF Overlap, InFlight, Answered
  <2> QED BY <1>1, <2>1 DEF Disturbed, At
<1>2. ASSUME NEW r \in Requests, NEW s \in Submissions, Enter(r, s[1], s[2])
      PROVE  Disturbed'
  <2>1. Entered(r)
    BY <1>2, EnterFacts
  <2>2. \A q \in Requests \ {r} : met[q] # {} => met'[q] # {}
    BY <2>1 DEF Entered, TypeOK
  <2> QED BY <2>1, <2>2 DEF Entered, Others, Disturbed, ListOf, At
<1>3. ASSUME NEW r \in Requests, RateStep(r) PROVE Disturbed'
  <2>1. Quiet(r) /\ Details(r)
    BY <1>3, RateStepQuiet, StepDetails
  <2>2. InFlight(r) /\ met' = met
    BY <2>1 DEF Quiet, Listing, InFlight, Answered
  <2>3. Fine(r)
    <3>1. ListOf(r)' = bucket'[req[r].of][req[r].identity]
      BY <2>1 DEF Quiet, Same, ListOf
    <3>2. CASE req'[r].at \in AtList
      <4>1. /\ req[r].at \in {"get", "filter", "assign", "test"}
            /\ req[r].at = "get" => ListOf(r) # NoList
        BY <2>1, <3>2 DEF Details
      <4>2. ListOf(r)' = ListOf(r)
        BY <2>1, <3>1, <4>1 DEF Details
      <4>3. ListOf(r)' # NoList \/ met[r] # {}
        BY <4>1, <4>2 DEF Disturbed, At
      <4> QED BY <2>2, <3>2, <4>3
    <3>3. CASE req'[r].at = "crashed"
      BY <2>1, <3>3 DEF Details, Quiet, Disturbed, At
    <3>4. req'[r].at # "prune"
      BY <2>1 DEF Quiet, Listing, Answered
    <3> QED BY <3>2, <3>3, <3>4
  <2>4. \A q \in Requests \ {r} : req'[q] = req[q]
    BY <2>1 DEF Quiet, Others
  <2>5. \A q \in Requests \ {r} : Fine(q)
    <3> HIDE DEF Fine
    <3> QED BY <1>1, <2>2, <2>4
  <2> QED BY <2>3, <2>5 DEF Disturbed, At
<1>4. ASSUME NEW r \in Requests,
             Validate(r) \/ Seen(r) \/ Prune(r) \/ AddNonce(r) \/ Apply(r) \/ ApplyRaises(r)
      PROVE  Disturbed'
  <2>1. /\ InFlight(r) /\ met' = met /\ \A q \in Requests \ {r} : req'[q] = req[q]
    BY <1>4, ValidateFacts, SeenFacts, PruneFacts, AddNonceFacts, ApplyFacts
    DEF Bound, Others, InFlight, Answered
  <2>2. Fine(r)
    <3>1. CASE Validate(r) \/ AddNonce(r) \/ Apply(r) \/ ApplyRaises(r)
      BY <3>1, ValidateFacts, AddNonceFacts, ApplyFacts
    <3>2. CASE Seen(r)
      BY <3>2, SeenFacts DEF Stale
    <3>3. CASE Prune(r)
      BY <3>3, PruneFacts DEF Disturbed, At
    <3> QED BY <1>4, <3>1, <3>2, <3>3
  <2>3. \A q \in Requests \ {r} : Fine(q)
    <3> HIDE DEF Fine
    <3> QED BY <1>1, <2>1
  <2> QED BY <2>2, <2>3 DEF Disturbed, At
<1>5. CASE Restart
  BY <1>5, RestartFacts DEF Disturbed, At, InFlight, Answered
<1>6. CASE Tick \/ UNCHANGED vars
  BY <1>6 DEF Tick, vars, Disturbed, ListOf, At
<1> QED BY <1>2, <1>3, <1>4, <1>5, <1>6 DEF Next, RateStep

-----------------------------------------------------------------------------
(* Where a list is at home it stays. *)
LEMMA HomeStays ==
  ASSUME TypeOK, [Next]_vars, NEW l \in Requests, NEW b, NEW i, Home(l, b, i)
  PROVE  HomeNext(l, b, i)
<1>1. Onward(l) /\ req[l].at # "idle"
  BY NextOnward DEF Home, Settled
<1> QED BY <1>1 DEF Onward, Same, Home, HomeNext, Settled, InFlight, Answered

LEMMA HousedStep == TypeOK /\ Housed /\ [Next]_vars => Housed'
<1> SUFFICES ASSUME TypeOK, Housed, [Next]_vars PROVE Housed'
  OBVIOUS
<1> DEFINE Lodged(b, i) == bucket'[b][i] # NoList => HomeNext(bucket'[b][i], b, i)
           Working(r) == req'[r].at \in Handling =>
                           HomeNext(req'[r].held, req'[r].of, req'[r].identity)
<1>f. ASSUME \A b \in Buckets, i \in Identities : Lodged(b, i),
             \A r \in Requests : Working(r)
      PROVE  Housed'
  BY <1>f DEF Housed, Home, HomeNext
<1>1. ASSUME NEW b \in Buckets, NEW i \in Identities, bucket'[b][i] = bucket[b][i]
      PROVE  Lodged(b, i)
  <2>1. bucket[b][i] # NoList => bucket[b][i] \in Requests /\ Home(bucket[b][i], b, i)
    BY DEF TypeOK, BucketsTyped, Housed
  <2>2. bucket[b][i] # NoList => HomeNext(bucket[b][i], b, i)
    BY <2>1, HomeStays
  <2> QED BY <1>1, <2>2
<1>2. ASSUME NEW r \in Requests, req'[r] = req[r] \/ req'[r].at \notin Handling
      PROVE  Working(r)
  <2>1. CASE req'[r] = req[r] /\ req[r].at \in Handling
    <3>1. req[r].held \in Requests /\ Home(req[r].held, req[r].of, req[r].identity)
      BY <2>1 DEF TypeOK, HandsFull, Housed
    <3>2. HomeNext(req[r].held, req[r].of, req[r].identity)
      BY <3>1, HomeStays
    <3> QED BY <2>1, <3>2
  <2> QED BY <1>2, <2>1
<1>3. ASSUME NEW r \in Requests, RateStep(r) PROVE Housed'
  <2>1. Quiet(r) /\ Details(r)
    BY <1>3, RateStepQuiet, StepDetails
  <2> DEFINE b == req[r].of
             i == req[r].identity
             here == ListOf(r)
  <2>2. /\ b \in Buckets /\ i \in Identities /\ here \in Requests \cup {NoList}
        /\ here # NoList => Home(here, b, i)
        /\ req[r].at \in Handling => req[r].held \in Requests /\ Home(req[r].held, b, i)
    BY ListTyped DEF Housed, ListOf
  <2>3. ASSUME NEW l \in Requests, Home(l, b, i)
        PROVE  HomeNext(l, b, i)
    <3> HIDE DEF b, i
    <3> QED BY <2>3, HomeStays
  <2>4. req'[r].of = b /\ req'[r].identity = i
    BY <2>1 DEF Quiet, Same
  <2>5. Working(r)
    <3>1. CASE req'[r].at = "filter"
      BY <2>1, <2>2, <2>3, <2>4, <3>1 DEF Details
    <3>2. CASE req'[r].at \in {"assign", "test", "count"}
      <4>1. req[r].at \in Handling /\ req'[r].held = req[r].held
        BY <2>1, <3>2 DEF Details, Handling
      <4> QED BY <2>2, <2>3, <2>4, <4>1 DEF HomeNext, Settled
    <3>3. CASE req'[r].at = "append" /\ here = NoList
      <4>1. req'[r].held = r
        BY <2>1, <3>3 DEF Details
      <4> QED BY <2>4, <3>3, <4>1 DEF HomeNext, Settled
    <3>4. CASE req'[r].at = "append" /\ here # NoList
      <4>1. req'[r].held = here
        BY <2>1, <3>4 DEF Details
      <4> QED BY <2>2, <2>3, <2>4, <3>4, <4>1 DEF HomeNext, Settled
    <3> QED BY <3>1, <3>2, <3>3, <3>4 DEF Handling
  <2>6. Lodged(b, i)
    <3>1. CASE req[r].at = "hold" /\ here = NoList
      <4>1. bucket'[b][i] = r /\ req'[r].at = "append"
        <5>1. bucket'[b][i] = r
          BY <2>1, <3>1 DEF Details
        <5>2. req'[r].at = "append"
          BY <2>1, <3>1 DEF Details
        <5> QED BY <5>1, <5>2
      <4> QED BY <2>4, <4>1 DEF HomeNext, Settled
    <3>2. CASE req[r].at # "delete" /\ ~(req[r].at = "hold" /\ here = NoList)
      <4>1. bucket'[b][i] = bucket[b][i]
        BY <2>1, <3>2 DEF Details, ListOf
      <4> HIDE DEF Lodged, b, i
      <4> QED BY <1>1, <2>2, <4>1
    <3>3. CASE req[r].at = "delete"
      BY <2>1, <3>3 DEF Details
    <3> QED BY <3>1, <3>2, <3>3
  <2>7. \A c \in Buckets, j \in Identities : c # b \/ j # i => Lodged(c, j)
    <3>1. \A c \in Buckets, j \in Identities : c # b \/ j # i => bucket'[c][j] = bucket[c][j]
      BY <2>1 DEF Details
    <3> HIDE DEF Lodged, b, i
    <3> QED BY <1>1, <3>1
  <2>8. /\ \A c \in Buckets, j \in Identities : Lodged(c, j)
        /\ \A q \in Requests : Working(q)
    <3>1. \A q \in Requests \ {r} : Working(q)
      <4>1. \A q \in Requests \ {r} : req'[q] = req[q]
        BY <2>1 DEF Quiet, Others
      <4> HIDE DEF Working
      <4> QED BY <1>2, <4>1
    <3> HIDE DEF Lodged, Working, b, i
    <3> QED BY <2>5, <2>6, <2>7, <3>1
  <2> HIDE DEF Lodged, Working
  <2> QED BY <1>f, <2>8
<1>4. ASSUME UNCHANGED bucket,
             \A r \in Requests : req'[r] = req[r] \/ req'[r].at \notin Handling
      PROVE  Housed'
  <2>1. \A b \in Buckets, i \in Identities : Lodged(b, i)
    <3>1. \A b \in Buckets, i \in Identities : bucket'[b][i] = bucket[b][i]
      BY <1>4
    <3> HIDE DEF Lodged
    <3> QED BY <1>1, <3>1
  <2>2. \A r \in Requests : Working(r)
    <3> HIDE DEF Working
    <3> QED BY <1>2, <1>4
  <2> HIDE DEF Lodged, Working
  <2> QED BY <1>f, <2>1, <2>2
<1>5. ASSUME NEW r \in Requests, NEW s \in Submissions, Enter(r, s[1], s[2])
      PROVE  Housed'
  <2>1. Entered(r)
    BY <1>5, EnterFacts
  <2> QED BY <1>4, <2>1 DEF Entered, Others, Handling
<1>6. ASSUME NEW r \in Requests,
             Validate(r) \/ Seen(r) \/ Prune(r) \/ AddNonce(r) \/ Apply(r) \/ ApplyRaises(r)
      PROVE  Housed'
  <2>1. UNCHANGED bucket /\ Others(r) /\ req'[r].at \notin Handling
    BY <1>6, ValidateFacts, SeenFacts, PruneFacts, AddNonceFacts, ApplyFacts DEF Bound, Handling
  <2> QED BY <1>4, <2>1 DEF Others
<1>7. CASE Restart
  <2>1. \A b \in Buckets, i \in Identities : bucket'[b][i] = NoList
    BY <1>7, RestartFacts
  <2>2. \A r \in Requests : req'[r].at \notin Handling
    BY <1>7, RestartFacts DEF InFlight, Answered, Handling
  <2> QED BY <2>1, <2>2 DEF Housed
<1>8. CASE Tick \/ UNCHANGED vars
  BY <1>4, <1>8 DEF Tick, vars
<1> QED BY <1>3, <1>5, <1>6, <1>7, <1>8 DEF Next, RateStep

-----------------------------------------------------------------------------
(* What was in a thread's list and counts for it, counts ever after.       *)
FiledNext(b, i) ==
  {q \in IF b = "failures" THEN Refused' ELSE Admitted' : req'[q].identity = i}

LEMMA FiledStays ==
  ASSUME TypeOK, [Next]_vars
  PROVE  \A b, i : Filed(b, i) \subseteq FiledNext(b, i)
BY FiledGrows DEF Filed, FiledNext, Side

LEMMA PastGrows ==
  ASSUME TypeOK, [Next]_vars, NEW b, NEW i, NEW now
  PROVE  Recent(Filed(b, i), now) \subseteq
           {q \in FiledNext(b, i) : now - req'[q].now < Period}
<1>1. \A q \in Filed(b, i) : q \in FiledNext(b, i) /\ req'[q].now = req[q].now
  BY FiledStays, FiledGrows DEF Filed, Side
<1> QED BY <1>1 DEF Recent

(* Which entries a step on the buckets can put into which list.            *)
LEMMA FiledEntries ==
  ASSUME TypeOK, Housed, Listed, NEW r \in Requests, RateStep(r)
  PROVE  /\ req[r].at = "assign" =>
              /\ req[r].kept \subseteq Recent(Filed(req[r].of, req[r].identity), req[r].now)
              /\ Home(req[r].held, req[r].of, req[r].identity)
         /\ req[r].at = "append" =>
              /\ r \in FiledNext(req[r].of, req[r].identity)
              /\ Home(req[r].held, req[r].of, req[r].identity)
<1>1. Quiet(r) /\ Details(r) /\ req[r].of \in Buckets
  BY RateStepQuiet, StepDetails, ListTyped
<1>2. req[r].at \in {"assign", "append"} => Home(req[r].held, req[r].of, req[r].identity)
  BY DEF Housed, Handling
<1>3. req[r].at = "append" => r \in FiledNext(req[r].of, req[r].identity)
  BY <1>1 DEF Details, Quiet, Same, FiledNext, Refused, Admitted, At, Buckets
<1> QED BY <1>2, <1>3 DEF Listed, At

LEMMA ListedStep ==
  TypeOK /\ Housed /\ Listed /\ [Next]_vars => Listed'
<1> SUFFICES ASSUME TypeOK, Housed, Listed, [Next]_vars
             PROVE  Listed'
  OBVIOUS
<1> DEFINE Own(l) == lists'[l] # {} =>
             /\ req'[l].at \in Settled
             /\ lists'[l] \subseteq FiledNext(req'[l].of, req'[l].identity)
           Mine(r) == req'[r].at = "assign" =>
             req'[r].kept \subseteq
               {q \in FiledNext(req'[r].of, req'[r].identity) :
                  req'[r].now - req'[q].now < Period}
<1>f. ASSUME \A l \in Requests : Own(l), \A r \in Requests : Mine(r)
      PROVE  Listed'
  BY <1>f DEF Listed, Filed, FiledNext, Side, Recent, At
<1>1. ASSUME NEW l \in Requests, lists'[l] \subseteq lists[l]
      PROVE  Own(l)
  <2>1. CASE lists[l] # {}
    <3> DEFINE b == req[l].of
               i == req[l].identity
    <3>1. Home(l, b, i) /\ lists[l] \subseteq Filed(b, i)
      BY <2>1 DEF Listed, Home
    <3>2. HomeNext(l, b, i)
      <4> HIDE DEF b, i
      <4> QED BY <3>1, HomeStays
    <3>3. Filed(b, i) \subseteq FiledNext(b, i)
      BY FiledStays
    <3> QED BY <1>1, <3>1, <3>2, <3>3 DEF HomeNext
  <2>2. CASE lists[l] = {}
    BY <1>1, <2>2
  <2> QED BY <2>1, <2>2
<1>2. ASSUME NEW r \in Requests, req'[r] = req[r] \/ req'[r].at # "assign"
      PROVE  Mine(r)
  <2>1. CASE req'[r] = req[r] /\ req[r].at = "assign"
    <3>1. req[r].kept \subseteq Recent(Filed(req[r].of, req[r].identity), req[r].now)
      BY <2>1 DEF Listed, At
    <3> QED BY <2>1, <3>1, PastGrows
  <2> QED BY <1>2, <2>1
<1>3. ASSUME NEW r \in Requests, RateStep(r) PROVE Listed'
  <2>1. Quiet(r) /\ Details(r)
    BY <1>3, RateStepQuiet, StepDetails
  <2> DEFINE b == req[r].of
             i == req[r].identity
  <2>2. ASSUME NEW l \in Requests PROVE Own(l)
    <3>1. CASE req[r].at \in {"assign", "append"} /\ l = req[r].held
      <4>1. Home(l, b, i)
        BY <1>3, <3>1, FiledEntries
      <4>2. HomeNext(l, b, i)
        <5> HIDE DEF b, i
        <5> QED BY <4>1, HomeStays
      <4>3. lists[l] \subseteq FiledNext(b, i)
        BY <4>1, FiledStays DEF Listed, Home
      <4>4. req[r].at = "assign" => req[r].kept \subseteq FiledNext(b, i)
        BY <1>3, FiledEntries, FiledStays DEF Recent
      <4>5. req[r].at = "append" => r \in FiledNext(b, i)
        BY <1>3, FiledEntries
      <4>6. lists'[l] \subseteq FiledNext(b, i)
        BY <2>1, <3>1, <4>3, <4>4, <4>5 DEF Details
      <4> QED BY <4>2, <4>6 DEF HomeNext
    <3>2. CASE ~(req[r].at \in {"assign", "append"} /\ l = req[r].held)
      <4>1. lists'[l] \subseteq lists[l]
        BY <2>1, <3>2 DEF Details
      <4> QED BY <1>1, <4>1
    <3> QED BY <3>1, <3>2
  <2>3. Mine(r)
    <3>1. CASE req'[r].at = "assign"
      <4>1. /\ req[r].at = "filter" /\ req[r].held \in Requests
            /\ Home(req[r].held, b, i)
            /\ req'[r].kept \subseteq Recent(lists[req[r].held], req[r].now)
        BY <2>1, <3>1, ListTyped DEF Details, Housed, Handling
      <4>2. lists[req[r].held] \subseteq Filed(b, i)
        BY <4>1 DEF Listed, Home
      <4>3. req'[r].kept \subseteq Recent(Filed(b, i), req[r].now)
        BY <4>1, <4>2 DEF Recent
      <4>4. req'[r].of = b /\ req'[r].identity = i /\ req'[r].now = req[r].now
        BY <2>1 DEF Quiet, Same
      <4> QED BY <4>3, <4>4, PastGrows
    <3> QED BY <3>1
  <2>4. ASSUME NEW q \in Requests \ {r} PROVE Mine(q)
    <3>1. req'[q] = req[q]
      BY <2>1 DEF Quiet, Others
    <3> QED BY <1>2, <3>1
  <2> HIDE DEF Own, Mine
  <2> QED BY <1>f, <2>2, <2>3, <2>4
<1>4. ASSUME UNCHANGED lists, NEW r \in Requests, Others(r), req'[r].at # "assign"
      PROVE  Listed'
  <2>1. \A l \in Requests : Own(l)
    <3> HIDE DEF Own
    <3> QED BY <1>1, <1>4
  <2>2. \A q \in Requests : Mine(q)
    <3> HIDE DEF Mine
    <3> QED BY <1>2, <1>4 DEF Others
  <2> HIDE DEF Own, Mine
  <2> QED BY <1>f, <2>1, <2>2
<1>5. ASSUME NEW r \in Requests, NEW s \in Submissions, Enter(r, s[1], s[2])
      PROVE  Listed'
  BY <1>4, <1>5, EnterFacts DEF Entered
<1>6. ASSUME NEW r \in Requests,
             Validate(r) \/ Seen(r) \/ Prune(r) \/ AddNonce(r) \/ Apply(r) \/ ApplyRaises(r)
      PROVE  Listed'
  BY <1>4, <1>6, ValidateFacts, SeenFacts, PruneFacts, AddNonceFacts, ApplyFacts DEF Bound
<1>7. CASE Restart
  <2>1. /\ \A l \in Requests : lists'[l] = {}
        /\ \A r \in Requests : req'[r].at # "assign"
    BY <1>7, RestartFacts DEF InFlight, Answered
  <2> QED BY <2>1 DEF Listed, At
<1>8. CASE Tick \/ UNCHANGED vars
  <2>1. UNCHANGED <<lists, req>>
    BY <1>8 DEF Tick, vars
  <2>2. \A l \in Requests : Own(l)
    <3> HIDE DEF Own
    <3> QED BY <1>1, <2>1
  <2>3. \A q \in Requests : Mine(q)
    <3> HIDE DEF Mine
    <3> QED BY <1>2, <2>1
  <2> HIDE DEF Own, Mine
  <2> QED BY <1>f, <2>2, <2>3
<1> QED BY <1>3, <1>5, <1>6, <1>7, <1>8 DEF Next, RateStep

(* Who counts for a request, counts ever after: those it met stay who they *)
(* are.                                                                    *)
CountingNext(r, others) ==
  {q \in others \ {r} :
     /\ req'[q].identity = req'[r].identity
     /\ \E p \in {r} \cup {m \in met'[r] : req'[m].identity = req'[r].identity} :
          req'[p].now - req'[q].now < Period}

LEMMA PeersStay ==
  ASSUME TypeOK, Overlap, [Next]_vars, NEW r \in Requests, req[r].at # "idle"
  PROVE  /\ met[r] \subseteq met'[r]
         /\ \A p \in {r} \cup met[r] :
              req'[p].identity = req[p].identity /\ req'[p].now = req[p].now
<1>1. met[r] \subseteq met'[r]
  <2>1. ASSUME NEW p \in Requests, NEW s \in Submissions, Enter(p, s[1], s[2])
        PROVE  met[r] \subseteq met'[r]
    <3>1. Entered(p) /\ p # r /\ met[r] \subseteq Requests
      BY <2>1, EnterFacts DEF Entered, TypeOK
    <3> QED BY <3>1 DEF Entered
  <2>2. ASSUME NEW p \in Requests, RateStep(p) PROVE met' = met
    BY <2>2, RateStepQuiet DEF Quiet
  <2>3. ASSUME NEW p \in Requests,
               Validate(p) \/ Seen(p) \/ Prune(p) \/ AddNonce(p) \/ Apply(p) \/ ApplyRaises(p)
        PROVE  met' = met
    BY <2>3, ValidateFacts, SeenFacts, PruneFacts, AddNonceFacts, ApplyFacts
  <2>4. Restart \/ Tick \/ UNCHANGED vars => met' = met
    BY DEF Restart, Tick, vars
  <2> QED BY <2>1, <2>2, <2>3, <2>4 DEF Next, RateStep
<1>2. \A p \in {r} \cup met[r] : p \in Requests /\ req[p].at # "idle"
  BY DEF TypeOK, Overlap
<1>3. \A p \in Requests : Onward(p)
  BY NextOnward
<1> QED BY <1>1, <1>2, <1>3 DEF Onward, Same

LEMMA CountingGrows ==
  ASSUME TypeOK, Overlap, [Next]_vars, NEW r \in Requests, req[r].at # "idle"
  PROVE  /\ Counting(r, Refused) \subseteq CountingNext(r, Refused')
         /\ Counting(r, Admitted) \subseteq CountingNext(r, Admitted')
<1>1. ASSUME NEW S, NEW T, S \subseteq T, S \subseteq Requests,
             \A q \in S : req'[q].identity = req[q].identity /\ req'[q].now = req[q].now
      PROVE  Counting(r, S) \subseteq CountingNext(r, T)
  <2>1. ASSUME NEW q \in Counting(r, S) PROVE q \in CountingNext(r, T)
    <3>1. PICK p \in Peers(r) : req[p].now - req[q].now < Period
      BY <2>1 DEF Counting
    <3>2. p = r \/ (p \in met'[r] /\ req'[p].identity = req'[r].identity)
      BY <3>1, PeersStay DEF Peers
    <3>3. req'[p].now = req[p].now /\ req'[r].identity = req[r].identity
      BY <3>1, PeersStay DEF Peers
    <3>4. q \in T \ {r} /\ req'[q].identity = req[r].identity /\ req'[q].now = req[q].now
          /\ req[p].now - req[q].now < Period
      BY <1>1, <2>1, <3>1 DEF Counting
    <3> QED BY <3>2, <3>3, <3>4 DEF CountingNext
  <2> QED BY <2>1
<1>2. Refused \subseteq Requests /\ Admitted \subseteq Requests
  BY DEF Refused, Admitted
<1> QED BY <1>1, <1>2, FiledGrows

LEMMA SideGrows ==
  ASSUME TypeOK, Overlap, [Next]_vars, NEW r \in Requests, req[r].at # "idle"
  PROVE  Counting(r, Side(req[r].of)) \subseteq
           CountingNext(r, IF req[r].of = "failures" THEN Refused' ELSE Admitted')
BY CountingGrows DEF Side

(* A request counts neither among those that failed nor among those that   *)
(* were accepted as long as it counts them.                                *)
LEMMA NotYet ==
  ASSUME TypeOK, NEW r \in Requests, req[r].at \in {"assign", "test", "count"}
  PROVE  r \notin Side(req[r].of)
BY DEF Side, Refused, Admitted, At

(* What a peer filtered counts. *)
LEMMA PeersCount ==
  ASSUME TypeOK, NEW r \in Requests, req[r].at \in {"assign", "test", "count"},
         NEW p \in Peers(r)
  PROVE  Recent(Filed(req[r].of, req[r].identity), req[p].now)
           \subseteq Counting(r, Side(req[r].of))
BY NotYet DEF Recent, Filed, Counting

LEMMA WeighedStep ==
  TypeOK /\ Overlap /\ Housed /\ Listed /\ Weighed /\ [Next]_vars => Weighed'
<1> SUFFICES ASSUME TypeOK, Overlap, Housed, Listed, Weighed, [Next]_vars
             PROVE  Weighed'
  OBVIOUS
<1> DEFINE There(q) == CountingNext(q, IF req'[q].of = "failures" THEN Refused' ELSE Admitted')
           Sound(q) == req'[q].at \in {"test", "count"} =>
                         lists'[req'[q].held] \subseteq There(q)
<1>f. ASSUME \A q \in Requests : Sound(q) PROVE Weighed'
  BY <1>f DEF Weighed, Counting, CountingNext, Peers, Recent, Side
<1>g. ASSUME NEW q \in Requests, req[q].at # "idle", req'[q].of = req[q].of
      PROVE  Counting(q, Side(req[q].of)) \subseteq There(q)
  BY <1>g, SideGrows
<1>1. ASSUME NEW q \in Requests,
             req'[q].at \notin {"test", "count"} \/
               (req'[q] = req[q] /\ lists'[req[q].held] \subseteq lists[req[q].held])
      PROVE  Sound(q)
  <2>1. CASE req'[q] = req[q] /\ req[q].at \in {"test", "count"}
    <3>1. lists[req[q].held] \subseteq Counting(q, Side(req[q].of))
      BY <2>1 DEF Weighed
    <3>2. Counting(q, Side(req[q].of)) \subseteq There(q)
      BY <1>g, <2>1
    <3> QED BY <1>1, <2>1, <3>1, <3>2
  <2> QED BY <1>1, <2>1
<1>2. ASSUME NEW r \in Requests, RateStep(r) PROVE Weighed'
  <2>1. Quiet(r) /\ Details(r)
    BY <1>2, RateStepQuiet, StepDetails
  <2>2. Sound(r)
    <3>1. CASE req'[r].at \in {"test", "count"}
      <4>1. /\ req[r].at \in {"assign", "test"} /\ req'[r].held = req[r].held
            /\ req[r].held \in Requests
        BY <2>1, <3>1, ListTyped DEF Details, Handling
      <4>2. lists'[req[r].held] \subseteq Counting(r, Side(req[r].of))
        <5>1. CASE req'[r].at = "test"
          <6>1. req[r].at = "assign" /\ lists'[req[r].held] \subseteq req[r].kept
            BY <2>1, <5>1 DEF Details
          <6>2. req[r].kept \subseteq Recent(Filed(req[r].of, req[r].identity), req[r].now)
            BY <6>1 DEF Listed, At
          <6> QED BY <6>1, <6>2, PeersCount DEF Peers
        <5>2. CASE req'[r].at = "count"
          <6>1. req[r].at = "test" /\ lists'[req[r].held] \subseteq lists[req[r].held]
            BY <2>1, <4>1, <5>2 DEF Details
          <6> QED BY <6>1 DEF Weighed
        <5> QED BY <3>1, <5>1, <5>2
      <4>3. Counting(r, Side(req[r].of)) \subseteq There(r)
        BY <1>g, <2>1, <4>1 DEF Quiet, Same
      <4> QED BY <4>1, <4>2, <4>3
    <3> QED BY <3>1
  <2>3. ASSUME NEW q \in Requests \ {r} PROVE Sound(q)
    <3>1. req'[q] = req[q]
      BY <2>1 DEF Quiet, Others
    <3>2. CASE /\ req[q].at \in {"test", "count"} /\ req[r].at \in {"assign", "append"}
               /\ req[q].held = req[r].held
      <4> DEFINE b == req[q].of
                 i == req[q].identity
                 l == req[q].held
      <4>1. /\ l \in Requests /\ Home(l, b, i)
            /\ req[r].of = b /\ req[r].identity = i
        BY <3>2, ListTyped DEF Housed, Home, Handling
      <4>2. r \in met[q] /\ r \in Peers(q)
        <5>1. InFlight(q) /\ InFlight(r)
          BY <3>2 DEF InFlight, Answered
        <5> QED BY <4>1, <5>1 DEF Overlap, Peers
      <4>3. lists[l] \subseteq Counting(q, Side(b))
        BY <3>2 DEF Weighed
      <4>4. req[r].at = "assign" => req[r].kept \subseteq Counting(q, Side(b))
        <5>1. req[r].at = "assign" => req[r].kept \subseteq Recent(Filed(b, i), req[r].now)
          BY <1>2, <4>1, FiledEntries
        <5> QED BY <3>2, <4>2, <5>1, PeersCount
      <4>5. Counting(q, Side(b)) \subseteq There(q)
        BY <1>g, <3>1, <3>2
      <4>6. req[r].at = "append" => r \in There(q)
        <5>1. req[r].at = "append" => r \in FiledNext(b, i)
          BY <1>2, <4>1, FiledEntries
        <5>2. r \in met'[q] /\ req'[r].identity = i /\ req'[r].now = req[r].now
          BY <2>1, <4>1, <4>2 DEF Quiet, Same
        <5>3. req'[r].now - req'[r].now < Period
          BY <5>2, LimitsAssumption DEF TypeOK, Submission
        <5> QED BY <3>1, <5>1, <5>2, <5>3 DEF FiledNext, CountingNext
      <4>7. lists'[l] \subseteq There(q)
        <5>1. lists'[l] \subseteq lists[l]
                 \cup (IF req[r].at = "assign" THEN req[r].kept ELSE {})
                 \cup (IF req[r].at = "append" THEN {r} ELSE {})
          BY <2>1, <3>2, <4>1 DEF Details
        <5> HIDE DEF There, b, l
        <5> QED BY <4>3, <4>4, <4>5, <4>6, <5>1
      <4> QED BY <3>1, <4>7
    <3>3. CASE /\ req[q].at \in {"test", "count"}
               /\ ~(req[r].at \in {"assign", "append"} /\ req[q].held = req[r].held)
      <4>1. lists'[req[q].held] \subseteq lists[req[q].held]
        BY <2>1, <3>3, ListTyped DEF Details, Handling
      <4> HIDE DEF Sound
      <4> QED BY <1>1, <3>1, <4>1
    <3>4. CASE req[q].at \notin {"test", "count"}
      BY <3>1, <3>4
    <3> QED BY <3>2, <3>3, <3>4
  <2> HIDE DEF Sound
  <2> QED BY <1>f, <2>2, <2>3
<1>3. ASSUME UNCHANGED lists,
             \A q \in Requests : req'[q] = req[q] \/ req'[q].at \notin {"test", "count"}
      PROVE  Weighed'
  <2>1. \A q \in Requests : Sound(q)
    <3> HIDE DEF Sound
    <3> QED BY <1>1, <1>3
  <2> HIDE DEF Sound
  <2> QED BY <1>f, <2>1
<1>4. ASSUME NEW r \in Requests, NEW s \in Submissions, Enter(r, s[1], s[2])
      PROVE  Weighed'
  BY <1>3, <1>4, EnterFacts DEF Entered, Others
<1>5. ASSUME NEW r \in Requests,
             Validate(r) \/ Seen(r) \/ Prune(r) \/ AddNonce(r) \/ Apply(r) \/ ApplyRaises(r)
      PROVE  Weighed'
  <2>1. UNCHANGED lists /\ Others(r) /\ req'[r].at \notin {"test", "count"}
    BY <1>5, ValidateFacts, SeenFacts, PruneFacts, AddNonceFacts, ApplyFacts DEF Bound
  <2> QED BY <1>3, <2>1 DEF Others
<1>6. CASE Restart
  <2>1. \A r \in Requests : req'[r].at \notin {"test", "count"}
    BY <1>6, RestartFacts DEF InFlight, Answered
  <2> QED BY <2>1 DEF Weighed
<1>7. CASE Tick \/ UNCHANGED vars
  BY <1>3, <1>7 DEF Tick, vars
<1> QED BY <1>2, <1>4, <1>5, <1>6, <1>7 DEF Next, RateStep

(* A refusal that had its reason keeps it. *)
LEMMA EnoughGrow ==
  ASSUME NEW S, NEW T \in SUBSET Requests, S \subseteq T, NEW n \in Nat,
         Cardinality(S) >= n
  PROVE  Cardinality(T) >= n
<1>1. IsFiniteSet(T)
  BY SetsAssumption, FS_Subset
<1>2. Cardinality(S) \in Nat /\ Cardinality(T) \in Nat /\ Cardinality(S) <= Cardinality(T)
  BY <1>1, FS_Subset, FS_CardinalityType
<1> QED BY <1>2

LEMMA LimitedStep ==
  TypeOK /\ Overlap /\ Weighed /\ Limited /\ [Next]_vars => Limited'
<1> SUFFICES ASSUME TypeOK, Overlap, Weighed, Limited, [Next]_vars PROVE Limited'
  OBVIOUS
<1> DEFINE Met(r) ==
      /\ req'[r].at = "flooded" => Cardinality(CountingNext(r, Refused')) >= FailureMax
      /\ req'[r].at = "capped" => Cardinality(CountingNext(r, Admitted')) >= AcceptedMax
<1>f. ASSUME \A r \in Requests : Met(r) PROVE Limited'
  BY <1>f DEF Limited, Counting, CountingNext, Peers, Recent, At
<1>1. \A r \in Requests : /\ CountingNext(r, Refused') \in SUBSET Requests
                          /\ CountingNext(r, Admitted') \in SUBSET Requests
  BY DEF CountingNext, Refused, Admitted
<1>2. FailureMax \in Nat /\ AcceptedMax \in Nat
  BY LimitsAssumption
<1>3. ASSUME NEW r \in Requests,
             req'[r].at \notin {"flooded", "capped"} \/ req'[r].at = req[r].at
      PROVE  Met(r)
  <2>1. CASE req[r].at = "flooded"
    <3>1. Cardinality(Counting(r, Refused)) >= FailureMax
      BY <2>1 DEF Limited, At
    <3>2. Cardinality(CountingNext(r, Refused')) >= FailureMax
      BY <1>1, <1>2, <2>1, <3>1, CountingGrows, EnoughGrow
    <3> QED BY <1>3, <2>1, <3>2
  <2>2. CASE req[r].at = "capped"
    <3>1. Cardinality(Counting(r, Admitted)) >= AcceptedMax
      BY <2>2 DEF Limited, At
    <3>2. Cardinality(CountingNext(r, Admitted')) >= AcceptedMax
      BY <1>1, <1>2, <2>2, <3>1, CountingGrows, EnoughGrow
    <3> QED BY <1>3, <2>2, <3>2
  <2> QED BY <1>3, <2>1, <2>2
<1>4. ASSUME NEW r \in Requests, RateStep(r), NEW q \in Requests PROVE Met(q)
  <2>1. Quiet(r) /\ Details(r)
    BY <1>4, RateStepQuiet, StepDetails
  <2>2. CASE q # r
    <3>1. req'[q] = req[q]
      BY <2>1, <2>2 DEF Quiet, Others
    <3> HIDE DEF Met
    <3> QED BY <1>3, <3>1
  <2>3. CASE q = r /\ req'[r].at = "flooded"
    <3>1. /\ req[r].at = "count" /\ req[r].of = "failures"
          /\ Cardinality(lists[req[r].held]) >= FailureMax
      BY <2>1, <2>3 DEF Details
    <3>2. lists[req[r].held] \subseteq CountingNext(r, Refused')
      BY <3>1, CountingGrows DEF Weighed, Side
    <3> QED BY <1>1, <1>2, <2>3, <3>1, <3>2, EnoughGrow
  <2>4. CASE q = r /\ req'[r].at = "capped"
    <3>1. /\ req[r].at = "count" /\ req[r].of = "accepted"
          /\ Cardinality(lists[req[r].held]) >= AcceptedMax
      BY <2>1, <2>4 DEF Details
    <3>2. lists[req[r].held] \subseteq CountingNext(r, Admitted')
      BY <3>1, CountingGrows DEF Weighed, Side
    <3> QED BY <1>1, <1>2, <2>4, <3>1, <3>2, EnoughGrow
  <2> QED BY <2>2, <2>3, <2>4
<1>5. ASSUME NEW r \in Requests, NEW s \in Submissions, Enter(r, s[1], s[2]),
             NEW q \in Requests
      PROVE  Met(q)
  <2>1. req'[q].at \notin {"flooded", "capped"} \/ req'[q].at = req[q].at
    BY <1>5, EnterFacts DEF Entered, Others
  <2> HIDE DEF Met
  <2> QED BY <1>3, <2>1
<1>6. ASSUME NEW r \in Requests,
             Validate(r) \/ Seen(r) \/ Prune(r) \/ AddNonce(r) \/ Apply(r) \/ ApplyRaises(r),
             NEW q \in Requests
      PROVE  Met(q)
  <2>1. Bound(r) /\ req'[r].at \notin {"flooded", "capped"}
    BY <1>6, ValidateFacts, SeenFacts, PruneFacts, AddNonceFacts, ApplyFacts
  <2>2. req'[q].at \notin {"flooded", "capped"} \/ req'[q].at = req[q].at
    BY <2>1 DEF Bound, Others
  <2> HIDE DEF Met
  <2> QED BY <1>3, <2>2
<1>7. ASSUME Restart \/ Tick \/ UNCHANGED vars, NEW q \in Requests PROVE Met(q)
  <2>1. req'[q].at \notin {"flooded", "capped"} \/ req'[q].at = req[q].at
    BY <1>7, RestartFacts DEF Tick, vars
  <2> HIDE DEF Met
  <2> QED BY <1>3, <2>1
<1>8. ASSUME NEW q \in Requests PROVE Met(q)
  <2> HIDE DEF Met
  <2> QED BY <1>4, <1>5, <1>6, <1>7 DEF Next, RateStep
<1> QED BY <1>f, <1>8

LEMMA CausesInitially ==
  Init => Recognised /\ Disturbed /\ Housed /\ Listed /\ Weighed /\ Limited
<1> SUFFICES ASSUME Init
             PROVE  Recognised /\ Disturbed /\ Housed /\ Listed /\ Weighed /\ Limited
  OBVIOUS
<1>1. /\ \A r \in Requests : req[r].at = "idle"
      /\ \A l \in Requests : lists[l] = {}
      /\ \A b \in Buckets, i \in Identities : bucket[b][i] = NoList
      /\ nonces = {}
  BY DEF Init, NoRequest
<1> QED BY <1>1 DEF Recognised, Disturbed, Housed, Listed, Weighed, Limited, At, Handling

LEMMA Causes ==
  Spec => [](Recognised /\ Disturbed /\ Housed /\ Listed /\ Weighed /\ Limited)
<1>1. IInv => TypeOK /\ Verified /\ Overlap
  BY DEF IInv
<1> QED
  BY <1>1, Invariance, CausesInitially, RecognisedStep, DisturbedStep, HousedStep,
     ListedStep, WeighedStep, LimitedStep, PTL DEF Spec

(* Nobody else's submissions turn an identity's away: a genuine, fresh     *)
(* assertion is rejected only if the identity presented it before, a       *)
(* submission is refused for the limits only after that many of the        *)
(* identity's own within the period of its own request or of one that      *)
(* overlapped with it, and the dictionaries raise a KeyError only at a     *)
(* request that met another.                                               *)
THEOREM RefusalsHaveCause == Spec => []RefusedForCause
<1>1. IInv /\ Recognised /\ Disturbed /\ Housed /\ Listed /\ Weighed /\ Limited
      => RefusedForCause
  <2> SUFFICES ASSUME IInv, Recognised, Disturbed, Limited PROVE RefusedForCause
    OBVIOUS
  <2>1. ASSUME NEW r \in Requests, At(r, "rejected"), Genuine(r)
        PROVE  \E q \in Requests \ {r} :
                 req[q].token = req[r].token /\ req[q].identity = req[r].identity
    <3>1. req[r].of = "failures" /\ Consumed(req[r].token)
      BY <2>1 DEF Recognised, At
    <3>2. PICK q \in Requests : req[q].of = "accepted" /\ req[q].token = req[r].token
      BY <3>1 DEF Consumed
    <3>3. q # r /\ BoundTo[req[q].token] = req[q].identity
      BY <3>1, <3>2 DEF IInv, Verified
    <3> QED BY <2>1, <3>2, <3>3 DEF Genuine
  <2> QED BY <2>1 DEF Disturbed, Limited, RefusedForCause, Genuine
<1> QED BY <1>1, Invariance, Causes, PTL
=============================================================================
