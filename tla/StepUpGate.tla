----------------------------- MODULE StepUpGate -----------------------------
(***************************************************************************)
(* POST /v1/stepup: what stands between a signed outcome of the trusted    *)
(* verifier and the engine that raises or lowers trust.  Every request has *)
(* its own thread; the nonce cache and the two rate buckets are plain      *)
(* dictionaries of the process, shared without a lock and gone after a     *)
(* restart.  One step is one access to what the threads share.             *)
(*                                                                         *)
(* A bucket keeps a list of times per identity; an entry is modelled by    *)
(* the request that made it, and its order, which nothing looks at, is     *)
(* left out.  Threads share a list while they hold it, also after          *)
(* _rate_count has taken it out of the bucket: a list is named by the      *)
(* request that made it, which makes no other.                             *)
(***************************************************************************)
EXTENDS Integers, FiniteSets

CONSTANTS
  Requests,     \* submissions, each in its own thread
  NoList,       \* None
  Identities,
  Assertions,   \* assertions the verifier signed; each has its own nonce
  BoundTo,      \* the identity an assertion is about
  IssuedAt,     \* its issued_at, by the verifier's clock
  Garbage,      \* anything that open_token does not accept
  Submissions,  \* <<token, identity>>: what is submitted
  Ttl,          \* ttl_seconds, in ticks
  MaxSkew,      \* max_skew, in ticks
  Period,       \* STEPUP_WINDOW_SECONDS, in ticks
  AcceptedMax,  \* STEPUP_ACCEPTED_MAX
  FailureMax,   \* STEPUP_FAILURE_MAX
  MaxTime,      \* bound: the clock
  MaxRestarts   \* bound: restarts of the process

ASSUME AssertionsAssumption ==
  /\ BoundTo \in [Assertions -> Identities]
  /\ IssuedAt \in [Assertions -> Nat]
  /\ Garbage \notin Assertions
  /\ Submissions \subseteq (Assertions \cup {Garbage}) \X Identities
ASSUME SetsAssumption ==
  Identities # {} /\ IsFiniteSet(Requests) /\ NoList \notin Requests
ASSUME LimitsAssumption ==
  /\ {Ttl, MaxSkew, MaxTime, MaxRestarts} \subseteq Nat
  /\ {Period, AcceptedMax, FailureMax} \subseteq Nat \ {0}

Buckets == {"failures", "accepted"}

VARIABLES
  time,
  nonces,    \* the nonce cache: the assertions consumed and not yet pruned
  bucket,    \* the rate buckets: the list of an identity, if it has one
  lists,     \* lists[l]: the entries of the list that request l made
  restarts,
  req,       \* what each thread has in hand
  met        \* ghost: the requests a request overlapped with

vars == <<time, nonces, bucket, lists, restarts, req, met>>

NoRequest ==
  [at |-> "idle", token |-> Garbage, identity |-> CHOOSE i \in Identities : TRUE,
   now |-> 0,          \* the time step_up_outcome read
   fresh |-> FALSE,    \* ghost: the token was fresh when validate looked
   expired |-> FALSE,  \* ghost: it had expired when seen looked it up
   stale |-> {},       \* the nonces it is about to prune
   of |-> "failures",  \* the bucket it is at, or is through with
   held |-> NoList, kept |-> {},
   applied |-> FALSE, epoch |-> 0]

Answered == {"ok", "rejected", "flooded", "capped", "crashed", "error"}
InFlight(r) == req[r].at \notin Answered \cup {"idle", "killed"}

Init ==
  /\ time = 0
  /\ nonces = {}
  /\ bucket = [b \in Buckets |-> [i \in Identities |-> NoList]]
  /\ lists = [l \in Requests |-> {}]
  /\ restarts = 0
  /\ req = [r \in Requests |-> NoRequest]
  /\ met = [r \in Requests |-> {}]

Exp(a) == IssuedAt[a] + Ttl

At(r, step) == req[r].at = step
(* A thread keeps a list, and what it filtered from it, as long as it      *)
(* works on it.                                                            *)
Handling == {"filter", "assign", "test", "count", "append"}
Set(r, new) ==
  req' = [req EXCEPT ![r] =
    [new EXCEPT !.held = IF new.at \in Handling THEN @ ELSE NoList,
                !.kept = IF new.at = "assign" THEN @ ELSE {}]]
Goto(r, step) == Set(r, [req[r] EXCEPT !.at = step])
ListOf(r) == bucket[req[r].of][req[r].identity]
PutList(r, l) == bucket' = [bucket EXCEPT ![req[r].of][req[r].identity] = l]

Enter(r, token, identity) ==
  LET others == {q \in Requests : InFlight(q)}
  IN  /\ At(r, "idle")
      /\ Set(r, [NoRequest EXCEPT !.at = "get", !.token = token, !.now = time,
                                  !.identity = identity, !.epoch = restarts])
      /\ met' = [q \in Requests |-> IF q = r THEN others
                                    ELSE IF q \in others THEN met[q] \cup {r}
                                    ELSE met[q]]
      /\ UNCHANGED <<time, nonces, bucket, lists, restarts>>

-----------------------------------------------------------------------------
(* _rate_count, on the failures first, on the accepted ones later. *)

(* Variant: an entry is as old as the period and still counts. *)
RecentLong(entries, now) == {q \in entries : now - req[q].now <= Period}

Recent(entries, now) == {q \in entries : now - req[q].now < Period}

(* Where a count of n leads. *)
Counted(r, n) ==
  IF req[r].of = "failures"
  THEN IF n >= FailureMax THEN "flooded" ELSE "validate"
  ELSE IF n >= AcceptedMax THEN "capped" ELSE "hold"

RateGet(r) ==
  /\ At(r, "get")
  /\ Set(r, [req[r] EXCEPT !.held = ListOf(r),
                           !.at = IF ListOf(r) = NoList THEN Counted(r, 0) ELSE "filter"])
  /\ UNCHANGED <<time, nonces, bucket, lists, restarts, met>>

RateFilter(r) ==
  /\ At(r, "filter")
  /\ Set(r, [req[r] EXCEPT !.at = "assign",
                           !.kept = Recent(lists[req[r].held], req[r].now)])
  /\ UNCHANGED <<time, nonces, bucket, lists, restarts, met>>

(* q[:] = ... *)
RateAssign(r) ==
  /\ At(r, "assign")
  /\ lists' = [lists EXCEPT ![req[r].held] = req[r].kept]
  /\ Goto(r, "test")
  /\ UNCHANGED <<time, nonces, bucket, restarts, met>>

(* if not q: the list as it is by now *)
RateTest(r) ==
  /\ At(r, "test")
  /\ Goto(r, IF lists[req[r].held] = {} THEN "delete" ELSE "count")
  /\ UNCHANGED <<time, nonces, bucket, lists, restarts, met>>

(* return len(q): the list as it is by now *)
RateCount(r) ==
  /\ At(r, "count")
  /\ Goto(r, Counted(r, Cardinality(lists[req[r].held])))
  /\ UNCHANGED <<time, nonces, bucket, lists, restarts, met>>

(* del bucket[identity_id]: whatever list is there by now, a KeyError if none *)
RateDelete(r) ==
  /\ At(r, "delete")
  /\ PutList(r, NoList)
  /\ Goto(r, IF ListOf(r) = NoList THEN "crashed" ELSE Counted(r, 0))
  /\ UNCHANGED <<time, nonces, lists, restarts, met>>

(* setdefault(identity_id, []) *)
Hold(r) ==
  LET list == IF ListOf(r) = NoList THEN r ELSE ListOf(r)
  IN  /\ At(r, "hold")
      /\ PutList(r, list)
      /\ lists' = [lists EXCEPT ![r] = {}]
      /\ Set(r, [req[r] EXCEPT !.at = "append", !.held = list])
      /\ UNCHANGED <<time, nonces, restarts, met>>

(* .append(now); a rejection is then recorded in the audit log and answered *)
AppendTime(r) ==
  /\ At(r, "append")
  /\ lists' = [lists EXCEPT ![req[r].held] = @ \cup {r}]
  /\ Goto(r, IF req[r].of = "accepted" THEN "apply" ELSE "rejected")
  /\ UNCHANGED <<time, nonces, bucket, restarts, met>>

-----------------------------------------------------------------------------
(* AssertionValidator.validate *)

Fresh(a, now) == now <= Exp(a) /\ IssuedAt[a] <= now + MaxSkew

Verifiable(token, now) == token \in Assertions /\ Fresh(token, now)

(* Variant: the assertion is not bound to an identity. *)
ValidateUnbound(r) ==
  LET token == req[r].token
  IN  /\ At(r, "validate")
      /\ Set(r, [req[r] EXCEPT !.fresh = Verifiable(token, time),
           !.at = IF Verifiable(token, time) THEN "seen" ELSE "hold"])
      /\ UNCHANGED <<time, nonces, bucket, lists, restarts, met>>

(* Signature, identity, freshness. *)
Validate(r) ==
  LET token == req[r].token
  IN  /\ At(r, "validate")
      /\ Set(r, [req[r] EXCEPT !.fresh = Verifiable(token, time),
           !.at = IF Verifiable(token, time) /\ BoundTo[token] = req[r].identity
                  THEN "seen" ELSE "hold"])
      /\ UNCHANGED <<time, nonces, bucket, lists, restarts, met>>

(* Variant: a nonce is pruned in the last instant of its assertion's life. *)
StaleEarly == {a \in nonces : Exp(a) <= time}

Stale == {a \in nonces : Exp(a) < time}

Found(r) == IF req[r].token \in nonces' THEN "hold" ELSE "add"

(* seen: list what is stale by a clock of its own, delete it, look. *)
Seen(r) ==
  /\ At(r, "seen")
  /\ UNCHANGED nonces
  /\ Set(r, [req[r] EXCEPT !.expired = Exp(req[r].token) < time, !.stale = Stale,
                           !.at = IF Stale = {} THEN Found(r) ELSE "prune"])
  /\ UNCHANGED <<time, bucket, lists, restarts, met>>

(* del raises a KeyError for a nonce another thread pruned meanwhile. *)
Prune(r) ==
  /\ At(r, "prune")
  /\ nonces' = nonces \ req[r].stale
  /\ Set(r, [req[r] EXCEPT !.expired = @ \/ Exp(req[r].token) < time, !.stale = {},
               !.at = IF req[r].stale \subseteq nonces THEN Found(r) ELSE "crashed"])
  /\ UNCHANGED <<time, bucket, lists, restarts, met>>

(* add, and on to the accepted ones *)
AddNonce(r) ==
  /\ At(r, "add")
  /\ nonces' = nonces \cup {req[r].token}
  /\ Set(r, [req[r] EXCEPT !.at = "get", !.of = "accepted"])
  /\ UNCHANGED <<time, bucket, lists, restarts, met>>

-----------------------------------------------------------------------------
(* engine.apply_verified_step_up (the new score is that of TrustEngine),   *)
(* audit.append, the answer.                                               *)
Apply(r) ==
  /\ At(r, "apply")
  /\ Set(r, [req[r] EXCEPT !.at = "ok", !.applied = TRUE])
  /\ UNCHANGED <<time, nonces, bucket, lists, restarts, met>>

(* The engine's store raises, before the write or after it (StateStore):   *)
(* the assertion is spent, the outcome applied or not, nothing recorded.   *)
ApplyRaises(r) ==
  /\ At(r, "apply")
  /\ \E written \in BOOLEAN :
       Set(r, [req[r] EXCEPT !.at = "error", !.applied = written])
  /\ UNCHANGED <<time, nonces, bucket, lists, restarts, met>>

(* The process ends and starts again: threads and caches are gone, the     *)
(* engine's store (Redis) is not.                                          *)
Restart ==
  /\ restarts < MaxRestarts
  /\ restarts' = restarts + 1
  /\ nonces' = {}
  /\ bucket' = [b \in Buckets |-> [i \in Identities |-> NoList]]
  /\ lists' = [l \in Requests |-> {}]
  /\ req' = [r \in Requests |->
       IF InFlight(r) THEN [req[r] EXCEPT !.at = "killed", !.held = NoList, !.kept = {}]
       ELSE req[r]]
  /\ UNCHANGED <<time, met>>

Tick ==
  /\ time < MaxTime
  /\ time' = time + 1
  /\ UNCHANGED <<nonces, bucket, lists, restarts, req, met>>

Next ==
  \/ \E r \in Requests :
       \/ \E s \in Submissions : Enter(r, s[1], s[2])
       \/ RateGet(r) \/ RateFilter(r) \/ RateAssign(r) \/ RateTest(r)
       \/ RateCount(r) \/ RateDelete(r) \/ Hold(r) \/ AppendTime(r)
       \/ Validate(r) \/ Seen(r) \/ Prune(r) \/ AddNonce(r)
       \/ Apply(r) \/ ApplyRaises(r)
  \/ Restart
  \/ Tick

Spec == Init /\ [][Next]_vars

-----------------------------------------------------------------------------
(* Trust moves only on a signed outcome about that very identity that was  *)
(* fresh when it was checked.                                              *)
OnlyVerifiedOutcomes ==
  \A r \in Requests : req[r].applied =>
    /\ req[r].token \in Assertions /\ req[r].fresh
    /\ BoundTo[req[r].token] = req[r].identity

(* verifier.py:304 "anti-replay (single use)": one assertion is applied    *)
(* twice only if two submissions of it overlapped (seen and add are two    *)
(* calls), if it expired between its freshness check and the look into the *)
(* cache (which prunes it by a later clock), or across a restart.          *)
SingleUseUnlessRaced ==
  \A r, q \in Requests :
    r # q /\ req[r].applied /\ req[q].applied /\ req[r].token = req[q].token =>
      \/ q \in met[r]
      \/ req[r].epoch # req[q].epoch
      \/ req[r].expired \/ req[q].expired

(* Nobody else's submissions turn an identity's away: a genuine, fresh     *)
(* assertion is rejected only if the identity presented it before, and a   *)
(* KeyError of the dictionaries takes another request at work on them.  An *)
(* identity is refused unread only after that many failures of its own,    *)
(* unapplied only after that many acceptances, within the period; of its   *)
(* own request, or of one that overlapped with it, which puts back what it *)
(* filtered by an earlier clock (main.py:85-89).                           *)
Refused == {q \in Requests : At(q, "rejected")}
Admitted == {q \in Requests : /\ req[q].of = "accepted"
                             /\ req[q].at \in {"apply", "ok", "error", "killed"}}

Peers(r) == {r} \cup {p \in met[r] : req[p].identity = req[r].identity}

Counting(r, others) ==
  {q \in others \ {r} : /\ req[q].identity = req[r].identity
                        /\ \E p \in Peers(r) : req[p].now - req[q].now < Period}

RefusedForCause ==
  \A r \in Requests :
    /\ (/\ At(r, "rejected") /\ req[r].fresh
        /\ BoundTo[req[r].token] = req[r].identity)
       => \E q \in Requests \ {r} :
            req[q].token = req[r].token /\ req[q].identity = req[r].identity
    /\ At(r, "flooded") => Cardinality(Counting(r, Refused)) >= FailureMax
    /\ At(r, "capped") => Cardinality(Counting(r, Admitted)) >= AcceptedMax
    /\ At(r, "crashed") => met[r] # {}
=============================================================================
