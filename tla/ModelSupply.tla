---------------------------- MODULE ModelSupply ----------------------------
(***************************************************************************)
(* How a model gets into the model directory, and a serving process up on  *)
(* it.                                                                     *)
(*                                                                         *)
(* export_models writes the artifact and then a card with the digest of    *)
(* the artifact.  A serving process reads its settings, the card and the   *)
(* artifact twice, once for its digest and once to load it.  Nobody locks  *)
(* the directory, and an export can end at any point.                      *)
(*                                                                         *)
(* The content of a file is what wrote it; Torn is a part of a content.    *)
(* Digests do not collide, so a content is its own digest.                 *)
(***************************************************************************)
EXTENDS Naturals, FiniteSets

CONSTANTS
  Exports,      \* runs of export_models.py
  SchemaOf,     \* the feature names an export was built with
  Schema,       \* the serving schema
  Pods,         \* serving processes, and scripts that load the serving model
  Envs,         \* the environments they are started in
  HasEd25519,   \* whether the cryptography package is installed
  Nothing

ASSUME SupplyAssumption ==
  HasEd25519 \in BOOLEAN /\ SchemaOf \in [Exports -> STRING]

Torn == "torn"
Synthetic == "DEMO_SYNTHETIC"

ASSUME ExportsAssumption == Exports \cap {Torn, Synthetic, Nothing} = {}

VARIABLES
  artifact, card,   \* the model directory
  export,           \* export[x]: where the run is, the digest it took
  pod,              \* pod[p]: where the start is, and what it has read
  tangled,          \* ghost: exports that overlapped another
  rewritten,        \* ghost: pods that had the artifact written between their two reads
  met               \* ghost: pods that started while an export was under way

directory == <<artifact, card, export, tangled>>
ghosts == <<rewritten, met>>
supply == <<directory, pod, ghosts>>

NoCard == [of |-> Nothing, digest |-> Nothing]
TornCard == [of |-> Torn, digest |-> Torn]
NewPod == [at |-> "down", env |-> Nothing, card |-> NoCard, digest |-> Nothing, model |-> Nothing]

Init ==
  /\ artifact = Nothing /\ card = NoCard
  /\ export = [x \in Exports |-> [at |-> "new", digest |-> Nothing]]
  /\ pod = [p \in Pods |-> NewPod]
  /\ tangled = {} /\ rewritten = {} /\ met = {}

-----------------------------------------------------------------------------
(* export_models.export, which ends in save_artifact *)

Busy == {x \in Exports : export[x].at \notin {"new", "done", "killed"}}

ExportTo(x, from, to) ==
  /\ export[x].at = from
  /\ export' = [export EXCEPT ![x].at = to]
  /\ UNCHANGED pod

Writing ==
  /\ rewritten' = rewritten \cup {p \in Pods : pod[p].at = "load"}
  /\ met' = met \cup {p \in Pods : pod[p].at \notin {"down", "up"}}

(* joblib.dump: open, then write.  Of two that write at once either may    *)
(* end up in the file, or neither.                                         *)
Open(x) ==
  /\ ExportTo(x, "new", "dump")
  /\ artifact' = Torn
  /\ tangled' = IF Busy = {} THEN tangled ELSE tangled \cup Busy \cup {x}
  /\ Writing /\ UNCHANGED card

Dump(x) ==
  /\ ExportTo(x, "dump", "digest")
  /\ artifact' \in IF x \in tangled THEN {x, Torn} ELSE {x}
  /\ Writing /\ UNCHANGED <<card, tangled>>

Digest(x) ==
  /\ export[x].at = "digest"
  /\ export' = [export EXCEPT ![x] = [at |-> "card", digest |-> artifact]]
  /\ UNCHANGED <<pod, artifact, card, tangled, ghosts>>

OpenCard(x) ==
  /\ ExportTo(x, "card", "write card")
  /\ card' = TornCard
  /\ UNCHANGED <<artifact, tangled, ghosts>>

WriteCard(x) ==
  /\ ExportTo(x, "write card", "done")
  /\ card' = [of |-> x, digest |-> export[x].digest]
  /\ UNCHANGED <<artifact, tangled, ghosts>>

Kill(x) ==
  /\ x \in Busy
  /\ export' = [export EXCEPT ![x].at = "killed"]
  /\ UNCHANGED <<pod, artifact, card, tangled, ghosts>>

Export == \E x \in Exports :
  Open(x) \/ Dump(x) \/ Digest(x) \/ OpenCard(x) \/ WriteCard(x) \/ Kill(x)

-----------------------------------------------------------------------------
(* Settings.from_env.  A variable is unset, empty, good, or bad: a key     *)
(* that is no Ed25519 key, scopes that do not parse, a wildcard origin.    *)

PublicKeys == {"PRAMAAN_STEPUP_PUBKEY", "PRAMAAN_ATTEST_PUBKEY", "PRAMAAN_BEHAVIOR_PUBKEY"}
REQUIRED_PROD == PublicKeys \cup
  {"PRAMAAN_EDGE_SECRET", "PRAMAAN_AUDIT_KEY", "PRAMAAN_API_KEYS", "PRAMAAN_CORS_ORIGINS"}

ASSUME EnvsAssumption ==
  \A env \in Envs : \A v \in REQUIRED_PROD : env.vars[v] \in {"unset", "empty", "good", "bad"}

Given(env, v) == env.vars[v] \notin {"unset", "empty"}

(* What demo mode fills in: setdefault keeps an empty value, the public    *)
(* keys are generated for one.                                             *)
Value(env, v) ==
  IF env.mode = "demo_synthetic" /\ (env.vars[v] = "unset" \/ (v \in PublicKeys /\ ~Given(env, v)))
  THEN "good" ELSE env.vars[v]

(* Variant: malformed keys are left to build_verifier. *)
RaisesKeysUnchecked(env) ==
  \/ env.mode \notin {"prod", "demo_synthetic"}
  \/ env.mode = "prod" /\ \E v \in REQUIRED_PROD : ~Given(env, v)
  \/ Value(env, "PRAMAAN_API_KEYS") \in {"bad", "empty"}
  \/ Value(env, "PRAMAAN_CORS_ORIGINS") = "bad"

Raises(env) ==
  \/ env.mode \notin {"prod", "demo_synthetic"}
  \/ env.mode = "prod" /\ \E v \in REQUIRED_PROD : ~Given(env, v)
  \/ ~HasEd25519 /\ env.mode = "demo_synthetic" /\ \E v \in PublicKeys : ~Given(env, v)
  \/ Value(env, "PRAMAAN_API_KEYS") \in {"bad", "empty"}
  \/ Value(env, "PRAMAAN_CORS_ORIGINS") = "bad"
  \/ HasEd25519 /\ \E v \in PublicKeys : Value(env, v) = "bad"

(* verifier.build_verifier *)
VerifierOf(env, v) ==
  IF HasEd25519 /\ Value(env, v) = "good" THEN "ed25519" ELSE "hmac-sha256"

-----------------------------------------------------------------------------
(* A serving process starts: Settings.from_env, load_serving_model, and    *)
(* the verifiers of the resolver and of the step-up validator.             *)

PodSet(p, state) == pod' = [pod EXCEPT ![p] = state] /\ UNCHANGED directory

Fail(p) == PodSet(p, NewPod) /\ UNCHANGED ghosts

Start(p) ==
  \E env \in Envs :
    /\ pod[p].at \in {"down", "up"}
    /\ rewritten' = rewritten \ {p}
    /\ met' = IF Busy = {} THEN met \ {p} ELSE met \cup {p}
    /\ IF Raises(env) THEN PodSet(p, NewPod)
       ELSE PodSet(p, [NewPod EXCEPT !.env = env,
              !.model = IF env.mode = "demo_synthetic" THEN Synthetic ELSE Nothing,
              !.at = IF env.mode = "demo_synthetic" THEN "up" ELSE "exists"])

Exists(p) ==
  /\ pod[p].at = "exists"
  /\ IF artifact = Nothing \/ card = NoCard THEN Fail(p)
     ELSE PodSet(p, [pod[p] EXCEPT !.at = "card"]) /\ UNCHANGED ghosts

ReadCard(p) ==
  /\ pod[p].at = "card"
  /\ IF card = TornCard THEN Fail(p)
     ELSE PodSet(p, [pod[p] EXCEPT !.at = "digest", !.card = card]) /\ UNCHANGED ghosts

(* Variant: without a pin everything passes. *)
PassesOnlyPin(p, digest) == pod[p].env.pin = Nothing \/ digest = pod[p].env.pin

Passes(p, digest) ==
  IF pod[p].env.pin # Nothing THEN digest = pod[p].env.pin ELSE pod[p].card.digest = digest

ReadDigest(p) ==
  /\ pod[p].at = "digest"
  /\ IF ~Passes(p, artifact) THEN Fail(p)
     ELSE PodSet(p, [pod[p] EXCEPT !.at = "load", !.digest = artifact]) /\ UNCHANGED ghosts

(* joblib.load reads the file again; the bundle names its features. *)
Load(p) ==
  /\ pod[p].at = "load"
  /\ IF artifact \notin Exports \/ SchemaOf[artifact] # Schema THEN Fail(p)
     ELSE PodSet(p, [pod[p] EXCEPT !.at = "up", !.model = artifact]) /\ UNCHANGED ghosts

Serve == \E p \in Pods : Start(p) \/ Exists(p) \/ ReadCard(p) \/ ReadDigest(p) \/ Load(p)

Next == Export \/ Serve

Spec == Init /\ [][Next]_supply

-----------------------------------------------------------------------------
Up(p) == pod[p].at = "up"

(* model_loader.py:114 "Integrity gate BEFORE deserializing": the model a  *)
(* process serves is the one the pin names, or without a pin its card's    *)
(* digest, unless the artifact was written between the two reads of it.    *)
(* And the card, whose provenance goes into every answer, is that model's, *)
(* unless an export was under way, or had overlapped another; or one had   *)
(* been killed, and there is a pin, which the card is not compared with.   *)
ServedAsDescribed ==
  \A p \in Pods : Up(p) /\ pod[p].model # Synthetic =>
    LET named == IF pod[p].env.pin = Nothing THEN pod[p].card.digest ELSE pod[p].env.pin
    IN  /\ pod[p].model = named \/ p \in rewritten
        /\ \/ pod[p].card.of = pod[p].model \/ p \in met \/ tangled # {}
           \/ pod[p].env.pin # Nothing /\ \E x \in Exports : export[x].at = "killed"

(* config.py:109 "must fail loud, not silently downgrade": whatever it is  *)
(* started with, a process that serves in prod has every secret from its   *)
(* environment and a real model of its own schema, only demo mode serves   *)
(* the synthetic one, and no verifier is the symmetric fallback where      *)
(* Ed25519 is there.                                                       *)
ServesAsConfigured ==
  \A p \in Pods : Up(p) =>
    LET env == pod[p].env
    IN  /\ pod[p].model = Synthetic <=> env.mode = "demo_synthetic"
        /\ env.mode = "prod" => /\ \A v \in REQUIRED_PROD : Given(env, v)
                                /\ SchemaOf[pod[p].model] = Schema
        /\ HasEd25519 => \A v \in PublicKeys : VerifierOf(env, v) = "ed25519"
=============================================================================
