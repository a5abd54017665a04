---------------------------- MODULE Offline_proofs ----------------------------
(***************************************************************************)
(* What the scripts beside the service leave behind, and what it explains: *)
(* what a download has fetched (Download), what a serving process is up on *)
(* (ModelSupply), that suspicion is explained whatever the history of an   *)
(* identity and a release changes little for one user (CohortExport), that *)
(* no script learns from the rows held back (Training), and that what is   *)
(* reported is the best of its table and true of the population            *)
(* (Evaluation).  For any number of exports, processes, restarts,          *)
(* environments, data sets, events, logins and rows.                       *)
(***************************************************************************)
EXTENDS Download, ModelSupply, CohortExport, Training, Evaluation, Sums, TLAPS

(***************************************************************************)
(* The download.  Wherever it is, what counts has been checked already: a  *)
(* pinned file that was verified is whole, and stays as it is until the    *)
(* script starts again.                                                    *)
(***************************************************************************)
Fetches == {"new", "read", "rename", "verify", "verified", "unpack", "done", "mismatch", "raised"}

Checked ==
  /\ fetch \in Fetches
  /\ fetch \in {"verified", "unpack"} /\ spec.pinned => raw = "whole"
  /\ FetchedWhole

(* download_data.py:get_one: a download of a pinned data set that ends     *)
(* well has left nothing, or the whole file and all of it unpacked.        *)
THEOREM DownloadsWhole == FetchSpec => []FetchedWhole
<1>1. FetchInit => Checked
  BY DEF FetchInit, Checked, FetchedWhole, Fetches, Absent
<1>2. Checked /\ [Fetch]_dataset => Checked'
  <2> SUFFICES ASSUME Checked, [Fetch]_dataset PROVE Checked'
    OBVIOUS
  <2> USE DEF Checked, FetchedWhole, Fetches, FetchTo, Absent, Partial
  <2>1. CASE Present
    BY <2>1 DEF Present
  <2>2. CASE Request
    BY <2>2 DEF Request
  <2>3. CASE Received
    BY <2>3 DEF Received
  <2>4. CASE Rename
    BY <2>4 DEF Rename
  <2>5. CASE FetchKaggle
    BY <2>5 DEF FetchKaggle
  <2>6. CASE Verify
    BY <2>6 DEF Verify
  <2>7. CASE Unpack
    BY <2>7 DEF Unpack
  <2>8. CASE Unpacked
    BY <2>8 DEF Unpacked
  <2>9. CASE FetchAgain
    BY <2>9 DEF FetchAgain
  <2>10. CASE UNCHANGED dataset
    BY <2>10 DEF dataset
  <2> QED
    BY <2>1, <2>2, <2>3, <2>4, <2>5, <2>6, <2>7, <2>8, <2>9, <2>10 DEF Fetch
<1>3. Checked => FetchedWhole
  BY DEF Checked
<1> QED
  BY <1>1, <1>2, <1>3, PTL DEF FetchSpec

(***************************************************************************)
(* The model directory and the processes                                   *)
(***************************************************************************)
FileContents == Exports \cup {Torn, Nothing}
Cards == [of : FileContents, digest : FileContents]
Working == {"dump", "digest", "card", "write card"}
Starting == {"exists", "card", "digest", "load"}

Processes ==
  [at : Starting \cup {"down", "up"}, env : Envs \cup {Nothing}, card : Cards,
   digest : FileContents, model : FileContents \cup {Synthetic}]

SupplyTypes ==
  /\ artifact \in FileContents /\ card \in Cards
  /\ export \in [Exports -> [at : Working \cup {"new", "done", "killed"}, digest : FileContents]]
  /\ pod \in [Pods -> Processes]
  /\ tangled \in SUBSET Exports /\ rewritten \in SUBSET Pods /\ met \in SUBSET Pods

(* Exports that keep apart: one works at a time, and what it has written   *)
(* is still there.                                                         *)
KeptApart ==
  tangled = {} =>
    /\ \A x, y \in Exports : export[x].at \in Working /\ export[y].at \in Working => x = y
    /\ \A x \in Exports :
         /\ export[x].at \in {"digest", "card", "write card"} => artifact = x
         /\ export[x].at \in {"card", "write card"} => export[x].digest = x
    /\ card.of = card.digest

(* Between exports that all ended, the card is the artifact's. *)
CardOfArtifact ==
  tangled = {} /\ (\A x \in Exports : export[x].at \notin Working \cup {"killed"}) =>
    card.of = artifact

(* What a process that starts has read and checked so far.                 *)
Read(p) ==
  LET at == pod[p].at
  IN  /\ at # "down" => pod[p].env \in Envs /\ ~Raises(pod[p].env)
      /\ at \in Starting => pod[p].env.mode # "demo_synthetic"
      /\ p \in rewritten => p \in met
      /\ at \in Starting /\ p \notin met =>
           /\ \A x \in Exports : export[x].at \notin Working
           /\ at \in {"digest", "load"} => pod[p].card = card
      /\ at \in {"digest", "load"} /\ tangled = {} => pod[p].card.of = pod[p].card.digest
      /\ at = "load" => Passes(p, pod[p].digest) /\ (p \notin rewritten => pod[p].digest = artifact)

(* What a process that is up is known by. *)
Serving(p) ==
  pod[p].at = "up" =>
    /\ pod[p].model = Synthetic <=> pod[p].env.mode = "demo_synthetic"
    /\ pod[p].model # Synthetic =>
         /\ pod[p].model \in Exports /\ SchemaOf[pod[p].model] = Schema
         /\ \/ p \in rewritten
            \/ Passes(p, pod[p].model)
         /\ \/ pod[p].card.of = pod[p].model \/ p \in met \/ tangled # {}
            \/ pod[p].env.pin # Nothing /\ \E x \in Exports : export[x].at = "killed"

IInv ==
  /\ SupplyTypes /\ KeptApart /\ CardOfArtifact
  /\ \A p \in Pods : Read(p) /\ Serving(p)

(* While no export works the directory rests. *)
LEMMA BusyIsWorking == SupplyTypes => Busy = {x \in Exports : export[x].at \in Working}
BY DEF SupplyTypes, Busy, Working

LEMMA InitInv == Init => IInv
<1> SUFFICES ASSUME Init PROVE IInv
  OBVIOUS
<1> USE DEF Init, NoCard, NewPod
<1>1. SupplyTypes
  BY DEF SupplyTypes, Processes, FileContents, Cards, Working, Starting
<1>2. KeptApart /\ CardOfArtifact
  BY DEF KeptApart, CardOfArtifact, Working
<1>3. ASSUME NEW p \in Pods PROVE Read(p) /\ Serving(p)
  BY DEF Read, Serving, Starting
<1> QED
  BY <1>1, <1>2, <1>3 DEF IInv

(***************************************************************************)
(* A step of an export.                                                    *)
(***************************************************************************)
LEMMA ExportTypes == ASSUME SupplyTypes, Export PROVE SupplyTypes'
<1> PICK x \in Exports : Open(x) \/ Dump(x) \/ Digest(x) \/ OpenCard(x) \/ WriteCard(x) \/ Kill(x)
  BY DEF Export
<1> USE DEF SupplyTypes, FileContents, Cards, Working, Busy
<1>1. CASE Open(x)
  <2>1. rewritten' \in SUBSET Pods /\ met' \in SUBSET Pods
    BY <1>1 DEF Open, Writing
  <2>2. tangled' \in SUBSET Exports
    BY <1>1 DEF Open
  <2> QED
    BY <1>1, <2>1, <2>2 DEF Open, ExportTo
<1>2. CASE Dump(x)
  <2>1. rewritten' \in SUBSET Pods /\ met' \in SUBSET Pods
    BY <1>2 DEF Dump, Writing
  <2> QED
    BY <1>2, <2>1 DEF Dump, ExportTo
<1>3. CASE Digest(x)
  BY <1>3 DEF Digest, ghosts
<1>4. CASE OpenCard(x)
  BY <1>4 DEF OpenCard, ExportTo, TornCard, ghosts
<1>5. CASE WriteCard(x)
  BY <1>5 DEF WriteCard, ExportTo, ghosts
<1>6. CASE Kill(x)
  BY <1>6 DEF Kill, ghosts
<1> QED
  BY <1>1, <1>2, <1>3, <1>4, <1>5, <1>6

LEMMA ExportKeepsApart ==
  ASSUME SupplyTypes, KeptApart, CardOfArtifact, Export PROVE KeptApart' /\ CardOfArtifact'
<1> PICK x \in Exports : Open(x) \/ Dump(x) \/ Digest(x) \/ OpenCard(x) \/ WriteCard(x) \/ Kill(x)
  BY DEF Export
<1> SUFFICES ASSUME tangled' = {} PROVE KeptApart' /\ CardOfArtifact'
  BY DEF KeptApart, CardOfArtifact
<1> DEFINE Works(y) == export[y].at \in Working
<1>1. tangled = {}
  BY DEF Open, Dump, Digest, OpenCard, WriteCard, Kill, ExportTo
<1>2. /\ \A y, z \in Exports : Works(y) /\ Works(z) => y = z
      /\ \A y \in Exports : export[y].at \in {"digest", "card", "write card"} => artifact = y
      /\ \A y \in Exports : export[y].at \in {"card", "write card"} => export[y].digest = y
      /\ card.of = card.digest
  BY <1>1 DEF KeptApart
<1>3. \A y \in Exports : y # x => export'[y] = export[y]
  BY DEF SupplyTypes, Open, Dump, Digest, OpenCard, WriteCard, Kill, ExportTo
<1>4. \A y \in Exports : y # x => ~Works(y)
  <2>1. CASE Open(x)
    <3>1. Busy = {}
      BY <2>1 DEF Open
    <3> QED
      BY <3>1, BusyIsWorking
  <2>2. CASE ~Open(x)
    <3>1. Works(x)
      BY <2>2, BusyIsWorking DEF Dump, Digest, OpenCard, WriteCard, Kill, ExportTo, Working
    <3> QED
      BY <3>1, <1>2
  <2> QED
    BY <2>1, <2>2
<1>5. \A y \in Exports : y # x => export'[y].at \notin Working
  BY <1>3, <1>4
<1>6. SUFFICES
        /\ export'[x].at \in {"digest", "card", "write card"} => artifact' = x
        /\ export'[x].at \in {"card", "write card"} => export'[x].digest = x
        /\ card'.of = card'.digest
        /\ export'[x].at \in Working \cup {"killed"} \/ card'.of = artifact'
  <2>1. {"digest", "card", "write card"} \subseteq Working
    BY DEF Working
  <2> QED
    BY <1>5, <1>6, <2>1 DEF KeptApart, CardOfArtifact
<1>7. /\ Open(x) => export'[x] = [export[x] EXCEPT !.at = "dump"]
      /\ Dump(x) => export'[x] = [export[x] EXCEPT !.at = "digest"]
      /\ Digest(x) => export'[x] = [at |-> "card", digest |-> artifact]
      /\ OpenCard(x) => export'[x] = [export[x] EXCEPT !.at = "write card"]
      /\ WriteCard(x) => export'[x] = [export[x] EXCEPT !.at = "done"]
      /\ Kill(x) => export'[x] = [export[x] EXCEPT !.at = "killed"]
  BY DEF SupplyTypes, Open, Dump, Digest, OpenCard, WriteCard, Kill, ExportTo
<1>8. export[x] \in [at : Working \cup {"new", "done", "killed"}, digest : FileContents]
  BY DEF SupplyTypes
<1>9. /\ card.of = card.digest
      /\ export[x].at \in {"digest", "card", "write card"} => artifact = x
      /\ export[x].at \in {"card", "write card"} => export[x].digest = x
  BY <1>2
<1>10. CASE Open(x)
  <2>1. export'[x].at = "dump" /\ card' = card
    BY <1>7, <1>8, <1>10 DEF Open
  <2> QED
    BY <1>9, <2>1 DEF Working
<1>11. CASE Dump(x)
  <2>1. export'[x].at = "digest" /\ card' = card /\ artifact' = x
    BY <1>1, <1>7, <1>8, <1>11 DEF Dump
  <2> QED
    BY <1>9, <2>1 DEF Working
<1>12. CASE Digest(x)
  <2>1. export[x].at = "digest" /\ UNCHANGED <<artifact, card>>
    BY <1>12 DEF Digest
  <2>2. export'[x] = [at |-> "card", digest |-> artifact]
    BY <1>7, <1>12, Zenon
  <2>3. export'[x].at = "card" /\ export'[x].digest = artifact
    BY <2>2
  <2> QED
    BY <1>9, <2>1, <2>3 DEF Working
<1>13. CASE OpenCard(x)
  <2>1. export[x].at = "card" /\ artifact' = artifact /\ card' = TornCard
    BY <1>13 DEF OpenCard, ExportTo
  <2>2. export'[x].at = "write card" /\ export'[x].digest = export[x].digest
    BY <1>7, <1>8, <1>13
  <2> QED
    BY <1>9, <2>1, <2>2 DEF Working, TornCard
<1>14. CASE WriteCard(x)
  <2>1. /\ export[x].at = "write card" /\ artifact' = artifact
        /\ card' = [of |-> x, digest |-> export[x].digest]
    BY <1>14 DEF WriteCard, ExportTo
  <2>2. export'[x].at = "done"
    BY <1>7, <1>8, <1>14
  <2> QED
    BY <1>9, <2>1, <2>2
<1>15. CASE Kill(x)
  <2>1. export'[x] = [export[x] EXCEPT !.at = "killed"]
    BY <1>7, <1>15, Zenon
  <2>2. export'[x].at = "killed"
    BY <1>8, <2>1
  <2>3. card' = card
    BY <1>15 DEF Kill
  <2> QED
    BY <1>9, <2>2, <2>3
<1> QED
  BY <1>10, <1>11, <1>12, <1>13, <1>14, <1>15

(* A step of an export that works is noticed by no process that starts     *)
(* unnoticed; one that writes the artifact is noted for every such process.*)
LEMMA ExportNoted ==
  ASSUME SupplyTypes, Export, NEW p \in Pods, Read(p), Serving(p) PROVE Read(p)' /\ Serving(p)'
<1> PICK x \in Exports : Open(x) \/ Dump(x) \/ Digest(x) \/ OpenCard(x) \/ WriteCard(x) \/ Kill(x)
  BY DEF Export
<1>1. pod' = pod /\ tangled \subseteq tangled'
  BY DEF Open, Dump, Digest, OpenCard, WriteCard, Kill, ExportTo
<1>2. \A y \in Exports : export[y].at = "killed" => export'[y].at = "killed"
  BY DEF Open, Dump, Digest, OpenCard, WriteCard, Kill, ExportTo, SupplyTypes, Working, Busy
<1>3. /\ met \subseteq met' /\ rewritten \subseteq rewritten'
      /\ pod[p].at = "up" => (p \in rewritten' => p \in rewritten)
  BY DEF Open, Dump, Digest, OpenCard, WriteCard, Kill, Writing, ghosts
<1>4. p \in rewritten' => p \in met'
  BY DEF Read, Open, Dump, Digest, OpenCard, WriteCard, Kill, Writing, ghosts
<1>5. pod[p].at \in Starting => p \in met'
  <2>1. CASE Open(x)
    BY <2>1 DEF Open, Writing, Starting
  <2>2. CASE ~Open(x)
    <3>1. export[x].at \in Working
      BY <2>2, BusyIsWorking DEF Dump, Digest, OpenCard, WriteCard, Kill, ExportTo, Working
    <3> QED
      BY <1>3, <3>1 DEF Read
  <2> QED
    BY <2>1, <2>2
<1>6. pod[p].at = "load" /\ p \notin rewritten' => artifact' = artifact
  BY DEF Open, Dump, Digest, OpenCard, WriteCard, Kill, Writing, ghosts
<1>7. Read(p)'
  BY <1>1, <1>3, <1>4, <1>5, <1>6 DEF Read, Starting, Passes
<1>8. Serving(p)'
  BY <1>1, <1>2, <1>3 DEF Serving, Passes
<1> QED
  BY <1>7, <1>8

(***************************************************************************)
(* A step of a process that starts.                                        *)
(***************************************************************************)
LEMMA StartTypes == ASSUME SupplyTypes, NEW p \in Pods, Start(p) PROVE SupplyTypes'
<1> PICK env \in Envs :
      /\ rewritten' = rewritten \ {p}
      /\ met' = IF Busy = {} THEN met \ {p} ELSE met \cup {p}
      /\ IF Raises(env) THEN PodSet(p, NewPod)
         ELSE PodSet(p, [NewPod EXCEPT !.env = env,
                !.model = IF env.mode = "demo_synthetic" THEN Synthetic ELSE Nothing,
                !.at = IF env.mode = "demo_synthetic" THEN "up" ELSE "exists"])
  BY DEF Start
<1> DEFINE started == [NewPod EXCEPT !.env = env,
                         !.model = IF env.mode = "demo_synthetic" THEN Synthetic ELSE Nothing,
                         !.at = IF env.mode = "demo_synthetic" THEN "up" ELSE "exists"]
<1>1. NewPod \in Processes
  BY DEF NewPod, NoCard, Processes, Starting, Cards, FileContents
<1>2. started \in Processes
  BY <1>1 DEF Processes, Starting, FileContents
<1>3. rewritten' \in SUBSET Pods /\ met' \in SUBSET Pods
  BY DEF SupplyTypes
<1>4. PodSet(p, NewPod) \/ PodSet(p, started)
  OBVIOUS
<1> HIDE DEF started
<1> QED
  BY <1>1, <1>2, <1>3, <1>4 DEF SupplyTypes, PodSet, directory

LEMMA ServeTypes ==
  ASSUME SupplyTypes, NEW p \in Pods, Start(p) \/ Exists(p) \/ ReadCard(p) \/ ReadDigest(p) \/ Load(p)
  PROVE  SupplyTypes'
<1>1. ASSUME NEW state \in Processes, PodSet(p, state),
             rewritten' \in SUBSET Pods, met' \in SUBSET Pods
      PROVE  SupplyTypes'
  BY <1>1 DEF SupplyTypes, PodSet, directory
<1>2. NewPod \in Processes
  BY DEF NewPod, NoCard, Processes, Starting, Cards, FileContents
<1>3. pod[p] \in Processes /\ card \in Cards /\ artifact \in FileContents
  BY DEF SupplyTypes
<1>4. rewritten \in SUBSET Pods /\ met \in SUBSET Pods
  BY DEF SupplyTypes
<1>5. CASE UNCHANGED ghosts
  <2>1. rewritten' \in SUBSET Pods /\ met' \in SUBSET Pods
    BY <1>4, <1>5 DEF ghosts
  <2>2. CASE Fail(p)
    BY <1>1, <1>2, <2>1, <2>2 DEF Fail
  <2>3. CASE PodSet(p, [pod[p] EXCEPT !.at = "card"])
    <3>1. [pod[p] EXCEPT !.at = "card"] \in Processes
      BY <1>3 DEF Processes, Starting
    <3> QED
      BY <1>1, <2>1, <2>3, <3>1
  <2>4. CASE PodSet(p, [pod[p] EXCEPT !.at = "digest", !.card = card])
    <3>1. [pod[p] EXCEPT !.at = "digest", !.card = card] \in Processes
      BY <1>3 DEF Processes, Starting
    <3> QED
      BY <1>1, <2>1, <2>4, <3>1
  <2>5. CASE PodSet(p, [pod[p] EXCEPT !.at = "load", !.digest = artifact])
    <3>1. [pod[p] EXCEPT !.at = "load", !.digest = artifact] \in Processes
      BY <1>3 DEF Processes, Starting
    <3> QED
      BY <1>1, <2>1, <2>5, <3>1
  <2>6. CASE PodSet(p, [pod[p] EXCEPT !.at = "up", !.model = artifact])
    <3>1. [pod[p] EXCEPT !.at = "up", !.model = artifact] \in Processes
      BY <1>3 DEF Processes, Starting
    <3> QED
      BY <1>1, <2>1, <2>6, <3>1
  <2>7. CASE Start(p)
    BY <2>7, StartTypes
  <2> QED
    BY <2>2, <2>3, <2>4, <2>5, <2>6, <2>7 DEF Exists, ReadCard, ReadDigest, Load
<1>6. CASE Start(p)
  BY <1>6, StartTypes
<1> QED
  BY <1>5, <1>6 DEF Exists, ReadCard, ReadDigest, Load, Fail

LEMMA ServeElsewhere ==
  ASSUME SupplyTypes, NEW p \in Pods, Start(p) \/ Exists(p) \/ ReadCard(p) \/ ReadDigest(p) \/ Load(p),
         NEW q \in Pods, q # p, Read(q), Serving(q)
  PROVE  Read(q)' /\ Serving(q)'
<1>1. pod'[q] = pod[q] /\ UNCHANGED directory
  BY DEF Start, Exists, ReadCard, ReadDigest, Load, PodSet, Fail, SupplyTypes
<1>2. (q \in met' <=> q \in met) /\ (q \in rewritten' <=> q \in rewritten)
  BY DEF Start, Exists, ReadCard, ReadDigest, Load, PodSet, Fail, ghosts
<1> QED
  BY <1>1, <1>2 DEF Read, Serving, Passes, directory

(* A start that fails leaves the process down. *)
LEMMA FailedIsDown ==
  ASSUME SupplyTypes, NEW p \in Pods, PodSet(p, NewPod), p \in rewritten' => p \in met'
  PROVE  Read(p)' /\ Serving(p)'
<1>1. pod'[p] = NewPod
  BY DEF PodSet, SupplyTypes
<1> QED
  BY <1>1 DEF Read, Serving, NewPod, Starting

LEMMA StartRead ==
  ASSUME SupplyTypes, NEW p \in Pods, Start(p) PROVE Read(p)' /\ Serving(p)'
<1> PICK env \in Envs :
      /\ rewritten' = rewritten \ {p}
      /\ met' = IF Busy = {} THEN met \ {p} ELSE met \cup {p}
      /\ IF Raises(env) THEN PodSet(p, NewPod)
         ELSE PodSet(p, [NewPod EXCEPT !.env = env,
                !.model = IF env.mode = "demo_synthetic" THEN Synthetic ELSE Nothing,
                !.at = IF env.mode = "demo_synthetic" THEN "up" ELSE "exists"])
  BY DEF Start
<1>1. CASE Raises(env)
  BY <1>1, FailedIsDown
<1>2. CASE ~Raises(env) /\ env.mode = "demo_synthetic"
  <2>1. pod'[p] = [NewPod EXCEPT !.env = env, !.model = Synthetic, !.at = "up"]
    BY <1>2 DEF PodSet, SupplyTypes
  <2>2. pod'[p].at = "up" /\ pod'[p].env = env /\ pod'[p].model = Synthetic
    BY <2>1 DEF NewPod
  <2> QED
    BY <1>2, <2>2 DEF Read, Serving, Starting
<1>3. CASE ~Raises(env) /\ env.mode # "demo_synthetic"
  <2>1. pod'[p] = [NewPod EXCEPT !.env = env, !.model = Nothing, !.at = "exists"]
    BY <1>3 DEF PodSet, SupplyTypes
  <2>2. pod'[p].at = "exists" /\ pod'[p].env = env
    BY <2>1 DEF NewPod
  <2>3. p \notin met' => \A x \in Exports : export'[x].at \notin Working
    BY <1>3, BusyIsWorking DEF PodSet, directory
  <2> QED
    BY <1>3, <2>2, <2>3 DEF Read, Serving, Starting
<1> QED
  BY <1>1, <1>2, <1>3

LEMMA ReadingRead ==
  ASSUME SupplyTypes, KeptApart, NEW p \in Pods, Read(p), Exists(p) \/ ReadCard(p) \/ ReadDigest(p)
  PROVE  Read(p)' /\ Serving(p)'
<1>1. CASE Fail(p)
  BY <1>1, FailedIsDown DEF Fail, ghosts, Read
<1>2. CASE ~Fail(p)
  <2>1. UNCHANGED directory /\ UNCHANGED ghosts
    BY <1>2 DEF Exists, ReadCard, ReadDigest, PodSet
  <2>2. CASE Exists(p)
    <3>1. pod[p].at = "exists" /\ pod'[p] = [pod[p] EXCEPT !.at = "card"]
      BY <1>2, <2>2 DEF Exists, PodSet, SupplyTypes
    <3>2. pod'[p].at = "card" /\ pod'[p].env = pod[p].env
      BY <3>1 DEF SupplyTypes
    <3> QED
      BY <2>1, <3>1, <3>2 DEF Read, Serving, Starting, directory, ghosts
  <2>3. CASE ReadCard(p)
    <3>1. pod[p].at = "card" /\ pod'[p] = [pod[p] EXCEPT !.at = "digest", !.card = card]
      BY <1>2, <2>3 DEF ReadCard, PodSet, SupplyTypes
    <3>2. pod'[p].at = "digest" /\ pod'[p].env = pod[p].env /\ pod'[p].card = card
      BY <3>1 DEF SupplyTypes
    <3> QED
      BY <2>1, <3>1, <3>2 DEF Read, Serving, Starting, directory, ghosts, KeptApart
  <2>4. CASE ReadDigest(p)
    <3>1. /\ pod[p].at = "digest" /\ Passes(p, artifact)
          /\ pod'[p] = [pod[p] EXCEPT !.at = "load", !.digest = artifact]
      BY <1>2, <2>4 DEF ReadDigest, PodSet, SupplyTypes
    <3>2. /\ pod'[p].at = "load" /\ pod'[p].digest = artifact
          /\ pod'[p].env = pod[p].env /\ pod'[p].card = pod[p].card
      BY <3>1 DEF SupplyTypes
    <3> QED
      BY <2>1, <3>1, <3>2 DEF Read, Serving, Starting, directory, ghosts, Passes
  <2> QED
    BY <2>2, <2>3, <2>4
<1> QED
  BY <1>1, <1>2

LEMMA LoadServes ==
  ASSUME SupplyTypes, CardOfArtifact, NEW p \in Pods, Read(p), Load(p)
  PROVE  Read(p)' /\ Serving(p)'
<1>1. CASE Fail(p)
  BY <1>1, FailedIsDown DEF Fail, ghosts, Read
<1>2. CASE ~Fail(p)
  <2>1. /\ UNCHANGED directory /\ UNCHANGED ghosts /\ pod[p].at = "load"
        /\ artifact \in Exports /\ SchemaOf[artifact] = Schema
        /\ pod'[p] = [pod[p] EXCEPT !.at = "up", !.model = artifact]
    BY <1>2 DEF Load, PodSet, SupplyTypes
  <2>2. /\ pod'[p].at = "up" /\ pod'[p].model = artifact
        /\ pod'[p].env = pod[p].env /\ pod'[p].card = pod[p].card
    BY <2>1 DEF SupplyTypes
  <2>3. artifact # Synthetic
    BY <2>1, ExportsAssumption
  <2>4. p \in rewritten \/ Passes(p, artifact)
    BY <2>1 DEF Read
  <2>5. \/ pod[p].card.of = artifact \/ p \in met \/ tangled # {}
        \/ pod[p].env.pin # Nothing /\ \E x \in Exports : export[x].at = "killed"
    <3> SUFFICES ASSUME p \notin met, tangled = {},
                        pod[p].env.pin = Nothing \/ \A x \in Exports : export[x].at # "killed"
                 PROVE  pod[p].card.of = artifact
      OBVIOUS
    <3>1. CASE pod[p].env.pin = Nothing
      BY <2>1, <2>4, <3>1 DEF Read, Passes
    <3>2. CASE \A x \in Exports : export[x].at # "killed"
      BY <2>1, <3>2 DEF Read, CardOfArtifact, Starting
    <3> QED
      BY <3>1, <3>2
  <2>6. Read(p)'
    BY <2>1, <2>2 DEF Read, Starting, ghosts
  <2>7. Serving(p)'
    BY <2>1, <2>2, <2>3, <2>4, <2>5 DEF Read, Serving, Starting, Passes, directory, ghosts
  <2> QED
    BY <2>6, <2>7
<1> QED
  BY <1>1, <1>2

(***************************************************************************)
LEMMA NextInv == IInv /\ [Next]_supply => IInv'
<1> SUFFICES ASSUME IInv, [Next]_supply PROVE IInv'
  OBVIOUS
<1>1. CASE Export
  BY <1>1, ExportTypes, ExportKeepsApart, ExportNoted DEF IInv
<1>2. CASE Serve
  <2> PICK p \in Pods : Start(p) \/ Exists(p) \/ ReadCard(p) \/ ReadDigest(p) \/ Load(p)
    BY <1>2 DEF Serve
  <2>1. SupplyTypes'
    BY ServeTypes DEF IInv
  <2>2. UNCHANGED directory
    BY DEF Start, Exists, ReadCard, ReadDigest, Load, PodSet, Fail
  <2>3. KeptApart' /\ CardOfArtifact'
    BY <2>2 DEF IInv, KeptApart, CardOfArtifact, directory
  <2>4. Read(p)' /\ Serving(p)'
    BY StartRead, ReadingRead, LoadServes DEF IInv
  <2>5. \A q \in Pods : Read(q)' /\ Serving(q)'
    BY <2>4, ServeElsewhere DEF IInv
  <2> QED
    BY <2>1, <2>3, <2>5 DEF IInv
<1>3. CASE UNCHANGED supply
  BY <1>3 DEF IInv, SupplyTypes, KeptApart, CardOfArtifact, Read, Serving, Passes,
             supply, directory, ghosts
<1> QED
  BY <1>1, <1>2, <1>3 DEF Next

(* model_loader.py: a process serves the model its pin, or its card's      *)
(* digest, names, and the card is that model's, but for the overlaps that  *)
(* the property names.                                                     *)
THEOREM ServedIsDescribed == Spec => []ServedAsDescribed
<1>1. IInv => ServedAsDescribed
  BY DEF IInv, Serving, ServedAsDescribed, Up, Passes
<1> QED
  BY <1>1, InitInv, NextInv, PTL DEF Spec

(* A configuration that does not raise leaves no public key malformed.     *)
LEMMA KeysAreKeys ==
  ASSUME NEW env \in Envs, ~Raises(env), HasEd25519, NEW v \in PublicKeys
  PROVE  VerifierOf(env, v) = "ed25519"
<1>1. env.vars[v] \in {"unset", "empty", "good", "bad"}
  BY EnvsAssumption DEF REQUIRED_PROD
<1>2. Value(env, v) # "bad"
  BY DEF Raises
<1>3. Value(env, v) = "good"
  <2>1. CASE env.mode = "demo_synthetic"
    BY <1>1, <1>2, <2>1 DEF Value, Given
  <2>2. CASE env.mode = "prod"
    BY <1>1, <1>2, <2>2 DEF Raises, Value, Given, REQUIRED_PROD
  <2> QED
    BY <2>1, <2>2 DEF Raises
<1> QED
  BY <1>3 DEF VerifierOf

(* config.py: whatever it was started with, a process that serves has what *)
(* its mode requires.                                                      *)
THEOREM ServesConfigured == Spec => []ServesAsConfigured
<1>1. IInv => ServesAsConfigured
  <2> SUFFICES ASSUME IInv, NEW p \in Pods, Up(p)
               PROVE  LET env == pod[p].env
                      IN  /\ pod[p].model = Synthetic <=> env.mode = "demo_synthetic"
                          /\ env.mode = "prod" => /\ \A v \in REQUIRED_PROD : Given(env, v)
                                                  /\ SchemaOf[pod[p].model] = Schema
                          /\ HasEd25519 => \A v \in PublicKeys : VerifierOf(env, v) = "ed25519"
    BY DEF ServesAsConfigured
  <2>1. pod[p].at = "up" /\ Read(p) /\ Serving(p)
    BY DEF IInv, Up
  <2>2. pod[p].env \in Envs /\ ~Raises(pod[p].env)
    BY <2>1 DEF Read
  <2>3. pod[p].env.mode = "prod" => \A v \in REQUIRED_PROD : Given(pod[p].env, v)
    BY <2>2 DEF Raises
  <2> QED
    BY <2>1, <2>2, <2>3, KeysAreKeys DEF Serving
<1> QED
  BY <1>1, InitInv, NextInv, PTL DEF Spec

-----------------------------------------------------------------------------
(***************************************************************************)
(* The explanations.  With a risk of 0.45 some Shapley value is above 0.05 *)
(* since the other features cannot add up to it.  The dominant one         *)
(* is then the first of the largest, and as a Shapley value is the         *)
(* contribution less that of the benign login, rounded, only behaviour and *)
(* one more feature can contribute more: it is among the first three.      *)
(***************************************************************************)

(* The features one event can have, whatever the history; only an amount   *)
(* can count as less than nothing.                                         *)
Possible(v) ==
  /\ v[1] \in {0, 200, 400, 1000} /\ v[2] \in {0, 250, 500, 1000}
  /\ v[3] \in Nat /\ v[3] <= 1000
  /\ v[4] \in Int /\ v[4] <= 1000
  /\ v[5] \in Nat /\ v[5] <= 1000
  /\ v[6] \in {200, 400, 500, 600, 800, 900}
  /\ v[7] \in {100, 300, 400, 500, 700}
  /\ v[8] \in {0, 1000} /\ v[9] \in {0, 1000}
  /\ v[10] \in Nat /\ v[10] <= 1000
  /\ v[11] \in {0, 333, 666, 1000}

(* To four digits, from five. *)
Rounded(x, y) == x \in Int /\ 10 * x <= y + 5 /\ y + 5 < 10 * x + 10

(* What the benign login contributes, where it is not nothing. *)
Base(i) == IF i = 5 THEN 1500 ELSE IF i = 6 THEN 1400 ELSE IF i = 7 THEN 1200 ELSE 0

(* Contributions c, and Shapley values s, that such features can have.     *)
Contributes(c) ==
  /\ c[1] \in {0, 2800, 5600, 14000} /\ c[2] \in {0, 2500, 5000, 10000}
  /\ c[3] \in Nat /\ c[3] <= 5000
  /\ \E a \in 0 .. 1000 : c[4] = 11 * a
  /\ c[5] \in Nat /\ c[5] <= 15000
  /\ c[6] \in {1400, 2800, 3500, 4200, 5600, 6300}
  /\ c[7] \in {400, 1200, 1600, 2000, 2800}
  /\ c[8] \in {0, 8000} /\ c[9] \in {0, 12000}
  /\ c[10] \in Nat /\ c[10] <= 4000
  /\ c[11] \in {0, 3330, 6660, 10000}

Explains(s, c) == \A i \in 1 .. 11 : Rounded(s[i], c[i] - Base(i))

LEMMA Sizes ==
  ASSUME NEW c, Contributes(c)
  PROVE  \A i \in 1 .. 11 : c[i] \in Int
<1> SUFFICES ASSUME NEW i \in 1 .. 11 PROVE c[i] \in Int
  OBVIOUS
<1>1. CASE i = 1 BY <1>1 DEF Contributes
<1>2. CASE i = 2 BY <1>2 DEF Contributes
<1>3. CASE i = 3 BY <1>3 DEF Contributes
<1>4. CASE i = 4 BY <1>4 DEF Contributes
<1>5. CASE i = 5 BY <1>5 DEF Contributes
<1>6. CASE i = 6 BY <1>6 DEF Contributes
<1>7. CASE i = 7 BY <1>7 DEF Contributes
<1>8. CASE i = 8 BY <1>8 DEF Contributes
<1>9. CASE i = 9 BY <1>9 DEF Contributes
<1>10. CASE i = 10 BY <1>10 DEF Contributes
<1>11. CASE i = 11 BY <1>11 DEF Contributes
<1> QED BY <1>1, <1>2, <1>3, <1>4, <1>5, <1>6, <1>7, <1>8, <1>9, <1>10, <1>11

(* A Shapley value of at most 0.05 bounds the contribution. *)
LEMMA SmallShapley ==
  ASSUME NEW c, NEW s, Contributes(c), Explains(s, c), NEW i \in 1 .. 11, s[i] <= 500
  PROVE  c[i] \in Int /\ c[i] <= 5004 + Base(i)
<1>1. c[i] \in Int /\ Rounded(s[i], c[i] - Base(i))
  BY Sizes DEF Explains
<1>2. Base(i) \in Int
  BY DEF Base
<1> QED BY <1>1, <1>2 DEF Rounded

LEMMA SomeLarge ==
  ASSUME NEW c, NEW s, Contributes(c), Explains(s, c),
         c[1] + c[2] + c[3] + c[4] + c[5] + c[6] + c[7] + c[8] + c[9] + c[10] + c[11] >= 45000
  PROVE  \E i \in 1 .. 11 : s[i] > 500
<1> SUFFICES ASSUME \A i \in 1 .. 11 : ~(s[i] > 500) PROVE FALSE
  OBVIOUS
<1>1. \A i \in 1 .. 11 : s[i] <= 500
  BY DEF Explains, Rounded
<1>2. c[1] \in Int /\ c[1] <= 2800
  <2>1. c[1] <= 5004 BY <1>1, SmallShapley DEF Base
  <2> QED BY <2>1 DEF Contributes
<1>3. c[2] \in Int /\ c[2] <= 5000
  <2>1. c[2] <= 5004 BY <1>1, SmallShapley DEF Base
  <2> QED BY <2>1 DEF Contributes
<1>4. c[3] \in Int /\ c[3] <= 5000
  BY DEF Contributes
<1>5. c[4] \in Int /\ c[4] <= 5004
  BY <1>1, SmallShapley DEF Base
<1>6. c[5] \in Int /\ c[5] <= 6504
  BY <1>1, SmallShapley DEF Base
<1>7. c[6] \in Int /\ c[6] <= 6300
  BY DEF Contributes
<1>8. c[7] \in Int /\ c[7] <= 2800
  BY DEF Contributes
<1>9. c[8] = 0 /\ c[9] = 0
  <2>1. c[8] <= 5004 /\ c[9] <= 5004 BY <1>1, SmallShapley DEF Base
  <2> QED BY <2>1 DEF Contributes
<1>10. c[10] \in Int /\ c[10] <= 4000
  BY DEF Contributes
<1>11. c[11] \in Int /\ c[11] <= 3330
  <2>1. c[11] <= 5004 BY <1>1, SmallShapley DEF Base
  <2> QED BY <2>1 DEF Contributes
<1> QED BY <1>2, <1>3, <1>4, <1>5, <1>6, <1>7, <1>8, <1>9, <1>10, <1>11

(* The first of the largest Shapley values. *)
Leads(s, i) == \A j \in 1 .. 11 : s[j] <= s[i] /\ (j < i => s[j] < s[i])

(* Before i among the contributions. *)
Precedes(c, j, i) ==
  \/ c[j] > c[i]
  \/ c[j] = c[i] /\ Alphabetical[j] > Alphabetical[i]

(* Rounding leaves a contribution little room to be the larger one with    *)
(* the smaller Shapley value.                                              *)
LEMMA Overtakes ==
  ASSUME NEW c, NEW s, Contributes(c), Explains(s, c), NEW i \in 1 .. 11, NEW j \in 1 .. 11,
         Leads(s, i)
  PROVE  /\ c[j] - c[i] <= Base(j) - Base(i) + 9
         /\ j < i => c[j] - c[i] < Base(j) - Base(i)
<1>1. c[i] \in Int /\ c[j] \in Int /\ Base(i) \in Int /\ Base(j) \in Int
  BY Sizes DEF Base
<1>2. Rounded(s[i], c[i] - Base(i)) /\ Rounded(s[j], c[j] - Base(j))
  BY DEF Explains
<1>3. s[j] <= s[i] /\ (j < i => s[j] < s[i])
  BY DEF Leads
<1> QED BY <1>1, <1>2, <1>3 DEF Rounded

LEMMA LargeContribution ==
  ASSUME NEW c, NEW s, Contributes(c), Explains(s, c), NEW i \in 1 .. 11, s[i] > 500
  PROVE  c[i] > 5000
<1>1. c[i] \in Int /\ Base(i) \in Nat
  BY Sizes DEF Base
<1>2. Rounded(s[i], c[i] - Base(i))
  BY DEF Explains
<1> QED BY <1>1, <1>2 DEF Rounded

(* Two at most come before it, so that it is among the first three.        *)
LEMMA FewPrecede ==
  ASSUME NEW c, NEW s, Contributes(c), Explains(s, c), NEW i \in 1 .. 11,
         Leads(s, i), s[i] > 500
  PROVE  \E a \in 1 .. 11 : \A j \in 1 .. 11 : Precedes(c, j, i) => j \in {5, a}
<1>1. c[i] > 5000 /\ \A j \in 1 .. 11 : c[j] \in Int
  BY LargeContribution, Sizes
<1>2. i \notin {3, 7, 10}
  BY <1>1 DEF Contributes
<1>3. ASSUME NEW j \in 1 .. 11, Precedes(c, j, i), j \notin {5, 6}
      PROVE  /\ j \in {2, 4, 8, 9, 11} /\ i \in {1, 2, 4, 8, 9} /\ i < j
             /\ c[i] <= c[j] /\ c[j] <= c[i] + 9
  <2>1. c[i] <= c[j] /\ c[i] \in Int /\ c[j] \in Int
    BY <1>1, <1>3 DEF Precedes
  <2>2. j \notin {3, 7, 10}
    BY <1>1, <2>1 DEF Contributes
  <2>3. j # i
    BY <1>1, <1>3 DEF Precedes, Alphabetical
  <2>4. Base(j) = 0 /\ Base(i) \in Nat
    BY <1>3, <2>2 DEF Base
  <2>5. c[j] - c[i] <= 9 - Base(i) /\ ~(j < i)
    BY <2>1, <2>4, Overtakes
  <2>6. Base(i) < 10
    BY <2>1, <2>4, <2>5
  <2>7. i \notin {5, 6}
    BY <2>6 DEF Base
  <2>8. c[j] <= c[i] + 9
    BY <2>1, <2>4, <2>5
  <2> QED BY <1>2, <1>3, <2>1, <2>2, <2>3, <2>5, <2>7, <2>8
<1>4. CASE i = 1
  <2>1. c[1] \in {5600, 14000}
    BY <1>1, <1>4 DEF Contributes
  <2> SUFFICES ASSUME NEW j \in 1 .. 11, Precedes(c, j, i), j \notin {5, 6} PROVE FALSE
    OBVIOUS
  <2>2. j \in {2, 4, 8, 9, 11} /\ c[1] <= c[j] /\ c[j] <= c[1] + 9
    BY <1>3, <1>4
  <2>3. c[2] \in {0, 2500, 5000, 10000} /\ c[8] \in {0, 8000} /\ c[9] \in {0, 12000}
        /\ c[11] \in {0, 3330, 6660, 10000}
    BY DEF Contributes
  <2>4. PICK a \in 0 .. 1000 : c[4] = 11 * a
    BY DEF Contributes
  <2>5. j = 4
    BY <2>1, <2>2, <2>3
  <2> QED BY <2>1, <2>2, <2>4, <2>5
<1>5. CASE i = 2
  <2>1. c[2] = 10000
    BY <1>1, <1>5 DEF Contributes
  <2> SUFFICES ASSUME NEW j \in 1 .. 11, Precedes(c, j, i), j \notin {5, 6} PROVE FALSE
    OBVIOUS
  <2>2. j \in {4, 8, 9, 11} /\ 10000 <= c[j] /\ c[j] <= 10009
    BY <1>3, <1>5, <2>1
  <2>3. c[8] \in {0, 8000} /\ c[9] \in {0, 12000} /\ c[11] \in {0, 3330, 6660, 10000}
    BY DEF Contributes
  <2>4. PICK a \in 0 .. 1000 : c[4] = 11 * a
    BY DEF Contributes
  <2>5. j # 4
    BY <2>2, <2>4
  <2>6. j = 11 /\ c[11] = 10000
    BY <2>2, <2>3, <2>5
  <2> QED BY <1>5, <2>1, <2>6 DEF Precedes, Alphabetical
<1>6. CASE i \in {8, 9}
  <2> SUFFICES ASSUME NEW j \in 1 .. 11, Precedes(c, j, i), j \notin {5, 6} PROVE FALSE
    OBVIOUS
  <2>1. j \in {9, 11} /\ i < j /\ c[i] <= c[j] /\ c[j] <= c[i] + 9
    BY <1>3, <1>6
  <2>2. c[8] \in {0, 8000} /\ c[9] \in {0, 12000} /\ c[11] \in {0, 3330, 6660, 10000}
    BY DEF Contributes
  <2> QED BY <1>1, <1>6, <2>1, <2>2
<1>7. CASE i \in {5, 6, 11}
  BY <1>3, <1>7
<1>8. CASE i = 4
  <2>1. c[4] \in Int /\ c[4] <= 11000
    <3>1. PICK a \in 0 .. 1000 : c[4] = 11 * a
      BY DEF Contributes
    <3> QED BY <3>1
  <2>2. /\ c[6] \in Int /\ c[6] <= 6300 /\ c[8] \in {0, 8000} /\ c[9] \in {0, 12000}
        /\ c[11] \in {0, 3330, 6660, 10000}
    BY DEF Contributes
  <2>3. ASSUME NEW j \in 1 .. 11, Precedes(c, j, i), j # 5, j # 6
        PROVE  j \in {8, 11} /\ c[4] <= c[j] /\ c[j] <= c[4] + 9
    <3>1. j \in {8, 9, 11} /\ c[4] <= c[j] /\ c[j] <= c[4] + 9
      BY <1>3, <1>8, <2>3
    <3> QED BY <1>1, <1>8, <2>1, <2>2, <3>1
  <2>4. Precedes(c, 6, i) => c[4] <= 6300
    BY <1>8, <2>1, <2>2 DEF Precedes
  <2>5. CASE Precedes(c, 8, i)
    <3>1. c[8] = 8000 /\ 7991 <= c[4] /\ c[4] <= 8000
      BY <1>1, <1>8, <2>1, <2>2, <2>3, <2>5
    <3>2. ~Precedes(c, 6, i)
      BY <2>1, <2>4, <3>1
    <3>3. ~Precedes(c, 11, i)
      BY <2>1, <2>2, <2>3, <3>1
    <3>4. \A j \in 1 .. 11 : Precedes(c, j, i) => j \in {5, 8}
      BY <2>3, <3>2, <3>3
    <3> QED BY <3>4
  <2>6. CASE ~Precedes(c, 8, i) /\ Precedes(c, 11, i)
    <3>1. 6651 <= c[4]
      BY <1>1, <1>8, <2>1, <2>2, <2>3, <2>6
    <3>2. ~Precedes(c, 6, i)
      BY <2>1, <2>4, <3>1
    <3>3. \A j \in 1 .. 11 : Precedes(c, j, i) => j \in {5, 11}
      BY <2>3, <2>6, <3>2
    <3> QED BY <3>3
  <2>7. CASE ~Precedes(c, 8, i) /\ ~Precedes(c, 11, i)
    <3>1. \A j \in 1 .. 11 : Precedes(c, j, i) => j \in {5, 6}
      BY <2>3, <2>7
    <3> QED BY <3>1
  <2> QED BY <2>5, <2>6, <2>7
<1> QED BY <1>2, <1>4, <1>5, <1>6, <1>7, <1>8

-----------------------------------------------------------------------------
LEMMA TotalIsSum == ASSUME NEW f PROVE Total(f) = Sum(f, DOMAIN f)
BY DEF Total, FoldSeq, FoldFunction, FoldFunctionOnSet, Sum, MapThenSumSet, MapThenFoldSet

LEMMA SumOfEleven ==
  ASSUME NEW f, \A i \in 1 .. 11 : f[i] \in Int
  PROVE  Sum(f, 1 .. 11) = f[1] + f[2] + f[3] + f[4] + f[5] + f[6] + f[7] + f[8] + f[9]
                             + f[10] + f[11]
<1> DEFINE To(n) == 1 .. n
<1>1. \A n \in 0 .. 11 : IsFiniteSet(To(n))
  BY FS_Interval
<1>2. \A n \in 1 .. 11 : n \in To(n) /\ To(n) \ {n} = To(n - 1) /\ \A i \in To(n) : f[i] \in Int
  OBVIOUS
<1>3. ASSUME NEW n \in 1 .. 11 PROVE Sum(f, To(n)) = f[n] + Sum(f, To(n - 1))
  <2> HIDE DEF To
  <2>1. IsFiniteSet(To(n)) /\ n \in To(n) /\ To(n) \ {n} = To(n - 1) /\ \A i \in To(n) : f[i] \in Int
    BY <1>1, <1>2
  <2> QED BY <2>1, SumTake
<1>4. Sum(f, To(0)) = 0
  BY SumEmpty
<1> HIDE DEF To
<1>5. Sum(f, To(1)) = f[1]
  BY <1>3, <1>4
<1>6. Sum(f, To(3)) = f[1] + f[2] + f[3]
  BY <1>3, <1>5
<1>7. Sum(f, To(5)) = f[1] + f[2] + f[3] + f[4] + f[5]
  BY <1>3, <1>6
<1>8. Sum(f, To(7)) = f[1] + f[2] + f[3] + f[4] + f[5] + f[6] + f[7]
  BY <1>3, <1>7
<1>9. Sum(f, To(9)) = f[1] + f[2] + f[3] + f[4] + f[5] + f[6] + f[7] + f[8] + f[9]
  BY <1>3, <1>8
<1>10. Sum(f, To(11)) = f[1] + f[2] + f[3] + f[4] + f[5] + f[6] + f[7] + f[8] + f[9] + f[10] + f[11]
  BY <1>3, <1>9
<1> QED BY <1>10 DEF To

LEMMA FeaturesAre == Features = 1 .. 11
BY DEF Features, FeatureNames

LEMMA ContributionsAre ==
  ASSUME NEW v
  PROVE  /\ Contribution(v, 1) = 14 * v[1] /\ Contribution(v, 2) = 10 * v[2]
         /\ Contribution(v, 3) = 5 * v[3] /\ Contribution(v, 4) = 11 * v[4]
         /\ Contribution(v, 5) = 15 * v[5] /\ Contribution(v, 6) = 7 * v[6]
         /\ Contribution(v, 7) = 4 * v[7] /\ Contribution(v, 8) = 8 * v[8]
         /\ Contribution(v, 9) = 12 * v[9] /\ Contribution(v, 10) = 4 * v[10]
         /\ Contribution(v, 11) = 10 * v[11]
BY DEF Contribution, Weights

LEMMA ShapleyAre ==
  ASSUME NEW v
  PROVE  /\ Shapley(v, 1) = (14 * (v[1] - 0) + 5) \div 10
         /\ Shapley(v, 2) = (10 * (v[2] - 0) + 5) \div 10
         /\ Shapley(v, 3) = (5 * (v[3] - 0) + 5) \div 10
         /\ Shapley(v, 4) = (11 * (v[4] - 0) + 5) \div 10
         /\ Shapley(v, 5) = (15 * (v[5] - 100) + 5) \div 10
         /\ Shapley(v, 6) = (7 * (v[6] - 200) + 5) \div 10
         /\ Shapley(v, 7) = (4 * (v[7] - 300) + 5) \div 10
         /\ Shapley(v, 8) = (8 * (v[8] - 0) + 5) \div 10
         /\ Shapley(v, 9) = (12 * (v[9] - 0) + 5) \div 10
         /\ Shapley(v, 10) = (4 * (v[10] - 0) + 5) \div 10
         /\ Shapley(v, 11) = (10 * (v[11] - 0) + 5) \div 10
BY DEF Shapley, Weights, Baseline

LEMMA Tenth == \A y \in Int : Rounded((y + 5) \div 10, y)
BY DEF Rounded

LEMMA PossibleInt ==
  ASSUME NEW v, Possible(v) PROVE \A i \in 1 .. 11 : v[i] \in Int
<1> SUFFICES ASSUME NEW i \in 1 .. 11 PROVE v[i] \in Int
  OBVIOUS
<1>1. CASE i = 1 BY <1>1 DEF Possible
<1>2. CASE i = 2 BY <1>2 DEF Possible
<1>3. CASE i = 3 BY <1>3 DEF Possible
<1>4. CASE i = 4 BY <1>4 DEF Possible
<1>5. CASE i = 5 BY <1>5 DEF Possible
<1>6. CASE i = 6 BY <1>6 DEF Possible
<1>7. CASE i = 7 BY <1>7 DEF Possible
<1>8. CASE i = 8 BY <1>8 DEF Possible
<1>9. CASE i = 9 BY <1>9 DEF Possible
<1>10. CASE i = 10 BY <1>10 DEF Possible
<1>11. CASE i = 11 BY <1>11 DEF Possible
<1> QED BY <1>1, <1>2, <1>3, <1>4, <1>5, <1>6, <1>7, <1>8, <1>9, <1>10, <1>11

LEMMA VectorContributes ==
  ASSUME NEW v, Possible(v), v[4] >= 0
  PROVE  Contributes([i \in 1 .. 11 |-> Contribution(v, i)])
<1> DEFINE c == [i \in 1 .. 11 |-> Contribution(v, i)]
<1>1. /\ c[1] = 14 * v[1] /\ c[2] = 10 * v[2] /\ c[3] = 5 * v[3] /\ c[4] = 11 * v[4]
      /\ c[5] = 15 * v[5] /\ c[6] = 7 * v[6] /\ c[7] = 4 * v[7] /\ c[8] = 8 * v[8]
      /\ c[9] = 12 * v[9] /\ c[10] = 4 * v[10] /\ c[11] = 10 * v[11]
  BY ContributionsAre
<1> HIDE DEF c
<1>2. c[1] \in {0, 2800, 5600, 14000} /\ c[2] \in {0, 2500, 5000, 10000}
  BY <1>1 DEF Possible
<1>3. c[3] \in Nat /\ c[3] <= 5000 /\ c[5] \in Nat /\ c[5] <= 15000 /\ c[10] \in Nat /\ c[10] <= 4000
  BY <1>1 DEF Possible
<1>4. \E a \in 0 .. 1000 : c[4] = 11 * a
  <2>1. v[4] \in 0 .. 1000
    BY DEF Possible
  <2> QED BY <1>1, <2>1
<1>5. c[6] \in {1400, 2800, 3500, 4200, 5600, 6300} /\ c[7] \in {400, 1200, 1600, 2000, 2800}
  BY <1>1 DEF Possible
<1>6. c[8] \in {0, 8000} /\ c[9] \in {0, 12000} /\ c[11] \in {0, 3330, 6660, 10000}
  BY <1>1 DEF Possible
<1>7. Contributes(c)
  BY <1>2, <1>3, <1>4, <1>5, <1>6 DEF Contributes
<1> QED BY <1>7 DEF c

LEMMA VectorExplains ==
  ASSUME NEW v, Possible(v), NEW i \in 1 .. 11
  PROVE  Rounded(Shapley(v, i), Contribution(v, i) - Base(i))
<1>1. \A k \in 1 .. 11 : v[k] \in Int
  BY PossibleInt
<1>2. Contribution(v, i) - Base(i) \in Int
      /\ Shapley(v, i) = ((Contribution(v, i) - Base(i)) + 5) \div 10
  <2>1. CASE i = 1 BY <1>1, <2>1, ContributionsAre, ShapleyAre DEF Base
  <2>2. CASE i = 2 BY <1>1, <2>2, ContributionsAre, ShapleyAre DEF Base
  <2>3. CASE i = 3 BY <1>1, <2>3, ContributionsAre, ShapleyAre DEF Base
  <2>4. CASE i = 4 BY <1>1, <2>4, ContributionsAre, ShapleyAre DEF Base
  <2>5. CASE i = 5 BY <1>1, <2>5, ContributionsAre, ShapleyAre DEF Base
  <2>6. CASE i = 6 BY <1>1, <2>6, ContributionsAre, ShapleyAre DEF Base
  <2>7. CASE i = 7 BY <1>1, <2>7, ContributionsAre, ShapleyAre DEF Base
  <2>8. CASE i = 8 BY <1>1, <2>8, ContributionsAre, ShapleyAre DEF Base
  <2>9. CASE i = 9 BY <1>1, <2>9, ContributionsAre, ShapleyAre DEF Base
  <2>10. CASE i = 10 BY <1>1, <2>10, ContributionsAre, ShapleyAre DEF Base
  <2>11. CASE i = 11 BY <1>1, <2>11, ContributionsAre, ShapleyAre DEF Base
  <2> QED BY <2>1, <2>2, <2>3, <2>4, <2>5, <2>6, <2>7, <2>8, <2>9, <2>10, <2>11
<1> QED BY <1>2, Tenth

-----------------------------------------------------------------------------
LEMMA LeastOf ==
  ASSUME NEW S \in SUBSET Nat, S # {}
  PROVE  Min(S) \in S /\ \A x \in S : Min(S) <= x
<1>1. IsWellFoundedOn(OpToRel(<,Nat), Nat)
  BY NatLessThanWellFounded
<1>2. PICK m \in S : \A x \in S : ~ (<<x, m>> \in OpToRel(<,Nat))
  BY <1>1, WFMin
<1>3. ASSUME NEW x \in S PROVE m <= x
  <2>1. ~(x < m)
    BY <1>2 DEF OpToRel
  <2> QED BY <2>1
<1> QED BY <1>3 DEF Min

(* Eleven natural numbers have a largest. *)
LEMMA LargestExists ==
  ASSUME NEW f, \A i \in 1 .. 11 : f[i] \in Nat
  PROVE  \E i \in 1 .. 11 : \A j \in 1 .. 11 : f[i] >= f[j]
<1> DEFINE B == {n \in Nat : \A i \in 1 .. 11 : f[i] <= n}
           m == Min(B)
<1>1. B # {}
  <2> DEFINE x == f[1] + f[2] + f[3] + f[4]
             y == f[5] + f[6] + f[7] + f[8]
             z == f[9] + f[10] + f[11]
             t == x + y + z
  <2>1. x \in Nat /\ f[1] <= x /\ f[2] <= x /\ f[3] <= x /\ f[4] <= x
    <3>1. f[1] \in Nat /\ f[2] \in Nat /\ f[3] \in Nat /\ f[4] \in Nat
      OBVIOUS
    <3> QED BY <3>1
  <2>2. y \in Nat /\ f[5] <= y /\ f[6] <= y /\ f[7] <= y /\ f[8] <= y
    <3>1. f[5] \in Nat /\ f[6] \in Nat /\ f[7] \in Nat /\ f[8] \in Nat
      OBVIOUS
    <3> QED BY <3>1
  <2>3. z \in Nat /\ f[9] <= z /\ f[10] <= z /\ f[11] <= z
    <3>1. f[9] \in Nat /\ f[10] \in Nat /\ f[11] \in Nat
      OBVIOUS
    <3> QED BY <3>1
  <2> HIDE DEF x, y, z
  <2>4. t \in Nat /\ x <= t /\ y <= t /\ z <= t
    BY <2>1, <2>2, <2>3
  <2> HIDE DEF t
  <2>5. \A i \in 1 .. 11 : f[i] <= t
    BY <2>1, <2>2, <2>3, <2>4
  <2> QED BY <2>4, <2>5
<1>2. m \in B /\ \A n \in B : m <= n
  <2>1. B \in SUBSET Nat
    OBVIOUS
  <2> HIDE DEF B
  <2> QED BY <1>1, <2>1, LeastOf
<1> SUFFICES ASSUME \A i \in 1 .. 11 : f[i] # m PROVE FALSE
  BY <1>2
<1> HIDE DEF m
<1>3. \A i \in 1 .. 11 : f[i] <= m - 1
  BY <1>2
<1>4. m - 1 \in Nat
  BY <1>2, <1>3
<1>5. m - 1 \in B
  BY <1>3, <1>4
<1> QED BY <1>2, <1>5

LEMMA MagnitudeIs ==
  ASSUME NEW x \in Int
  PROVE  Magnitude(x) \in Nat /\ x <= Magnitude(x) /\ (x >= 0 => Magnitude(x) = x)
         /\ (x >= -150 /\ Magnitude(x) > 150 => Magnitude(x) = x)
BY DEF Magnitude

(* The dominant feature is the first of the largest Shapley values, and    *)
(* its value is large.                                                     *)
LEMMA DominantLeads ==
  ASSUME NEW v, NEW s, s = [i \in 1 .. 11 |-> Shapley(v, i)],
         \A i \in 1 .. 11 : s[i] \in Int /\ s[i] >= -150,
         \E i \in 1 .. 11 : s[i] > 500
  PROVE  Dominant(v) \in 1 .. 11 /\ Leads(s, Dominant(v)) /\ s[Dominant(v)] > 500
<1> DEFINE mag == [i \in 1 .. 11 |-> Magnitude(s[i])]
           D == {i \in 1 .. 11 : \A j \in 1 .. 11 : mag[i] >= mag[j]}
           d == Min(D)
<1>1. \A i \in 1 .. 11 : mag[i] \in Nat /\ s[i] <= mag[i] /\ (s[i] >= 0 => mag[i] = s[i])
         /\ (mag[i] > 150 => mag[i] = s[i])
  BY MagnitudeIs
<1>2. Dominant(v) = d
  BY FeaturesAre DEF Dominant
<1> HIDE DEF mag
<1>3. D # {}
  BY <1>1, LargestExists
<1>4. d \in D /\ \A i \in D : d <= i
  <2>1. D \in SUBSET Nat
    OBVIOUS
  <2> HIDE DEF D
  <2> QED BY <1>3, <2>1, LeastOf
<1> HIDE DEF d
<1>5. d \in 1 .. 11 /\ \A j \in 1 .. 11 : mag[d] >= mag[j]
  BY <1>4
<1>6. mag[d] > 500 /\ s[d] = mag[d]
  <2>1. PICK i \in 1 .. 11 : s[i] > 500
    OBVIOUS
  <2>2. mag[i] > 500
    BY <1>1, <2>1
  <2>3. mag[d] > 500
    BY <1>1, <1>5, <2>2
  <2> QED BY <1>1, <1>5, <2>3
<1>7. \A j \in 1 .. 11 : s[j] <= s[d]
  BY <1>1, <1>5, <1>6
<1>8. ASSUME NEW j \in 1 .. 11, j < d PROVE s[j] < s[d]
  <2> SUFFICES ASSUME s[j] = s[d] PROVE FALSE
    BY <1>5, <1>7
  <2>1. mag[j] = mag[d]
    BY <1>1, <1>6
  <2>2. j \in D
    BY <1>5, <2>1
  <2> QED BY <1>4, <1>5, <1>8, <2>2
<1>9. Leads(s, d)
  BY <1>7, <1>8 DEF Leads
<1> QED BY <1>2, <1>5, <1>6, <1>9

LEMMA PairIsFew ==
  ASSUME NEW S, NEW a, NEW b, S \subseteq {a, b} PROVE Cardinality(S) < 3
<1>1. IsFiniteSet({a, b}) /\ Cardinality({a, b}) <= 2
  <2>1. CASE a = b
    <3>1. {a, b} = {a}
      BY <2>1
    <3>2. IsFiniteSet({a}) /\ Cardinality({a}) = 1
      BY FS_Singleton
    <3> QED BY <3>1, <3>2
  <2>2. CASE a # b
    <3>1. {a, b} = {a} \cup {b} /\ b \notin {a}
      BY <2>2
    <3>2. IsFiniteSet({a}) /\ Cardinality({a}) = 1
      BY FS_Singleton
    <3>3. IsFiniteSet({a} \cup {b}) /\ Cardinality({a} \cup {b}) = Cardinality({a}) + 1
      BY <3>1, <3>2, FS_AddElement
    <3> QED BY <3>1, <3>2, <3>3
  <2> QED BY <2>1, <2>2
<1>2. Cardinality(S) <= Cardinality({a, b}) /\ Cardinality(S) \in Nat /\ Cardinality({a, b}) \in Nat
  BY <1>1, FS_Subset, FS_CardinalityType
<1> QED BY <1>1, <1>2

LEMMA Positive ==
  ASSUME NEW c, Contributes(c)
  PROVE  \A i \in 1 .. 11 : c[i] >= 0
<1> SUFFICES ASSUME NEW i \in 1 .. 11 PROVE c[i] >= 0
  OBVIOUS
<1>1. CASE i = 1 BY <1>1 DEF Contributes
<1>2. CASE i = 2 BY <1>2 DEF Contributes
<1>3. CASE i = 3 BY <1>3 DEF Contributes
<1>4. CASE i = 4 BY <1>4 DEF Contributes
<1>5. CASE i = 5 BY <1>5 DEF Contributes
<1>6. CASE i = 6 BY <1>6 DEF Contributes
<1>7. CASE i = 7 BY <1>7 DEF Contributes
<1>8. CASE i = 8 BY <1>8 DEF Contributes
<1>9. CASE i = 9 BY <1>9 DEF Contributes
<1>10. CASE i = 10 BY <1>10 DEF Contributes
<1>11. CASE i = 11 BY <1>11 DEF Contributes
<1> QED BY <1>1, <1>2, <1>3, <1>4, <1>5, <1>6, <1>7, <1>8, <1>9, <1>10, <1>11

(* The deterministic risk is a number, and what is above 0.45 the sum is.  *)
LEMMA DetRiskIs ==
  ASSUME NEW v, \A i \in 1 .. 11 : Contribution(v, i) \in Int
  PROVE  LET c == [i \in 1 .. 11 |-> Contribution(v, i)]
         IN  /\ DetRisk(v) \in Nat
             /\ DetRisk(v) > 45000 =>
                  c[1] + c[2] + c[3] + c[4] + c[5] + c[6] + c[7] + c[8] + c[9] + c[10] + c[11] > 45000
             /\ (\A i \in 1 .. 11 : c[i] = 0) => DetRisk(v) = 0
<1> DEFINE c == [i \in 1 .. 11 |-> Contribution(v, i)]
<1>1. DOMAIN c = 1 .. 11 /\ \A i \in 1 .. 11 : c[i] \in Int
  OBVIOUS
<1>2. DetRisk(v) = IF Total(c) < 0 THEN 0 ELSE AtMost(Total(c), 100000)
  BY FeaturesAre DEF DetRisk
<1> HIDE DEF c
<1>3. Total(c) = c[1] + c[2] + c[3] + c[4] + c[5] + c[6] + c[7] + c[8] + c[9] + c[10] + c[11]
  BY <1>1, TotalIsSum, SumOfEleven
<1>4. Total(c) \in Int
  BY <1>1, <1>3
<1>5. DetRisk(v) \in Nat /\ (DetRisk(v) > 45000 => Total(c) > 45000)
      /\ (Total(c) = 0 => DetRisk(v) = 0)
  BY <1>2, <1>4 DEF AtMost
<1>6. (\A i \in 1 .. 11 : c[i] = 0) => Total(c) = 0
  BY <1>3
<1> QED BY <1>3, <1>5, <1>6 DEF c

LEMMA VectorExplained ==
  ASSUME NEW v, Possible(v), v[4] >= 0, DetRisk(v) > 45000
  PROVE  /\ Reasons(v) # {}
         /\ Counterfactual(v) # {}
         /\ Counterfactual(v) \subseteq Reasons(v)
<1> DEFINE c == [i \in 1 .. 11 |-> Contribution(v, i)]
           s == [i \in 1 .. 11 |-> Shapley(v, i)]
           d == Dominant(v)
<1>1. Contributes(c)
  BY VectorContributes
<1>2. Explains(s, c)
  BY VectorExplains DEF Explains
<1>3. \A i \in 1 .. 11 : c[i] = Contribution(v, i) /\ s[i] = Shapley(v, i)
  OBVIOUS
<1>5. s = [i \in 1 .. 11 |-> Shapley(v, i)]
  OBVIOUS
<1>6. \A i \in 1 .. 11 : c[i] \in Int
  <2> HIDE DEF c
  <2> QED BY <1>1, Sizes
<1>7. c[1] + c[2] + c[3] + c[4] + c[5] + c[6] + c[7] + c[8] + c[9] + c[10] + c[11] > 45000
  <2>1. \A i \in 1 .. 11 : Contribution(v, i) \in Int
    BY <1>3, <1>6
  <2> QED BY <2>1, DetRiskIs
<1> HIDE DEF c, s
<1>8. c[1] + c[2] + c[3] + c[4] + c[5] + c[6] + c[7] + c[8] + c[9] + c[10] + c[11] >= 45000
  BY <1>6, <1>7
<1>9. \E i \in 1 .. 11 : s[i] > 500
  BY <1>1, <1>2, <1>8, SomeLarge
<1>10. \A i \in 1 .. 11 : s[i] \in Int /\ s[i] >= -150
  <2> SUFFICES ASSUME NEW i \in 1 .. 11 PROVE s[i] \in Int /\ s[i] >= -150
    OBVIOUS
  <2>1. Rounded(s[i], c[i] - Base(i))
    BY <1>2 DEF Explains
  <2>2. c[i] >= 0
    BY <1>1, Positive
  <2>3. Base(i) \in Int /\ Base(i) <= 1500
    BY DEF Base
  <2> QED BY <1>6, <2>1, <2>2, <2>3 DEF Rounded
<1>11. d \in 1 .. 11 /\ Leads(s, d) /\ s[d] > 500
  BY <1>5, <1>9, <1>10, DominantLeads
<1>12. c[d] > 5000
  BY <1>1, <1>2, <1>11, LargeContribution
<1>13. PICK a \in 1 .. 11 : \A j \in 1 .. 11 : Precedes(c, j, d) => j \in {5, a}
  BY <1>1, <1>2, <1>11, FewPrecede
<1> HIDE DEF d
<1>14. \A j \in 1 .. 11 : Outranks(v, j, d) => Precedes(c, j, d)
  BY <1>3, <1>11 DEF Outranks, Precedes
<1>15. {j \in 1 .. 11 : Outranks(v, j, d)} \subseteq {5, a}
  BY <1>13, <1>14
<1>16. d \in Reasons(v)
  <2>1. Cardinality({j \in 1 .. 11 : Outranks(v, j, d)}) < 3
    <3> DEFINE before == {j \in 1 .. 11 : Outranks(v, j, d)}
    <3>1. before \subseteq {5, a}
      BY <1>15
    <3> HIDE DEF before
    <3>2. before \subseteq {5, a} => Cardinality(before) < 3
      BY ONLY PairIsFew, Zenon
    <3>3. Cardinality(before) < 3
      BY <3>1, <3>2
    <3> QED BY <3>3 DEF before
  <2> QED BY <1>3, <1>11, <1>12, <2>1, FeaturesAre DEF Reasons
<1>17. Counterfactual(v) = {d}
  <2>1. ~(Shapley(v, d) <= 0)
    BY <1>3, <1>10, <1>11
  <2> QED BY <2>1 DEF Counterfactual, d
<1> QED BY <1>16, <1>17

-----------------------------------------------------------------------------
(* The spread of a history is that of numbers: the mean of the squares is  *)
(* no less than the square of the mean.                                    *)
Squares(q, f, S) == \A x \in S : f[x] \in Int /\ q[x] = f[x] * f[x]

LEMMA Square == \A x \in Int : x * x \in Nat
<1> SUFFICES ASSUME NEW x \in Int PROVE x * x >= 0
  OBVIOUS
<1>1. CASE x >= 0 BY <1>1
<1>2. CASE x < 0 BY <1>2
<1> QED BY <1>1, <1>2

LEMMA DeviationStep ==
  \A n, Q, F, y, x \in Int :
    Q + n * (y * y) - 2 * (y * F) >= 0
      => (x * x + Q) + (n + 1) * (y * y) - 2 * (y * (x + F)) >= 0
<1> SUFFICES ASSUME NEW n \in Int, NEW Q \in Int, NEW F \in Int, NEW y \in Int, NEW x \in Int,
                    Q + n * (y * y) - 2 * (y * F) >= 0
             PROVE  (x * x + Q) + (n + 1) * (y * y) - 2 * (y * (x + F)) >= 0
  OBVIOUS
<1>1. (x - y) * (x - y) >= 0
  BY Square
<1>2. (x * x + Q) + (n + 1) * (y * y) - 2 * (y * (x + F))
        = (Q + n * (y * y) - 2 * (y * F)) + (x - y) * (x - y)
  OBVIOUS
<1> QED BY <1>1, <1>2

LEMMA CauchyStep ==
  \A n, Q, F, y \in Int :
    n * Q >= F * F /\ Q + n * (y * y) - 2 * (y * F) >= 0
      => (n + 1) * (y * y + Q) >= (y + F) * (y + F)
<1> SUFFICES ASSUME NEW n \in Int, NEW Q \in Int, NEW F \in Int, NEW y \in Int,
                    n * Q >= F * F, Q + n * (y * y) - 2 * (y * F) >= 0
             PROVE  (n + 1) * (y * y + Q) >= (y + F) * (y + F)
  OBVIOUS
<1>1. (n + 1) * (y * y + Q) - (y + F) * (y + F)
        = (n * Q - F * F) + (Q + n * (y * y) - 2 * (y * F))
  OBVIOUS
<1> QED BY <1>1

LEMMA PartSums ==
  ASSUME NEW S, IsFiniteSet(S), NEW f, NEW q, Squares(q, f, S), NEW s \in SUBSET S
  PROVE  /\ Cardinality(s) \in Nat /\ Sum(f, s) \in Int /\ Sum(q, s) \in Int
         /\ \A x \in s : /\ s \ {x} \in SUBSET S /\ f[x] \in Int
                         /\ Cardinality(s \ {x}) = Cardinality(s) - 1
                         /\ Sum(f, s) = f[x] + Sum(f, s \ {x})
                         /\ Sum(q, s) = f[x] * f[x] + Sum(q, s \ {x})
                         /\ Sum(f, s \ {x}) \in Int /\ Sum(q, s \ {x}) \in Int
<1>1. \A t \in SUBSET S : IsFiniteSet(t) /\ \A x \in t : f[x] \in Int /\ q[x] \in Int /\ q[x] = f[x] * f[x]
  BY FS_Subset, Square DEF Squares
<1>2. \A t \in SUBSET S : Sum(f, t) \in Int /\ Sum(q, t) \in Int
  BY <1>1, SumIsInt
<1>3. \A x \in s : Sum(f, s) = f[x] + Sum(f, s \ {x}) /\ Sum(q, s) = q[x] + Sum(q, s \ {x})
  BY <1>1, SumTake
<1>4. /\ Cardinality(s) \in Nat
      /\ \A x \in s : s \ {x} \in SUBSET S /\ Cardinality(s \ {x}) = Cardinality(s) - 1
  BY Parts
<1>5. ASSUME NEW x \in s
      PROVE  /\ s \ {x} \in SUBSET S /\ f[x] \in Int
             /\ Cardinality(s \ {x}) = Cardinality(s) - 1
             /\ Sum(f, s) = f[x] + Sum(f, s \ {x})
             /\ Sum(q, s) = f[x] * f[x] + Sum(q, s \ {x})
             /\ Sum(f, s \ {x}) \in Int /\ Sum(q, s \ {x}) \in Int
  <2>1. s \ {x} \in SUBSET S /\ f[x] \in Int /\ q[x] = f[x] * f[x]
    BY <1>1, <1>4
  <2>2. Sum(f, s \ {x}) \in Int /\ Sum(q, s \ {x}) \in Int
    BY <1>2, <2>1
  <2>3. Sum(f, s) = f[x] + Sum(f, s \ {x}) /\ Sum(q, s) = f[x] * f[x] + Sum(q, s \ {x})
    BY <1>3, <2>1
  <2> QED BY <1>4, <2>1, <2>2, <2>3
<1> QED BY <1>2, <1>4, <1>5

LEMMA Deviations ==
  ASSUME NEW S, IsFiniteSet(S), NEW f, NEW q, Squares(q, f, S), NEW y \in Int
  PROVE  \A s \in SUBSET S : Sum(q, s) + Cardinality(s) * (y * y) - 2 * (y * Sum(f, s)) >= 0
<1> DEFINE A == {s \in SUBSET S : Sum(q, s) + Cardinality(s) * (y * y) - 2 * (y * Sum(f, s)) >= 0}
<1>1. ASSUME NEW s \in SUBSET S,
             \A t \in SUBSET S : Cardinality(t) < Cardinality(s) => t \in A
      PROVE  s \in A
  <2>1. CASE s = {}
    <3>1. Sum(q, s) = 0 /\ Sum(f, s) = 0 /\ Cardinality(s) = 0
      BY <2>1, SumEmpty, FS_EmptySet
    <3> QED BY <3>1
  <2>2. CASE s # {}
    <3>1. PICK x \in s : TRUE
      BY <2>2
    <3> DEFINE t == s \ {x}
               n == Cardinality(t)
               Q == Sum(q, t)
               F == Sum(f, t)
    <3>2. /\ t \in SUBSET S /\ f[x] \in Int /\ n = Cardinality(s) - 1
          /\ Cardinality(s) \in Nat
          /\ Sum(f, s) = f[x] + F /\ Sum(q, s) = f[x] * f[x] + Q /\ F \in Int /\ Q \in Int
      <4>1. /\ Cardinality(s) \in Nat /\ Sum(f, s) \in Int /\ Sum(q, s) \in Int
            /\ \A z \in s : /\ s \ {z} \in SUBSET S /\ f[z] \in Int
                            /\ Cardinality(s \ {z}) = Cardinality(s) - 1
                            /\ Sum(f, s) = f[z] + Sum(f, s \ {z})
                            /\ Sum(q, s) = f[z] * f[z] + Sum(q, s \ {z})
                            /\ Sum(f, s \ {z}) \in Int /\ Sum(q, s \ {z}) \in Int
        BY PartSums
      <4> QED BY <3>1, <4>1, Zenon
    <3> HIDE DEF n, Q, F
    <3>3. n \in Int /\ Cardinality(s) = n + 1 /\ n < Cardinality(s)
      BY <3>2
    <3>4. Q + n * (y * y) - 2 * (y * F) >= 0
      BY <1>1, <3>2, <3>3 DEF n, Q, F
    <3>5. (f[x] * f[x] + Q) + (n + 1) * (y * y) - 2 * (y * (f[x] + F)) >= 0
      BY <3>2, <3>3, <3>4, DeviationStep
    <3> QED BY <3>2, <3>3, <3>5
  <2> QED BY <2>1, <2>2
<1> HIDE DEF A
<1>2. \A s \in SUBSET S : s \in A
  BY <1>1, PartsInduction
<1> QED BY <1>2 DEF A

LEMMA CauchySchwarz ==
  ASSUME NEW S, IsFiniteSet(S), NEW f, NEW q, Squares(q, f, S)
  PROVE  Cardinality(S) * Sum(q, S) >= Sum(f, S) * Sum(f, S)
<1> DEFINE A == {s \in SUBSET S : Cardinality(s) * Sum(q, s) >= Sum(f, s) * Sum(f, s)}
<1>1. ASSUME NEW s \in SUBSET S,
             \A t \in SUBSET S : Cardinality(t) < Cardinality(s) => t \in A
      PROVE  s \in A
  <2>1. CASE s = {}
    <3>1. Sum(q, s) = 0 /\ Sum(f, s) = 0 /\ Cardinality(s) = 0
      BY <2>1, SumEmpty, FS_EmptySet
    <3> QED BY <3>1
  <2>2. CASE s # {}
    <3>1. PICK x \in s : TRUE
      BY <2>2
    <3> DEFINE t == s \ {x}
               n == Cardinality(t)
               Q == Sum(q, t)
               F == Sum(f, t)
    <3>2. /\ t \in SUBSET S /\ f[x] \in Int /\ n = Cardinality(s) - 1
          /\ Cardinality(s) \in Nat
          /\ Sum(f, s) = f[x] + F /\ Sum(q, s) = f[x] * f[x] + Q /\ F \in Int /\ Q \in Int
      <4>1. /\ Cardinality(s) \in Nat /\ Sum(f, s) \in Int /\ Sum(q, s) \in Int
            /\ \A z \in s : /\ s \ {z} \in SUBSET S /\ f[z] \in Int
                            /\ Cardinality(s \ {z}) = Cardinality(s) - 1
                            /\ Sum(f, s) = f[z] + Sum(f, s \ {z})
                            /\ Sum(q, s) = f[z] * f[z] + Sum(q, s \ {z})
                            /\ Sum(f, s \ {z}) \in Int /\ Sum(q, s \ {z}) \in Int
        BY PartSums
      <4> QED BY <3>1, <4>1, Zenon
    <3>3. Q + n * (f[x] * f[x]) - 2 * (f[x] * F) >= 0
      BY <3>2, Deviations
    <3> HIDE DEF n, Q, F
    <3>4. n \in Int /\ Cardinality(s) = n + 1 /\ n < Cardinality(s)
      BY <3>2
    <3>5. n * Q >= F * F
      BY <1>1, <3>2, <3>4 DEF n, Q, F
    <3>6. (n + 1) * (f[x] * f[x] + Q) >= (f[x] + F) * (f[x] + F)
      BY <3>2, <3>3, <3>4, <3>5, CauchyStep
    <3> QED BY <3>2, <3>4, <3>6
  <2> QED BY <2>1, <2>2
<1> HIDE DEF A
<1>2. \A s \in SUBSET S : s \in A
  BY <1>1, PartsInduction
<1> QED BY <1>2 DEF A

LEMMA RootExists == \A x \in Nat : Root(x) \in Nat
<1> SUFFICES ASSUME NEW x \in Nat PROVE Root(x) \in 0 .. x
  OBVIOUS
<1> DEFINE B == {n \in Nat : x < (n + 1) * (n + 1)}
           r == Min(B)
<1>1. B # {}
  <2>1. x < (x + 1) * (x + 1)
    <3>1. (x + 1) * (x + 1) = x * x + 2 * x + 1
      OBVIOUS
    <3> QED BY <3>1, Square
  <2> QED BY <2>1
<1>2. r \in B /\ \A n \in B : r <= n
  <2>1. B \in SUBSET Nat
    OBVIOUS
  <2> HIDE DEF B
  <2> QED BY <1>1, <2>1, LeastOf
<1> HIDE DEF r
<1>3. r \in Nat /\ x < (r + 1) * (r + 1)
  BY <1>2
<1>4. r * r <= x
  <2>1. CASE r = 0 BY <2>1
  <2>2. CASE r # 0
    <3>1. r - 1 \in Nat /\ r - 1 \notin B
      BY <1>2, <1>3, <2>2
    <3>2. ~(x < ((r - 1) + 1) * ((r - 1) + 1))
      BY <3>1
    <3>3. (r - 1) + 1 = r
      BY <1>3
    <3>4. r * r \in Nat
      BY <1>3, Square
    <3> QED BY <3>2, <3>3, <3>4
  <2> QED BY <2>1, <2>2
<1>5. r \in 0 .. x
  <2>1. CASE r = 0 BY <2>1
  <2>2. CASE r # 0
    <3>1. r >= 1
      BY <1>3, <2>2
    <3>2. r * r >= r
      BY <1>3, <3>1
    <3>3. r * r \in Nat
      BY <1>3, Square
    <3> QED BY <1>3, <1>4, <3>2, <3>3
  <2> QED BY <2>1, <2>2
<1> QED BY <1>3, <1>4, <1>5 DEF Root

-----------------------------------------------------------------------------
(* The vector of an event, whatever history it is seen against. *)
History(p) == p.hours \in Seq(0 .. 23) /\ p.amounts \in Seq(Int) /\ p.burst \in Nat

Attempted(e) ==
  /\ e.hour \in 0 .. 23 /\ e.amount \in Int
  /\ e.type \in DOMAIN CriticalityOf /\ e.channel \in DOMAIN ChannelRiskOf
  /\ {e.beneficiary, e.recovery} \subseteq BOOLEAN

LEMMA LatestOf ==
  ASSUME NEW S, NEW s \in Seq(S), NEW n \in Nat
  PROVE  Latest(s, n) \in Seq(S)
<1>1. CASE Len(s) > n
  <2>1. Len(s) - n + 1 \in 1 .. Len(s) + 1 /\ Len(s) \in Nat
    BY <1>1
  <2>2. Latest(s, n) = SubSeq(s, Len(s) - n + 1, Len(s))
    BY <1>1 DEF Latest
  <2>3. \A a \in 1 .. Len(s) + 1 : SubSeq(s, a, Len(s)) \in Seq(S)
    OBVIOUS
  <2> QED BY <2>1, <2>2, <2>3
<1>2. CASE ~(Len(s) > n)
  <2>1. Latest(s, n) = SubSeq(s, 1, Len(s))
    BY <1>2 DEF Latest
  <2>2. SubSeq(s, 1, Len(s)) \in Seq(S)
    OBVIOUS
  <2> QED BY <2>1, <2>2
<1> QED BY <1>1, <1>2

LEMMA CapIs == \A x, y \in Int : AtMost(x, y) \in Int /\ AtMost(x, y) <= y /\ AtMost(x, y) <= x
                               /\ (x >= 0 /\ y >= 0 => AtMost(x, y) \in Nat)
BY DEF AtMost

LEMMA Quotient == \A x \in Nat, y \in Nat \ {0} : x \div y \in Nat
OBVIOUS

LEMMA DistanceIs == \A h, k \in 0 .. 23 : Distance(h, k) \in Nat
BY DEF Distance, AtMost

LEMMA HourIs ==
  ASSUME NEW p, History(p), NEW hour \in 0 .. 23
  PROVE  HourDeviation(p, hour) \in Nat /\ HourDeviation(p, hour) <= 1000
<1> DEFINE last == Latest(p.hours, Recent)
           seen == ToSet(last)
           far == {Distance(hour, h) : h \in seen}
<1>1. last \in Seq(0 .. 23)
  BY HistoryAssumption, LatestOf DEF History
<1>2. seen \subseteq 0 .. 23
  <2>1. \A n \in DOMAIN last : last[n] \in 0 .. 23
    <3> HIDE DEF last
    <3> QED BY <1>1
  <2> HIDE DEF last
  <2> QED BY <2>1, Zenon DEF ToSet
<1> HIDE DEF last, seen
<1>3. CASE seen = {}
  BY <1>3 DEF HourDeviation, seen, last
<1>4. CASE seen # {}
  <2>1. far \in SUBSET Nat /\ far # {}
    BY <1>2, <1>4, DistanceIs
  <2> HIDE DEF far
  <2>2. Min(far) \in Nat
    BY <2>1, LeastOf
  <2>3. HourDeviation(p, hour) = AtMost((Min(far) * 1000) \div 12, 1000)
    BY <1>4 DEF HourDeviation, seen, last, far
  <2>4. (Min(far) * 1000) \div 12 \in Nat
    BY <2>2
  <2> QED BY <2>3, <2>4, CapIs
<1> QED BY <1>3, <1>4

LEMMA SpreadIs ==
  ASSUME NEW hist \in Seq(Int)
  PROVE  /\ Total(hist) \in Int
         /\ Root(Len(hist) * Total([i \in 1 .. Len(hist) |-> hist[i] * hist[i]])
                   - Total(hist) * Total(hist)) \in Nat
<1> DEFINE n == Len(hist)
           q == [i \in 1 .. n |-> hist[i] * hist[i]]
           S == 1 .. n
<1>1. n \in Nat /\ DOMAIN hist = S /\ \A i \in S : hist[i] \in Int
  OBVIOUS
<1>2. IsFiniteSet(S) /\ Cardinality(S) = n
  <2>1. 1 \in Int /\ n \in Int /\ 1 .. n = S
    OBVIOUS
  <2> HIDE DEF n, S
  <2>2. IsFiniteSet(S) /\ Cardinality(S) = IF 1 > n THEN 0 ELSE n - 1 + 1
    BY <2>1, FS_Interval
  <2> QED BY <1>1, <2>2
<1>3. Squares(q, hist, S)
  BY <1>1 DEF Squares
<1>4. DOMAIN q = S
  OBVIOUS
<1>5. Total(hist) = Sum(hist, S) /\ Total(q) = Sum(q, S)
  BY <1>1, <1>4, TotalIsSum
<1> HIDE DEF q, S
<1>6. n * Sum(q, S) >= Sum(hist, S) * Sum(hist, S)
  BY <1>2, <1>3, CauchySchwarz
<1>7. Sum(hist, S) \in Int /\ Sum(q, S) \in Int
  <2>1. \A i \in S : hist[i] \in Int /\ q[i] \in Int
    BY <1>3, Square DEF Squares
  <2> QED BY <1>2, <2>1, SumIsInt
<1> HIDE DEF n
<1>8. n * Total(q) - Total(hist) * Total(hist) \in Nat
  BY <1>1, <1>5, <1>6, <1>7
<1>9. Root(n * Total(q) - Total(hist) * Total(hist)) \in Nat
  BY <1>8, RootExists
<1> QED BY <1>5, <1>7, <1>9 DEF n, q

LEMMA AmountIs ==
  ASSUME NEW p, History(p), NEW amount \in Int
  PROVE  AmountZScore(p, amount) \in Int /\ AmountZScore(p, amount) <= 1000
<1> DEFINE hist == Latest(p.amounts, Recent)
           n == Len(hist)
           total == Total(hist)
           gap == IF n * amount > total THEN n * amount - total ELSE total - n * amount
           spread == Root(n * Total([i \in 1 .. n |-> hist[i] * hist[i]]) - total * total)
<1>1. hist \in Seq(Int)
  BY HistoryAssumption, LatestOf DEF History
<1>2. AmountZScore(p, amount) =
        IF amount = Missing THEN 0
        ELSE IF n < Enough THEN AtMost(amount * 10, 1000)
        ELSE IF gap = 0 THEN 0
        ELSE IF spread = 0 THEN 1000
        ELSE AtMost((gap * 1000) \div (3 * spread), 1000)
  BY DEF AmountZScore
<1>3. n \in Nat /\ total \in Int /\ spread \in Nat
  <2> HIDE DEF hist
  <2> QED BY <1>1, SpreadIs
<1> HIDE DEF hist, n, total, spread
<1>4. gap \in Nat
  BY <1>3
<1> HIDE DEF gap
<1>5. amount * 10 \in Int /\ gap * 1000 \in Nat
  BY <1>4
<1>6. ASSUME spread # 0 PROVE (gap * 1000) \div (3 * spread) \in Nat
  <2>1. 3 * spread \in Nat \ {0}
    BY <1>3, <1>6
  <2> QED BY <1>5, <2>1, Quotient
<1>7. AtMost(amount * 10, 1000) \in Int /\ AtMost(amount * 10, 1000) <= 1000
  BY DEF AtMost
<1>8. ASSUME spread # 0
      PROVE  /\ AtMost((gap * 1000) \div (3 * spread), 1000) \in Int
             /\ AtMost((gap * 1000) \div (3 * spread), 1000) <= 1000
  BY <1>6, <1>8, CapIs
<1> QED BY <1>2, <1>7, <1>8

LEMMA BurstIs ==
  ASSUME NEW burst \in Nat
  PROVE  /\ NextBurst(burst) \in Nat
         /\ AtMost((NextBurst(burst) * 1000) \div (15 * BurstUnit), 1000) \in Nat
         /\ AtMost((NextBurst(burst) * 1000) \div (15 * BurstUnit), 1000) <= 1000
<1>1. NextBurst(burst) \in Nat
  BY DEF NextBurst, BurstUnit
<1>2. (NextBurst(burst) * 1000) \div (15 * BurstUnit) \in Nat
  BY <1>1, Quotient DEF BurstUnit
<1> QED BY <1>1, <1>2, CapIs

LEMMA SharingIs ==
  ASSUME NEW share \in Nat \ {0}
  PROVE  AtMost(((share - 1) * 1000) \div 3, 1000) \in {0, 333, 666, 1000}
<1>1. CASE share = 1 BY <1>1 DEF AtMost
<1>2. CASE share = 2 BY <1>2 DEF AtMost
<1>3. CASE share = 3 BY <1>3 DEF AtMost
<1>4. CASE share > 3
  <2>1. ((share - 1) * 1000) \div 3 >= 1000
    BY <1>4
  <2>2. ((share - 1) * 1000) \div 3 \in Int
    OBVIOUS
  <2> QED BY <2>1, <2>2 DEF AtMost
<1> QED BY <1>1, <1>2, <1>3, <1>4

Assessed(p, e, share, similarity) ==
  /\ History(p) /\ Attempted(e)
  /\ share \in Nat \ {0} /\ similarity \in (0 .. 1000) \cup {Missing}

LEMMA VectorIs ==
  ASSUME NEW p, NEW e, NEW share, NEW similarity, Assessed(p, e, share, similarity)
  PROVE  Possible(Vector(p, e, share, similarity))
<1>0. /\ History(p) /\ Attempted(e)
      /\ share \in Nat \ {0} /\ similarity \in (0 .. 1000) \cup {Missing}
  BY DEF Assessed
<1> DEFINE v == ComputeFeatures(p, e, share, similarity)
           w == [v EXCEPT ![1] = @ \div 2, ![2] = @ \div 2]
<1>1. /\ v[1] = IF Cold(p) THEN 400 ELSE Flag(e.device \notin p.devices)
      /\ v[2] = IF Cold(p) THEN 500 ELSE Flag(e.geo \notin p.geos)
      /\ v[3] = HourDeviation(p, e.hour)
      /\ v[4] = AmountZScore(p, e.amount)
      /\ v[5] = (IF similarity = Missing THEN 500 ELSE 1000 - similarity)
      /\ v[6] = CriticalityOf[e.type]
      /\ v[7] = ChannelRiskOf[e.channel]
      /\ v[8] = Flag(e.beneficiary)
      /\ v[9] = Flag(e.recovery)
      /\ v[10] = AtMost((NextBurst(p.burst) * 1000) \div (15 * BurstUnit), 1000)
      /\ v[11] = AtMost(((share - 1) * 1000) \div 3, 1000)
  BY DEF ComputeFeatures
<1>2. \E a1, a2, a3, a4, a5, a6, a7, a8, a9, a10, a11 :
        v = <<a1, a2, a3, a4, a5, a6, a7, a8, a9, a10, a11>>
  BY DEF ComputeFeatures
<1>3. Vector(p, e, share, similarity) = v \/ (Cold(p) /\ Vector(p, e, share, similarity) = w)
  BY DEF Vector, Discounted
<1>4. ASSUME Cold(p) PROVE v[1] = 400 /\ v[2] = 500
  BY <1>4 DEF ComputeFeatures
<1> HIDE DEF v
<1>5. \A b \in BOOLEAN : Flag(b) \in {0, 1000}
  BY DEF Flag
<1>6. v[1] \in {0, 400, 1000} /\ v[2] \in {0, 500, 1000}
  BY <1>1 DEF Flag
<1>7. v[3] \in Nat /\ v[3] <= 1000
  BY <1>0, <1>1, HourIs DEF Attempted
<1>8. v[4] \in Int /\ v[4] <= 1000
  BY <1>0, <1>1, AmountIs DEF Attempted
<1>9. v[5] \in Nat /\ v[5] <= 1000
  BY <1>0, <1>1 DEF Missing
<1>10. v[6] \in {200, 400, 500, 600, 800, 900}
  BY <1>0, <1>1 DEF Attempted, CriticalityOf
<1>11. v[7] \in {100, 300, 400, 500, 700}
  BY <1>0, <1>1 DEF Attempted, ChannelRiskOf
<1>12. v[8] \in {0, 1000} /\ v[9] \in {0, 1000}
  BY <1>0, <1>1, <1>5 DEF Attempted
<1>13. v[10] \in Nat /\ v[10] <= 1000
  <2>1. p.burst \in Nat
    BY <1>0 DEF History
  <2> HIDE DEF History
  <2> QED BY <1>1, <2>1, BurstIs
<1>14. v[11] \in {0, 333, 666, 1000}
  BY <1>0, <1>1, SharingIs
<1>15. Possible(v)
  BY <1>6, <1>7, <1>8, <1>9, <1>10, <1>11, <1>12, <1>13, <1>14 DEF Possible
<1>16. DOMAIN v = 1 .. 11 /\ v = [i \in 1 .. 11 |-> v[i]]
  BY <1>2
<1>17. v \in [1 .. 11 -> Int]
  BY <1>15, <1>16, PossibleInt
<1>18. ASSUME Cold(p) PROVE Possible(w)
  <2>1. w[1] = v[1] \div 2 /\ w[2] = v[2] \div 2 /\ \A i \in 3 .. 11 : w[i] = v[i]
    BY <1>17
  <2>2. w[1] = 200 /\ w[2] = 250
    BY <1>4, <1>18, <2>1
  <2> HIDE DEF w
  <2> QED BY <1>15, <2>1, <2>2 DEF Possible
<1> HIDE DEF w
<1> QED BY <1>15, <1>3, <1>18

-----------------------------------------------------------------------------
(* The life of an identity. *)
ExplainedInv ==
  /\ History(profile) /\ (vec = NoVector \/ Possible(vec))
  /\ judged.score \in (0 .. 1000) \cup {Missing} /\ judged.impossible \in BOOLEAN

LEMMA InitExplained == FeatureInit => ExplainedInv
BY DEF FeatureInit, ExplainedInv, History, NewProfile, Judged

LEMMA AttemptExplained ==
  ASSUME ExplainedInv, NEW e \in Events, NEW share \in Shares, NEW similarity \in Similarities,
         NEW score \in ModelScores, NEW impossible \in BOOLEAN, NEW allowed \in BOOLEAN,
         Attempt(e, share, similarity, score, impossible, allowed)
  PROVE  ExplainedInv'
<1> DEFINE tried == [profile EXCEPT !.burst = NextBurst(@), !.prior_used = @ \/ Cold(profile)]
<1>1. Attempted(e)
  BY EventsAssumption DEF Attempted
<1>2. vec' = Vector(profile, e, share, similarity)
      /\ profile' = IF allowed THEN CommitFeatures(tried, e) ELSE tried
  BY DEF Attempt
<1>3. Possible(Vector(profile, e, share, similarity))
  <2>1. History(profile)
    BY DEF ExplainedInv
  <2>2. share \in Nat \ {0}
    BY SharesAssumption
  <2>3. similarity \in (0 .. 1000) \cup {Missing}
    BY SimilaritiesAssumption
  <2> QED BY <1>1, <2>1, <2>2, <2>3, VectorIs DEF Assessed
<1>4. History(tried)
  BY BurstIs DEF ExplainedInv, History
<1>5. History(CommitFeatures(tried, e))
  BY <1>1, <1>4 DEF CommitFeatures, History, Attempted
<1>6. judged'.score \in (0 .. 1000) \cup {Missing} /\ judged'.impossible \in BOOLEAN
  BY ModelScoresAssumption DEF Attempt, Judged
<1> HIDE DEF tried
<1> QED BY <1>2, <1>3, <1>4, <1>5, <1>6 DEF ExplainedInv

LEMMA StepExplained ==
  ExplainedInv /\ [AssessNext \/ ExportNext]_featureVars => ExplainedInv'
<1> SUFFICES ASSUME ExplainedInv, [AssessNext \/ ExportNext]_featureVars PROVE ExplainedInv'
  OBVIOUS
<1>1. CASE AssessNext
  BY <1>1, AttemptExplained DEF AssessNext
<1>2. CASE UNCHANGED <<profile, vec, judged>>
  BY <1>2 DEF ExplainedInv
<1>3. CASE ExportNext
  <2>1. ASSUME NEW l, AddLogin(l) PROVE UNCHANGED <<profile, vec, judged>>
    BY <2>1 DEF AddLogin
  <2>2. ASSUME NEW limit, NEW noise, NEW blur, ExportAggregates(limit, noise, blur)
        PROVE  UNCHANGED <<profile, vec, judged>>
    BY <2>2 DEF ExportAggregates
  <2> QED BY <1>2, <1>3, <2>1, <2>2, Zenon DEF ExportNext
<1>4. CASE UNCHANGED featureVars
  BY <1>2, <1>4 DEF featureVars
<1> QED BY <1>1, <1>3, <1>4

LEMMA ZeroContributes ==
  ASSUME NEW v, \A i \in 1 .. 11 : v[i] = 0
  PROVE  \A i \in 1 .. 11 : Contribution(v, i) = 0
<1>1. /\ Contribution(v, 1) = 0 /\ Contribution(v, 2) = 0 /\ Contribution(v, 3) = 0
      /\ Contribution(v, 4) = 0 /\ Contribution(v, 5) = 0 /\ Contribution(v, 6) = 0
      /\ Contribution(v, 7) = 0 /\ Contribution(v, 8) = 0 /\ Contribution(v, 9) = 0
      /\ Contribution(v, 10) = 0 /\ Contribution(v, 11) = 0
  BY ContributionsAre
<1> QED BY <1>1

LEMMA NothingIsHarmless == DetRisk(NoVector) = 0
<1>1. \A i \in 1 .. 11 : NoVector[i] = 0
  BY FeaturesAre DEF NoVector
<1>2. \A i \in 1 .. 11 : Contribution(NoVector, i) = 0
  BY <1>1, ZeroContributes
<1> QED BY <1>2, DetRiskIs

LEMMA PossibleRisk ==
  ASSUME NEW v, Possible(v), v[4] >= 0 PROVE DetRisk(v) \in Nat
<1> DEFINE c == [i \in 1 .. 11 |-> Contribution(v, i)]
<1>1. Contributes(c)
  BY VectorContributes
<1>2. \A i \in 1 .. 11 : c[i] = Contribution(v, i)
  OBVIOUS
<1> HIDE DEF c
<1>3. \A i \in 1 .. 11 : c[i] \in Int
  BY <1>1, Sizes
<1>4. \A i \in 1 .. 11 : Contribution(v, i) \in Int
  BY <1>2, <1>3
<1> QED BY <1>4, DetRiskIs

(* More than half of what costs trust comes from the model, or from the    *)
(* features alone.                                                         *)
LEMMA CostComesFrom ==
  ASSUME NEW det \in Nat, det <= 45000, NEW score \in (0 .. 1000) \cup {Missing},
         IF score = Missing THEN 100 * det > 4500000 ELSE 5500 * score + 45 * det > 4500000
  PROVE  score > 450
OBVIOUS

LEMMA ReasonsAreFeatures == \A v : Normal \notin Reasons(v)
BY FeaturesAre DEF Normal, Reasons

LEMMA ExplainedHolds == ExplainedInv => SuspicionIsExplained
<1> DEFINE score == judged.score
           impossible == judged.impossible
           codes == ReasonCodes(vec, impossible)
           det == DetRisk(vec)
<1> SUFFICES ASSUME ExplainedInv, \A i \in Features : vec[i] >= 0
             PROVE  /\ CostsTrust(EventRisk(vec, score, impossible)) =>
                         codes # {Normal} \/ ModelAlone
                    /\ det > 45000 =>
                         Counterfactual(vec) # {} /\ Counterfactual(vec) \subseteq codes
  BY DEF SuspicionIsExplained
<1>1. det \in Nat
  <2>1. vec[4] >= 0
    BY FeaturesAre
  <2> QED BY <2>1, NothingIsHarmless, PossibleRisk DEF ExplainedInv
<1>2. ASSUME det > 45000
      PROVE  /\ Reasons(vec) # {} /\ Counterfactual(vec) # {}
             /\ Counterfactual(vec) \subseteq Reasons(vec)
  <2>1. vec # NoVector
    BY <1>2, NothingIsHarmless
  <2>2. Possible(vec)
    BY <2>1 DEF ExplainedInv
  <2>3. vec[4] >= 0
    BY FeaturesAre
  <2> QED BY <1>2, <2>2, <2>3, VectorExplained
<1>3. det > 45000 => Counterfactual(vec) # {} /\ Counterfactual(vec) \subseteq codes
  BY <1>2 DEF ReasonCodes
<1>4. ASSUME CostsTrust(EventRisk(vec, score, impossible)) PROVE codes # {Normal} \/ ModelAlone
  <2>1. CASE impossible
    BY <2>1 DEF ReasonCodes, Travel, Normal
  <2>2. CASE det > 45000
    BY <1>2, <2>2, ReasonsAreFeatures DEF ReasonCodes
  <2>3. CASE ~impossible /\ ~(det > 45000)
    <3>1. impossible = FALSE /\ score \in (0 .. 1000) \cup {Missing}
      BY <2>3 DEF ExplainedInv
    <3>2. det <= 45000
      BY <1>1, <2>3
    <3>3. score > 450
      <4>1. IF score = Missing THEN 100 * det > 4500000 ELSE 5500 * score + 45 * det > 4500000
        BY <1>4, <2>3 DEF CostsTrust, EventRisk
      <4> HIDE DEF score, det
      <4> QED BY <1>1, <3>1, <3>2, <4>1, CostComesFrom
    <3> QED BY <2>3, <3>2, <3>3 DEF ModelAlone
  <2> QED BY <2>1, <2>2, <2>3
<1> QED BY <1>3, <1>4

(* _explain, explain.py: an event that costs trust is reported with more   *)
(* than NORMAL unless the model alone finds it suspicious, and what the    *)
(* counterfactual names of one whose features cost trust by themselves is  *)
(* among the reasons, whatever the identity did before.                    *)
THEOREM SuspicionExplained == FeatureSpec => []SuspicionIsExplained
BY InitExplained, StepExplained, ExplainedHolds, PTL DEF FeatureSpec

(***************************************************************************)
(* What one user can change in a release.  The replay is followed login by *)
(* login, with the user's logins and without.                              *)
(***************************************************************************)
Logins == [user : Users, device : LogDevices, country : Countries, genuine : BOOLEAN]

(* The recursion behind Replayed, over the parts of S. *)
Resumed(entries, g, s) ==
  IF s = {} THEN Fresh ELSE Replay(entries[LastOf(entries, s)], g[s \ {LastOf(entries, s)}])
Replays(g, entries, S) == g = [s \in SUBSET S |-> Resumed(entries, g, s)]

LEMMA ReplayedIs ==
  ASSUME NEW entries, NEW S PROVE Replayed(entries, S) = (CHOOSE g : Replays(g, entries, S))[S]
BY DEF Replayed, MapThenFoldSet, Replays, Resumed

LEMMA UserIsInt ==
  ASSUME NEW entries \in Seq(Logins), NEW i \in DOMAIN entries
  PROVE  /\ entries[i] \in Logins /\ i \in Int /\ entries[i].user \in Users /\ entries[i].user \in Int
<1>1. entries[i] \in Logins /\ i \in Int
  OBVIOUS
<1>2. entries[i].user \in Users
  BY <1>1 DEF Logins
<1> QED BY <1>1, <1>2, LogAssumption

(* The sort is by user, then time: a set of logins has a last one. *)
LEMMA SortIsTotal ==
  ASSUME NEW entries \in Seq(Logins), NEW i \in DOMAIN entries, NEW j \in DOMAIN entries, i # j
  PROVE  /\ SortsBefore(entries, i, j) \/ SortsBefore(entries, j, i)
         /\ ~ (SortsBefore(entries, i, j) /\ SortsBefore(entries, j, i))
<1>1. entries[i].user \in Int /\ entries[j].user \in Int /\ i \in Int /\ j \in Int
  BY UserIsInt
<1> QED BY <1>1 DEF SortsBefore

LEMMA SortIsTransitive ==
  ASSUME NEW entries \in Seq(Logins), NEW i \in DOMAIN entries, NEW j \in DOMAIN entries,
         NEW k \in DOMAIN entries, SortsBefore(entries, i, j), SortsBefore(entries, j, k)
  PROVE  SortsBefore(entries, i, k)
<1>1. /\ entries[i].user \in Int /\ entries[j].user \in Int /\ entries[k].user \in Int
      /\ i \in Int /\ j \in Int /\ k \in Int
  BY UserIsInt
<1> QED BY <1>1 DEF SortsBefore

IsLast(entries, i, S) == i \in S /\ \A j \in S \ {i} : SortsBefore(entries, j, i)

LEMMA LastIs ==
  ASSUME NEW entries \in Seq(Logins), NEW S \in SUBSET DOMAIN entries, S # {}
  PROVE  IsLast(entries, LastOf(entries, S), S)
<1> DEFINE ended == {s \in SUBSET S : s # {} => \E i \in s : IsLast(entries, i, s)}
<1>1. IsFiniteSet(S)
  <2>1. DOMAIN entries = 1 .. Len(entries) /\ Len(entries) \in Nat
    OBVIOUS
  <2>2. \A n \in Nat : IsFiniteSet(1 .. n)
    BY FS_Interval
  <2> QED BY <2>1, <2>2, FS_Subset
<1>2. ASSUME NEW s \in SUBSET S,
             \A t \in SUBSET S : Cardinality(t) < Cardinality(s) => t \in ended,
             s # {}
      PROVE  \E i \in s : IsLast(entries, i, s)
  <2> DEFINE x == Chosen(s)
             t == s \ {x}
  <2>1. x \in s /\ t \in SUBSET S /\ Cardinality(t) < Cardinality(s)
    BY <1>1, <1>2, Parts, ChosenIn
  <2>2. t # {} => \E i \in t : IsLast(entries, i, t)
    BY <1>2, <2>1
  <2> HIDE DEF x
  <2>3. CASE t = {}
    BY <2>1, <2>3 DEF IsLast
  <2>4. CASE t # {}
    <3>1. PICK i \in t : IsLast(entries, i, t)
      BY <2>2, <2>4
    <3>2. CASE SortsBefore(entries, x, i)
      BY <2>1, <3>1, <3>2 DEF IsLast
    <3>3. CASE ~ SortsBefore(entries, x, i)
      <4>1. SortsBefore(entries, i, x)
        BY <2>1, <3>1, <3>3, SortIsTotal
      <4>2. ASSUME NEW j \in s \ {x} PROVE SortsBefore(entries, j, x)
        <5>1. j \in DOMAIN entries /\ i \in DOMAIN entries /\ x \in DOMAIN entries
          BY <2>1, <3>1
        <5>2. j # i => SortsBefore(entries, j, i)
          BY <3>1, <4>2 DEF IsLast
        <5> QED BY <4>1, <5>1, <5>2, SortIsTransitive
      <4> QED BY <2>1, <4>2 DEF IsLast
    <3> QED BY <3>2, <3>3
  <2> QED BY <2>3, <2>4
<1>3. \A s \in SUBSET S : s \in ended
  <2>1. \A s \in SUBSET S :
          (\A t \in SUBSET S : Cardinality(t) < Cardinality(s) => t \in ended) => s \in ended
    BY <1>2
  <2> HIDE DEF ended
  <2> QED BY <1>1, <2>1, PartsInduction
<1>4. \E i \in S : IsLast(entries, i, S)
  BY <1>3
<1> QED BY <1>4 DEF LastOf, IsLast

LEMMA LastIsOne ==
  ASSUME NEW entries \in Seq(Logins), NEW S \in SUBSET DOMAIN entries, NEW i \in S, IsLast(entries, i, S)
  PROVE  LastOf(entries, S) = i
<1>1. IsLast(entries, LastOf(entries, S), S)
  BY LastIs
<1> QED BY <1>1, SortIsTotal DEF IsLast

LEMMA ReplaysExists ==
  ASSUME NEW entries \in Seq(Logins), NEW S \in SUBSET DOMAIN entries, IsFiniteSet(S)
  PROVE  \E g : Replays(g, entries, S)
<1> DEFINE reached ==
      {n \in Nat : \E g : \A s \in SUBSET S : Cardinality(s) <= n => g[s] = Resumed(entries, g, s)}
<1>0. \A s \in SUBSET S : s # {} => LastOf(entries, s) \in s
  BY LastIs DEF IsLast
<1>1. ASSUME NEW n \in Nat, \A m \in Nat : m < n => m \in reached PROVE n \in reached
  <2>1. CASE n = 0
    <3> DEFINE g == [s \in SUBSET S |-> Fresh]
    <3>1. \A s \in SUBSET S : Cardinality(s) <= 0 => s = {}
      BY Parts
    <3>2. \A s \in SUBSET S : Cardinality(s) <= 0 => g[s] = Resumed(entries, g, s)
      BY <3>1 DEF Resumed
    <3> QED BY <2>1, <3>2
  <2>2. CASE n # 0
    <3>1. n - 1 \in Nat /\ n - 1 < n
      BY <2>2
    <3>2. PICK g : \A s \in SUBSET S : Cardinality(s) <= n - 1 => g[s] = Resumed(entries, g, s)
      BY <1>1, <3>1
    <3> DEFINE h == [s \in SUBSET S |-> Resumed(entries, g, s)]
    <3>3. ASSUME NEW s \in SUBSET S, Cardinality(s) <= n PROVE h[s] = Resumed(entries, h, s)
      <4>1. CASE s = {}
        BY <4>1 DEF Resumed
      <4>2. CASE s # {}
        <5> DEFINE t == s \ {LastOf(entries, s)}
        <5>1. t \in SUBSET S /\ Cardinality(t) <= n - 1
          BY <1>0, <3>3, <4>2, Parts
        <5>2. h[t] = g[t]
          BY <3>2, <5>1
        <5> QED BY <4>2, <5>2 DEF Resumed
      <4> QED BY <4>1, <4>2
    <3> QED BY <3>3
  <2> QED BY <2>1, <2>2
<1>2. \A n \in Nat : n \in reached
  <2> HIDE DEF reached
  <2> QED BY <1>1, LeastInduction
<1>3. Cardinality(S) \in reached
  BY <1>2, Parts
<1>4. PICK g : \A s \in SUBSET S : Cardinality(s) <= Cardinality(S) => g[s] = Resumed(entries, g, s)
  BY <1>3
<1>5. \A s \in SUBSET S : g[s] = Resumed(entries, g, s)
  BY <1>4, Parts
<1> DEFINE h == [s \in SUBSET S |-> g[s]]
<1>6. \A s \in SUBSET S : Resumed(entries, g, s) = Resumed(entries, h, s)
  BY <1>0 DEF Resumed
<1>7. Replays(h, entries, S)
  BY <1>5, <1>6 DEF Replays
<1> QED BY <1>7

LEMMA ReplaysAgree ==
  ASSUME NEW entries \in Seq(Logins), NEW S \in SUBSET DOMAIN entries, IsFiniteSet(S), NEW T \in SUBSET S,
         NEW g, Replays(g, entries, S), NEW h, Replays(h, entries, T)
  PROVE  g[T] = h[T]
<1> DEFINE same == {s \in SUBSET T : g[s] = h[s]}
<1>0. \A s \in SUBSET S : s # {} => LastOf(entries, s) \in s
  BY LastIs DEF IsLast
<1>1. IsFiniteSet(T)
  BY Parts
<1>2. \A s \in SUBSET T : g[s] = Resumed(entries, g, s) /\ h[s] = Resumed(entries, h, s)
  BY DEF Replays
<1>3. ASSUME NEW s \in SUBSET T,
             \A t \in SUBSET T : Cardinality(t) < Cardinality(s) => t \in same
      PROVE  s \in same
  <2>1. CASE s = {}
    BY <1>2, <2>1 DEF Resumed
  <2>2. CASE s # {}
    <3> DEFINE t == s \ {LastOf(entries, s)}
    <3>0. s \in SUBSET S /\ LastOf(entries, s) \in s
      BY <1>0, <2>2
    <3>1. t \in SUBSET T /\ Cardinality(t) < Cardinality(s)
      <4> DEFINE j == LastOf(entries, s)
      <4>1. j \in s
        BY <3>0
      <4> HIDE DEF j
      <4>2. IsFiniteSet(s) /\ Cardinality(s \ {j}) < Cardinality(s)
        BY <1>1, <3>0, <4>1, Parts
      <4> QED BY <4>2 DEF j
    <3>2. g[t] = h[t]
      BY <1>3, <3>1
    <3> QED BY <1>2, <2>2, <3>2 DEF Resumed
  <2> QED BY <2>1, <2>2
<1>4. \A s \in SUBSET T : s \in same
  <2> HIDE DEF same
  <2> QED BY <1>1, <1>3, PartsInduction
<1> QED BY <1>4

LEMMA ReplayedNone ==
  ASSUME NEW entries \in Seq(Logins) PROVE Replayed(entries, {}) = Fresh
<1>1. IsFiniteSet({})
  BY FS_EmptySet
<1>2. Replays(CHOOSE g : Replays(g, entries, {}), entries, {})
  BY <1>1, ReplaysExists
<1> QED BY <1>2, ReplayedIs DEF Replays, Resumed

LEMMA ReplayedLast ==
  ASSUME NEW entries \in Seq(Logins), NEW S \in SUBSET DOMAIN entries, IsFiniteSet(S), S # {}
  PROVE  Replayed(entries, S)
           = Replay(entries[LastOf(entries, S)], Replayed(entries, S \ {LastOf(entries, S)}))
<1> DEFINE T == S \ {LastOf(entries, S)}
           g == CHOOSE a : Replays(a, entries, S)
           h == CHOOSE a : Replays(a, entries, T)
<1>1. T \in SUBSET S /\ IsFiniteSet(T)
  BY Parts
<1>2. Replays(g, entries, S) /\ Replays(h, entries, T)
  BY <1>1, ReplaysExists
<1> HIDE DEF g, h
<1>3. g[T] = h[T]
  BY <1>1, <1>2, ReplaysAgree
<1>4. g[S] = Replay(entries[LastOf(entries, S)], g[T])
  BY <1>2 DEF Replays, Resumed
<1> QED BY <1>3, <1>4, ReplayedIs DEF g, h

(***************************************************************************)
(* What a replay has gathered: a vector of features for every login, each  *)
(* within 0..1000.                                                         *)
(***************************************************************************)
Profiles ==
  [devices : SUBSET LogDevices, geos : SUBSET Countries, hours : Seq({12}), amounts : Seq({}),
   events : Nat, burst : Nat, prior_used : BOOLEAN]

Gathered ==
  [profiles : [Users -> Profiles], graph : [LogDevices -> SUBSET Users],
   sums : [Users -> [Features -> Int]], counts : [Users -> Nat],
   cohort : [Users -> Countries \cup {None}]]

Within(v, i, n) == 0 <= v[i] /\ v[i] <= 1000 * n

Sound(a) ==
  /\ a \in Gathered
  /\ \A u \in Users : a.counts[u] = 0 <=> a.cohort[u] = None
  /\ \A u \in Users, i \in Features : Within(a.sums[u], i, a.counts[u])

Seen(l, a, share) == ComputeFeatures(a.profiles[l.user], RowToEvent(l), share, Missing)

Committed(l, p) == Learnt(p, RowToEvent(l))

Sharers(l, a) == a.graph[l.device] \cup {l.user}

LEMMA SharingIsEleventh == \A i \in Features : Sharing(i) <=> i = 11
BY FeaturesAre DEF Sharing, FeatureNames

LEMMA WiderSeq ==
  ASSUME NEW S, NEW T, S \subseteq T, NEW s \in Seq(S) PROVE s \in Seq(T)
OBVIOUS

LEMMA SeenIs ==
  ASSUME NEW l \in Logins, NEW a, Sound(a), NEW share \in Nat \ {0}
  PROVE  \A i \in Features : Seen(l, a, share)[i] \in 0 .. 1000
<1> DEFINE p == a.profiles[l.user]
           e == RowToEvent(l)
           v == ComputeFeatures(p, e, share, Missing)
<1>1. l.user \in Users /\ p \in Profiles
  BY DEF Logins, Sound, Gathered
<1>2. History(p)
  <2>1. p.hours \in Seq({12}) /\ p.amounts \in Seq({}) /\ p.burst \in Nat
    BY <1>1 DEF Profiles
  <2>2. {12} \subseteq 0 .. 23 /\ {} \subseteq Int
    OBVIOUS
  <2>3. p.hours \in Seq(0 .. 23)
    BY <2>1, <2>2, WiderSeq
  <2>4. p.amounts \in Seq(Int)
    BY <2>1, <2>2, WiderSeq
  <2> QED BY <2>1, <2>3, <2>4 DEF History
<1> HIDE DEF p
<1>3. /\ e.hour = 12 /\ e.amount = Missing /\ e.type = "login" /\ e.channel = "internet_banking"
      /\ e.beneficiary = FALSE /\ e.recovery = FALSE
  BY DEF RowToEvent
<1> HIDE DEF e
<1>5. v[1] \in 0 .. 1000 /\ v[2] \in 0 .. 1000
  BY DEF ComputeFeatures, Flag
<1>6. v[3] \in 0 .. 1000
  <2>1. v[3] = HourDeviation(p, e.hour) /\ e.hour \in 0 .. 23
    BY <1>3 DEF ComputeFeatures
  <2>2. HourDeviation(p, e.hour) \in Nat /\ HourDeviation(p, e.hour) <= 1000
    BY <1>2, <2>1, HourIs
  <2> HIDE DEF v
  <2> QED BY <2>1, <2>2
<1>7. v[4] = 0
  BY <1>3 DEF ComputeFeatures, AmountZScore
<1>8. v[5] = 500 /\ v[6] = 200 /\ v[7] = 400 /\ v[8] = 0 /\ v[9] = 0
  BY <1>3 DEF ComputeFeatures, CriticalityOf, ChannelRiskOf, Flag
<1>9. v[10] \in 0 .. 1000
  <2>1. v[10] = AtMost((NextBurst(p.burst) * 1000) \div (15 * BurstUnit), 1000)
    BY DEF ComputeFeatures
  <2>2. p.burst \in Nat
    BY <1>2 DEF History
  <2>3. /\ AtMost((NextBurst(p.burst) * 1000) \div (15 * BurstUnit), 1000) \in Nat
        /\ AtMost((NextBurst(p.burst) * 1000) \div (15 * BurstUnit), 1000) <= 1000
    BY <2>2, BurstIs
  <2> HIDE DEF v
  <2> QED BY <2>1, <2>3
<1>10. v[11] \in 0 .. 1000
  BY SharingIs DEF ComputeFeatures
<1> HIDE DEF v
<1>11. \A i \in 1 .. 11 : v[i] \in 0 .. 1000
  BY <1>5, <1>6, <1>7, <1>8, <1>9, <1>10
<1> QED BY <1>11, FeaturesAre DEF Seen, v, p, e

(* Only the last feature is of how many share the device. *)
LEMMA SeenSame ==
  ASSUME NEW l, NEW a, NEW b, NEW m, NEW n, a.profiles[l.user] = b.profiles[l.user],
         NEW i \in Features, i # 11
  PROVE  Seen(l, a, m)[i] = Seen(l, b, n)[i]
BY FeaturesAre DEF Seen, ComputeFeatures

LEMMA SharersAre ==
  ASSUME NEW l \in Logins, NEW a, Sound(a)
  PROVE  /\ Sharers(l, a) \in SUBSET Users
         /\ Cardinality(Sharers(l, a)) \in Nat \ {0}
<1>1. Sharers(l, a) \in SUBSET Users /\ Sharers(l, a) # {}
  BY DEF Sharers, Logins, Sound, Gathered
<1> QED BY <1>1, LogAssumption, Parts

LEMMA CommittedIs ==
  ASSUME NEW l \in Logins, NEW p \in Profiles
  PROVE  Committed(l, p) \in Profiles
<1> DEFINE q == [p EXCEPT !.burst = NextBurst(@)]
           e == RowToEvent(l)
<1>1. q \in Profiles
  <2>1. p.burst \in Nat
    BY DEF Profiles
  <2>2. NextBurst(p.burst) \in Nat
    BY <2>1, BurstIs
  <2> QED BY <2>2 DEF Profiles
<1>2. /\ e.device \in LogDevices /\ e.geo \in Countries /\ e.hour = 12 /\ e.amount = Missing
  BY DEF RowToEvent, Logins
<1> HIDE DEF q, e
<1>3. CommitFeatures(q, e)
        = [q EXCEPT !.devices = @ \cup {e.device}, !.geos = @ \cup {e.geo},
                    !.hours = Append(@, e.hour), !.amounts = @, !.events = @ + 1]
  BY <1>2 DEF CommitFeatures
<1>4. /\ q.devices \cup {e.device} \in SUBSET LogDevices /\ q.geos \cup {e.geo} \in SUBSET Countries
      /\ Append(q.hours, e.hour) \in Seq({12}) /\ q.events + 1 \in Nat
  BY <1>1, <1>2 DEF Profiles
<1>5. CommitFeatures(q, e) \in Profiles
  BY <1>1, <1>3, <1>4 DEF Profiles
<1> QED BY <1>5 DEF q, e, Committed, Learnt

(* One login changes what is gathered of its user and its device. *)
LEMMA ReplayIs ==
  ASSUME NEW l \in Logins, NEW a, Sound(a)
  PROVE  LET b == Replay(l, a)
             n == Cardinality(Sharers(l, a))
         IN  /\ b.profiles = [a.profiles EXCEPT ![l.user] = Committed(l, @)]
             /\ b.graph = [a.graph EXCEPT ![l.device] = Sharers(l, a)]
             /\ b.sums = [a.sums EXCEPT ![l.user] = [i \in Features |-> @[i] + Seen(l, a, n)[i]]]
             /\ b.counts = [a.counts EXCEPT ![l.user] = @ + 1]
             /\ b.cohort = [a.cohort EXCEPT ![l.user] = l.country]
             /\ DOMAIN b = DOMAIN a /\ b = [f \in DOMAIN a |-> b[f]]
<1>1. a \in Gathered
  BY DEF Sound
<1> DEFINE b == Replay(l, a)
           n == Cardinality(Sharers(l, a))
<1>2. DOMAIN a = {"profiles", "graph", "sums", "counts", "cohort"}
  BY <1>1 DEF Gathered
<1>3. b.profiles = [a.profiles EXCEPT ![l.user] = Committed(l, @)]
  BY <1>1 DEF Replay, Gathered, Committed
<1>4. b.graph = [a.graph EXCEPT ![l.device] = Sharers(l, a)]
  BY <1>2, Zenon DEF Replay, Sharers
<1>5. b.sums = [a.sums EXCEPT ![l.user] = [i \in Features |-> @[i] + Seen(l, a, n)[i]]]
  BY <1>2, Zenon DEF Replay, Sharers, Seen
<1>6. b.counts = [a.counts EXCEPT ![l.user] = @ + 1] /\ b.cohort = [a.cohort EXCEPT ![l.user] = l.country]
  BY <1>2 DEF Replay
<1>7. DOMAIN b = DOMAIN a /\ b = [f \in DOMAIN a |-> b[f]]
  BY DEF Replay
<1> QED BY <1>3, <1>4, <1>5, <1>6, <1>7

LEMMA FreshIsSound == Sound(Fresh)
<1>1. NoVector \in [Features -> Int] /\ \A i \in Features : NoVector[i] = 0
  BY DEF NoVector
<1>2. NewProfile \in Profiles
  BY DEF NewProfile, Profiles
<1> QED BY <1>1, <1>2, LogAssumption DEF Sound, Fresh, Gathered, Within

LEMMA ReplayIsSound ==
  ASSUME NEW l \in Logins, NEW a, Sound(a) PROVE Sound(Replay(l, a))
<1> DEFINE b == Replay(l, a)
           n == Cardinality(Sharers(l, a))
           v == Seen(l, a, n)
<1>1. /\ b.profiles = [a.profiles EXCEPT ![l.user] = Committed(l, @)]
      /\ b.graph = [a.graph EXCEPT ![l.device] = Sharers(l, a)]
      /\ b.sums = [a.sums EXCEPT ![l.user] = [i \in Features |-> @[i] + v[i]]]
      /\ b.counts = [a.counts EXCEPT ![l.user] = @ + 1]
      /\ b.cohort = [a.cohort EXCEPT ![l.user] = l.country]
      /\ DOMAIN b = DOMAIN a /\ b = [f \in DOMAIN a |-> b[f]]
  BY ReplayIs
<1>2. a \in Gathered /\ l.user \in Users /\ l.device \in LogDevices /\ l.country \in Countries
  BY DEF Sound, Logins
<1>3. \A i \in Features : v[i] \in 0 .. 1000
  <2>1. n \in Nat \ {0}
    BY SharersAre
  <2>2. \A share \in Nat \ {0}, i \in Features : Seen(l, a, share)[i] \in 0 .. 1000
    BY SeenIs
  <2> HIDE DEF n
  <2> QED BY <2>1, <2>2
<1>4. Sharers(l, a) \in SUBSET Users
  BY SharersAre
<1> HIDE DEF b, v, n
<1>5. b.profiles \in [Users -> Profiles]
  <2>1. a.profiles \in [Users -> Profiles]
    BY <1>2 DEF Gathered
  <2>2. Committed(l, a.profiles[l.user]) \in Profiles
    BY <1>2, <2>1, CommittedIs
  <2> QED BY <1>1, <1>2, <2>1, <2>2
<1>6. b.graph \in [LogDevices -> SUBSET Users]
  BY <1>1, <1>2, <1>4 DEF Gathered
<1>7. /\ b.sums \in [Users -> [Features -> Int]] /\ b.counts \in [Users -> Nat]
      /\ b.cohort \in [Users -> Countries \cup {None}]
  <2>0. a.sums[l.user] \in [Features -> Int] /\ \A i \in Features : v[i] \in 0 .. 1000
    BY <1>2, <1>3 DEF Gathered
  <2> DEFINE w == a.sums[l.user]
  <2>1. [i \in Features |-> w[i] + v[i]] \in [Features -> Int]
    <3> HIDE DEF w
    <3>1. w \in [Features -> Int]
      BY <2>0 DEF w
    <3>2. ASSUME NEW i \in Features PROVE w[i] + v[i] \in Int
      <4>1. w[i] \in Int /\ v[i] \in 0 .. 1000
        BY <2>0, <3>1
      <4> QED BY <4>1
    <3> QED BY <3>2
  <2> QED BY <1>1, <1>2, <2>1 DEF Gathered
<1>8. b \in Gathered
  <2>1. DOMAIN a = {"profiles", "graph", "sums", "counts", "cohort"}
    BY <1>2 DEF Gathered
  <2> QED BY <1>1, <1>5, <1>6, <1>7, <2>1 DEF Gathered
<1>9. ASSUME NEW u \in Users PROVE b.counts[u] = 0 <=> b.cohort[u] = None
  <2>1. a.counts[u] \in Nat /\ (a.counts[u] = 0 <=> a.cohort[u] = None)
    BY <1>2 DEF Sound, Gathered
  <2> QED BY <1>1, <1>2, <2>1, LogAssumption DEF Gathered
<1>10. ASSUME NEW u \in Users, NEW i \in Features PROVE Within(b.sums[u], i, b.counts[u])
  <2>1. a.counts[u] \in Nat /\ Within(a.sums[u], i, a.counts[u]) /\ a.sums[u][i] \in Int
    BY <1>2 DEF Sound, Gathered
  <2>2. CASE u = l.user
    <3>1. b.counts[u] = a.counts[u] + 1 /\ b.sums[u][i] = a.sums[u][i] + v[i]
      BY <1>1, <1>2, <2>2 DEF Gathered
    <3>2. v[i] \in Int /\ 0 <= v[i] /\ v[i] <= 1000
      <4>1. v[i] \in 0 .. 1000
        BY <1>3
      <4> QED BY <4>1
    <3>3. 0 <= a.sums[u][i] /\ a.sums[u][i] <= 1000 * a.counts[u]
      BY <2>1 DEF Within
    <3>4. 0 <= a.sums[u][i] + v[i] /\ a.sums[u][i] + v[i] <= 1000 * (a.counts[u] + 1)
      BY <2>1, <3>2, <3>3
    <3> QED BY <3>1, <3>4 DEF Within
  <2>3. CASE u # l.user
    <3>1. b.counts[u] = a.counts[u] /\ b.sums[u] = a.sums[u]
      BY <1>1, <1>2, <2>3 DEF Gathered
    <3> QED BY <2>1, <3>1
  <2> QED BY <2>2, <2>3
<1>11. Sound(b)
  BY <1>8, <1>9, <1>10 DEF Sound
<1> QED BY <1>11 DEF b

LEMMA ReplayedIsSound ==
  ASSUME NEW entries \in Seq(Logins), NEW S \in SUBSET DOMAIN entries, IsFiniteSet(S)
  PROVE  \A T \in SUBSET S : Sound(Replayed(entries, T))
<1> DEFINE sound == {T \in SUBSET S : Sound(Replayed(entries, T))}
<1>1. ASSUME NEW T \in SUBSET S,
             \A t \in SUBSET S : Cardinality(t) < Cardinality(T) => t \in sound
      PROVE  Sound(Replayed(entries, T))
  <2>1. CASE T = {}
    BY <2>1, ReplayedNone, FreshIsSound
  <2>2. CASE T # {}
    <3> DEFINE j == LastOf(entries, T)
    <3>1. j \in T /\ T \in SUBSET DOMAIN entries /\ IsFiniteSet(T)
      BY <2>2, LastIs, Parts DEF IsLast
    <3>2. T \ {j} \in SUBSET S /\ Cardinality(T \ {j}) < Cardinality(T)
      BY <3>1, Parts
    <3>3. Replayed(entries, T) = Replay(entries[j], Replayed(entries, T \ {j}))
      BY <2>2, <3>1, ReplayedLast
    <3>4. Sound(Replayed(entries, T \ {j}))
      BY <1>1, <3>2
    <3>5. entries[j] \in Logins
      BY <3>1, UserIsInt
    <3> HIDE DEF j
    <3> QED BY <3>3, <3>4, <3>5, ReplayIsSound
  <2> QED BY <2>1, <2>2
<1>2. \A T \in SUBSET S : T \in sound
  <2>1. \A T \in SUBSET S :
          (\A t \in SUBSET S : Cardinality(t) < Cardinality(T) => t \in sound) => T \in sound
    BY <1>1
  <2> HIDE DEF sound
  <2> QED BY <2>1, PartsInduction
<1> QED BY <1>2

(* What was gathered with a user's logins and without them: the others'    *)
(* are the same but for how many share a device with him, which only those *)
(* replayed after him can have seen.                                       *)
SameOf(a, b, v) ==
  b.profiles[v] = a.profiles[v] /\ b.counts[v] = a.counts[v] /\ b.cohort[v] = a.cohort[v]

SumOf(entries, u, a, b, v, i) ==
  \/ b.sums[v][i] = a.sums[v][i]
  \/ Sharing(i) /\ u < v /\ SharesADevice(entries, u, v)

WasOn(entries, u, T, d) == \E j \in T : entries[j].user = u /\ entries[j].device = d

Parted(entries, u, T, a, b) ==
  /\ \A d \in LogDevices : b.graph[d] = a.graph[d] \ {u}
  /\ \A d \in LogDevices : u \in a.graph[d] => WasOn(entries, u, T, d)
  /\ b.cohort[u] = None
  /\ \A v \in Users \ {u} : SameOf(a, b, v)
  /\ \A v \in Users \ {u}, i \in Features : SumOf(entries, u, a, b, v, i)

LEMMA OwnLogin ==
  ASSUME NEW entries \in Seq(Logins), NEW T \in SUBSET DOMAIN entries, NEW j \in T,
         NEW u \in Users, entries[j].user = u, NEW a, Sound(a), NEW b,
         Parted(entries, u, T \ {j}, a, b)
  PROVE  Parted(entries, u, T, Replay(entries[j], a), b)
<1> DEFINE l == entries[j]
           r == Replay(l, a)
           n == Cardinality(Sharers(l, a))
<1>1. l \in Logins /\ l.user = u /\ l.device \in LogDevices
  <2>1. l \in Logins
    BY UserIsInt
  <2> QED BY <2>1 DEF Logins
<1> HIDE DEF l
<1>2. /\ r.profiles = [a.profiles EXCEPT ![l.user] = Committed(l, @)]
      /\ r.graph = [a.graph EXCEPT ![l.device] = Sharers(l, a)]
      /\ r.sums = [a.sums EXCEPT ![l.user] = [i \in Features |-> @[i] + Seen(l, a, n)[i]]]
      /\ r.counts = [a.counts EXCEPT ![l.user] = @ + 1]
      /\ r.cohort = [a.cohort EXCEPT ![l.user] = l.country]
  BY <1>1, ReplayIs
<1>3. a \in Gathered
  BY DEF Sound
<1> HIDE DEF r, n
<1>4. \A d \in LogDevices : b.graph[d] = r.graph[d] \ {u}
  BY <1>1, <1>2, <1>3 DEF Parted, Sharers, Gathered
<1>5. ASSUME NEW d \in LogDevices, u \in r.graph[d] PROVE WasOn(entries, u, T, d)
  <2>1. CASE d = l.device
    BY <1>1, <2>1 DEF WasOn, l
  <2>2. CASE d # l.device
    <3>1. u \in a.graph[d]
      BY <1>2, <1>3, <1>5, <2>2 DEF Gathered
    <3> QED BY <3>1 DEF Parted, WasOn
  <2> QED BY <2>1, <2>2
<1>6. b.cohort[u] = None
  BY DEF Parted
<1>7. \A v \in Users \ {u} : SameOf(r, b, v)
  BY <1>1, <1>2, <1>3 DEF Parted, SameOf, Gathered
<1>8. ASSUME NEW v \in Users \ {u}, NEW i \in Features PROVE SumOf(entries, u, r, b, v, i)
  <2>1. r.sums[v] = a.sums[v]
    BY <1>1, <1>2, <1>3 DEF Gathered
  <2> QED BY <2>1 DEF Parted, SumOf
<1>9. Parted(entries, u, T, r, b)
  BY <1>4, <1>5, <1>6, <1>7, <1>8 DEF Parted
<1> QED BY <1>9 DEF r, l

LEMMA OthersLogin ==
  ASSUME NEW entries \in Seq(Logins), NEW T \in SUBSET Genuine(entries), NEW j \in T,
         IsLast(entries, j, T), NEW u \in Users, entries[j].user # u,
         NEW a, Sound(a), NEW b, Sound(b), Parted(entries, u, T \ {j}, a, b)
  PROVE  Parted(entries, u, T, Replay(entries[j], a), Replay(entries[j], b))
<1> DEFINE l == entries[j]
           r == Replay(l, a)
           q == Replay(l, b)
           m == Cardinality(Sharers(l, a))
           n == Cardinality(Sharers(l, b))
<1>0. T \in SUBSET DOMAIN entries
  BY DEF Genuine
<1>1. /\ l \in Logins /\ l.user # u /\ l.device \in LogDevices /\ l.user \in Users
      /\ l.user \in Int
  <2>1. l \in Logins /\ l.user \in Int
    BY <1>0, UserIsInt
  <2> QED BY <2>1 DEF Logins
<1> HIDE DEF l
<1>2. /\ r.profiles = [a.profiles EXCEPT ![l.user] = Committed(l, @)]
      /\ r.graph = [a.graph EXCEPT ![l.device] = Sharers(l, a)]
      /\ r.sums = [a.sums EXCEPT ![l.user] = [i \in Features |-> @[i] + Seen(l, a, m)[i]]]
      /\ r.counts = [a.counts EXCEPT ![l.user] = @ + 1]
      /\ r.cohort = [a.cohort EXCEPT ![l.user] = l.country]
  BY <1>1, ReplayIs
<1>3. /\ q.profiles = [b.profiles EXCEPT ![l.user] = Committed(l, @)]
      /\ q.graph = [b.graph EXCEPT ![l.device] = Sharers(l, b)]
      /\ q.sums = [b.sums EXCEPT ![l.user] = [i \in Features |-> @[i] + Seen(l, b, n)[i]]]
      /\ q.counts = [b.counts EXCEPT ![l.user] = @ + 1]
      /\ q.cohort = [b.cohort EXCEPT ![l.user] = l.country]
  BY <1>1, ReplayIs
<1>4. a \in Gathered /\ b \in Gathered
  BY DEF Sound
<1>5. \A d \in LogDevices : b.graph[d] = a.graph[d] \ {u}
  BY DEF Parted
<1>6. SameOf(a, b, l.user)
  BY <1>1 DEF Parted
<1> HIDE DEF r, q
<1>7. \A d \in LogDevices : q.graph[d] = r.graph[d] \ {u}
  BY <1>1, <1>2, <1>3, <1>4, <1>5 DEF Sharers, Gathered
<1>8. ASSUME NEW d \in LogDevices, u \in r.graph[d] PROVE WasOn(entries, u, T, d)
  <2>1. u \in a.graph[d]
    BY <1>1, <1>2, <1>4, <1>8 DEF Sharers, Gathered
  <2> QED BY <2>1 DEF Parted, WasOn
<1>9. q.cohort[u] = None
  <2>1. b.cohort[u] = None
    BY DEF Parted
  <2> QED BY <1>1, <1>3, <1>4, <2>1 DEF Gathered
<1>10. ASSUME NEW v \in Users \ {u} PROVE SameOf(r, q, v)
  <2>1. SameOf(a, b, v)
    BY <1>10 DEF Parted
  <2> QED BY <1>2, <1>3, <1>4, <2>1 DEF SameOf, Gathered
(* Behind the user in the sort, and on a device of his. *)
<1>11. ASSUME u \in a.graph[l.device] PROVE u < l.user /\ SharesADevice(entries, u, l.user)
  <2>1. PICK k \in T \ {j} : entries[k].user = u /\ entries[k].device = l.device
    BY <1>1, <1>11 DEF Parted, WasOn
  <2>2. SortsBefore(entries, k, j)
    BY <2>1 DEF IsLast
  <2>3. u < l.user
    BY <1>1, <2>1, <2>2 DEF SortsBefore, l
  <2>4. k \in DOMAIN entries /\ j \in DOMAIN entries /\ entries[k].genuine /\ entries[j].genuine
    BY <2>1 DEF Genuine
  <2> QED BY <2>1, <2>3, <2>4 DEF SharesADevice, l
<1>12. ASSUME u \notin a.graph[l.device] PROVE m = n
  <2> DEFINE on == a.graph[l.device]
  <2>1. a.graph[l.device] = b.graph[l.device]
    <3>1. b.graph[l.device] = on \ {u} /\ u \notin on
      BY <1>1, <1>5, <1>12
    <3> HIDE DEF on
    <3>2. on \ {u} = on
      BY <3>1
    <3> QED BY <3>1, <3>2 DEF on
  <2> QED BY <2>1 DEF Sharers
<1>13. ASSUME NEW i \in Features
       PROVE  \/ Seen(l, a, m)[i] = Seen(l, b, n)[i]
              \/ Sharing(i) /\ u < l.user /\ SharesADevice(entries, u, l.user)
  <2>1. a.profiles[l.user] = b.profiles[l.user]
    BY <1>6 DEF SameOf
  <2>2. CASE i # 11
    BY <2>1, <2>2, SeenSame
  <2>3. CASE i = 11 /\ u \in a.graph[l.device]
    BY <1>11, <2>3, SharingIsEleventh
  <2>4. CASE u \notin a.graph[l.device]
    <3>1. m = n
      BY <1>12, <2>4
    <3> HIDE DEF m, n
    <3>2. Seen(l, a, m) = Seen(l, b, n)
      BY <2>1, <3>1 DEF Seen
    <3> QED BY <3>2
  <2> QED BY <2>2, <2>3, <2>4
<1> HIDE DEF m, n
<1>14. ASSUME NEW v \in Users \ {u}, NEW i \in Features PROVE SumOf(entries, u, r, q, v, i)
  <2>1. SumOf(entries, u, a, b, v, i)
    BY <1>14 DEF Parted
  <2>2. CASE v # l.user
    <3>1. r.sums[v] = a.sums[v] /\ q.sums[v] = b.sums[v]
      BY <1>2, <1>3, <1>4, <2>2 DEF Gathered
    <3> QED BY <2>1, <3>1 DEF SumOf
  <2>3. CASE v = l.user
    <3>1. /\ r.sums[v][i] = a.sums[v][i] + Seen(l, a, m)[i]
          /\ q.sums[v][i] = b.sums[v][i] + Seen(l, b, n)[i]
      BY <1>2, <1>3, <1>4, <2>3 DEF Gathered
    <3> QED BY <1>13, <2>1, <2>3, <3>1 DEF SumOf
  <2> QED BY <2>2, <2>3
<1>15. Parted(entries, u, T, r, q)
  BY <1>7, <1>8, <1>9, <1>10, <1>14 DEF Parted
<1> QED BY <1>15 DEF r, q, l

ButOf(entries, T, u) == {i \in T : entries[i].user # u}

LEMMA ReplayedParted ==
  ASSUME NEW entries \in Seq(Logins), NEW S \in SUBSET Genuine(entries), IsFiniteSet(S),
         NEW u \in Users
  PROVE  \A T \in SUBSET S :
           Parted(entries, u, T, Replayed(entries, T), Replayed(entries, ButOf(entries, T, u)))
<1> DEFINE parted ==
      {T \in SUBSET S :
         Parted(entries, u, T, Replayed(entries, T), Replayed(entries, ButOf(entries, T, u)))}
<1>0. S \in SUBSET DOMAIN entries
  BY DEF Genuine
<1>1. ASSUME NEW T \in SUBSET S,
             \A t \in SUBSET S : Cardinality(t) < Cardinality(T) => t \in parted
      PROVE  Parted(entries, u, T, Replayed(entries, T), Replayed(entries, ButOf(entries, T, u)))
  <2>1. CASE T = {}
    <3>1. ButOf(entries, T, u) = {}
      BY <2>1 DEF ButOf
    <3>2. Parted(entries, u, T, Fresh, Fresh)
      BY DEF Parted, Fresh, SameOf, SumOf
    <3> QED BY <2>1, <3>1, <3>2, ReplayedNone
  <2>2. CASE T # {}
    <3> DEFINE j == LastOf(entries, T)
               U == T \ {j}
               V == ButOf(entries, T, u)
               W == ButOf(entries, U, u)
    <3>1. T \in SUBSET DOMAIN entries /\ IsFiniteSet(T)
      BY <1>0, Parts
    <3>2. j \in T /\ IsLast(entries, j, T)
      BY <2>2, <3>1, LastIs DEF IsLast
    <3>3. U \in SUBSET S /\ Cardinality(U) < Cardinality(T)
      BY <3>1, <3>2, Parts
    <3>4. Replayed(entries, T) = Replay(entries[j], Replayed(entries, U))
      BY <2>2, <3>1, ReplayedLast
    <3>5. V \in SUBSET S /\ W \in SUBSET S
      BY DEF ButOf
    <3>6. Sound(Replayed(entries, U)) /\ Sound(Replayed(entries, W))
      BY <1>0, <3>3, <3>5, ReplayedIsSound
    <3>7. Parted(entries, u, U, Replayed(entries, U), Replayed(entries, W))
      BY <1>1, <3>3
    <3> HIDE DEF j
    <3>8. CASE entries[j].user = u
      <4>1. V = W
        BY <3>8 DEF ButOf
      <4>2. Parted(entries, u, T, Replay(entries[j], Replayed(entries, U)), Replayed(entries, W))
        <5> HIDE DEF W
        <5> QED BY <3>1, <3>2, <3>6, <3>7, <3>8, OwnLogin
      <4> QED BY <3>4, <4>1, <4>2
    <3>9. CASE entries[j].user # u
      <4>1. j \in V /\ IsLast(entries, j, V)
        BY <3>2, <3>9 DEF ButOf, IsLast
      <4>2. V \in SUBSET DOMAIN entries /\ IsFiniteSet(V) /\ V \ {j} = W
        BY <1>0, <3>5, Parts DEF ButOf
      <4>3. LastOf(entries, V) = j
        BY <4>1, <4>2, LastIsOne
      <4> HIDE DEF V, W
      <4>4. Replayed(entries, V) = Replay(entries[j], Replayed(entries, W))
        <5>1. V # {}
          BY <4>1
        <5>2. Replayed(entries, V)
                = Replay(entries[LastOf(entries, V)], Replayed(entries, V \ {LastOf(entries, V)}))
          BY <4>2, <5>1, ReplayedLast
        <5> QED BY <4>2, <4>3, <5>2
      <4>5. T \in SUBSET Genuine(entries)
        OBVIOUS
      <4>6. Parted(entries, u, T, Replay(entries[j], Replayed(entries, U)),
                   Replay(entries[j], Replayed(entries, W)))
        BY <3>2, <3>6, <3>7, <3>9, <4>5, OthersLogin
      <4>7. Parted(entries, u, T, Replayed(entries, T), Replayed(entries, V))
        <5> HIDE DEF U
        <5> QED BY <3>4, <4>4, <4>6
      <4> QED BY <4>7 DEF V
    <3> QED BY <3>8, <3>9
  <2> QED BY <2>1, <2>2
<1>2. \A T \in SUBSET S : T \in parted
  <2>1. \A T \in SUBSET S :
          (\A t \in SUBSET S : Cardinality(t) < Cardinality(T) => t \in parted) => T \in parted
    BY <1>1
  <2> HIDE DEF parted
  <2> QED BY <2>1, PartsInduction
<1> QED BY <1>2

-----------------------------------------------------------------------------
(* From what was gathered to what is released. *)
LEMMA CohortSumIs ==
  ASSUME NEW a, NEW c, NEW i \in Features
  PROVE  CohortSum(a, c)[i] = Sum(MeansOf(a, c, i), Members(a, c))
<1> DEFINE mean == MeansOf(a, c, i)
<1>1. DOMAIN mean = Members(a, c)
  BY DEF MeansOf
<1> HIDE DEF mean
<1>2. MapThenSumSet(LAMBDA u : mean[u], DOMAIN mean) = Sum(mean, DOMAIN mean)
  BY DEF Sum
<1>3. CohortSum(a, c)[i] = MapThenSumSet(LAMBDA u : mean[u], DOMAIN mean)
  BY Zenon DEF CohortSum, mean
<1> QED BY <1>1, <1>2, <1>3 DEF mean

LEMMA MeanIs ==
  ASSUME NEW a, Sound(a), NEW c \in Countries, NEW u \in Members(a, c), NEW i \in Features
  PROVE  /\ MeansOf(a, c, i)[u] = a.sums[u][i] \div a.counts[u]
         /\ MeansOf(a, c, i)[u] \in 0 .. 1000
<1>1. MeansOf(a, c, i)[u] = a.sums[u][i] \div a.counts[u]
  BY DEF MeansOf
<1>2. u \in Users /\ a.cohort[u] = c
  BY DEF Members
<1>3. a.counts[u] \in Nat \ {0} /\ a.sums[u][i] \in Int /\ Within(a.sums[u], i, a.counts[u])
  BY <1>2, LogAssumption DEF Sound, Gathered
<1> DEFINE x == a.sums[u][i]
           n == a.counts[u]
<1>4. x \in Int /\ n \in Nat \ {0} /\ 0 <= x /\ x <= 1000 * n
  BY <1>3 DEF Within
<1> HIDE DEF x, n
<1>5. x \div n \in Int /\ n * (x \div n) <= x /\ x < n * ((x \div n) + 1)
  BY <1>4
<1> DEFINE q == x \div n
<1>6. q \in Int /\ n * q <= 1000 * n /\ 0 < n * (q + 1)
  BY <1>4, <1>5
<1> HIDE DEF q
<1>7. \A m \in Nat \ {0}, p \in Int : m * p <= 1000 * m => p <= 1000
  OBVIOUS
<1>8. \A m \in Nat \ {0}, p \in Int : 0 < m * (p + 1) => 0 <= p
  OBVIOUS
<1>9. q <= 1000 /\ 0 <= q
  <2>1. q <= 1000
    BY <1>4, <1>6, <1>7
  <2>2. 0 <= q
    BY <1>4, <1>6, <1>8
  <2> QED BY <2>1, <2>2
<1>10. q \in 0 .. 1000
  BY <1>6, <1>9
<1>11. MeansOf(a, c, i)[u] = q
  BY <1>1 DEF x, n, q
<1> QED BY <1>1, <1>10, <1>11

LEMMA MembersAre ==
  ASSUME NEW a, Sound(a), NEW c
  PROVE  Members(a, c) \in SUBSET Users /\ IsFiniteSet(Members(a, c))
<1>1. Members(a, c) \in SUBSET Users
  BY DEF Members
<1> QED BY <1>1, LogAssumption, Parts

(* Elsewhere the same identities are counted; at home one fewer. *)
LEMMA MembersParted ==
  ASSUME NEW entries, NEW u \in Users, NEW S, NEW a, Sound(a), NEW b, Sound(b),
         Parted(entries, u, S, a, b), NEW c \in Countries
  PROVE  /\ Members(b, c) = Members(a, c) \ {u}
         /\ a.cohort[u] # c => Members(b, c) = Members(a, c)
<1>1. b.cohort[u] # c
  BY LogAssumption DEF Parted
<1>2. \A v \in Users \ {u} : b.cohort[v] = a.cohort[v]
  BY DEF Parted, SameOf
<1>3. Members(b, c) = Members(a, c) \ {u}
  BY <1>1, <1>2 DEF Members
<1> QED BY <1>3 DEF Members

LEMMA MeanParted ==
  ASSUME NEW entries, NEW u \in Users, NEW S, NEW a, Sound(a), NEW b, Sound(b),
         Parted(entries, u, S, a, b), NEW c \in Countries, NEW i \in Features,
         NEW v \in Members(b, c)
  PROVE  \/ MeansOf(b, c, i)[v] = MeansOf(a, c, i)[v]
         \/ Sharing(i) /\ u < v /\ SharesADevice(entries, u, v)
<1>1. v \in Members(a, c) /\ v \in Users /\ v # u
  <2>1. Members(b, c) = Members(a, c) \ {u}
    BY MembersParted
  <2>2. v \in Users
    BY DEF Members
  <2> QED BY <2>1, <2>2
<1>2. SameOf(a, b, v) /\ SumOf(entries, u, a, b, v, i)
  BY <1>1 DEF Parted
<1>3. /\ MeansOf(a, c, i)[v] = a.sums[v][i] \div a.counts[v]
      /\ MeansOf(b, c, i)[v] = b.sums[v][i] \div b.counts[v]
  BY <1>1, MeanIs
<1> QED BY <1>2, <1>3 DEF SameOf, SumOf

(* What leaving u out of the entries changes in a release, where nobody is *)
(* let in for him.                                                         *)
LEMMA ReleaseConfined ==
  ASSUME NEW entries, NEW u \in Users, NEW S, NEW a, Sound(a), NEW b, Sound(b),
         Parted(entries, u, S, a, b), NEW p, p.means = CohortMeans(a, p.noise, p.blur),
         NEW c \in Countries
  PROVE  ConfinedIn(entries, p, u, a, b, c)
<1> DEFINE M == Members(a, c)
           N == Members(b, c)
<1>1. IsFiniteSet(M) /\ IsFiniteSet(N)
  BY MembersAre
<1>2. N = M \ {u} /\ (a.cohort[u] # c => N = M)
  BY MembersParted
<1>3. ASSUME NEW i \in Features
      PROVE  /\ CohortSum(a, c)[i] = Sum(MeansOf(a, c, i), M)
             /\ CohortSum(b, c)[i] = Sum(MeansOf(b, c, i), N)
             /\ \A v \in M : MeansOf(a, c, i)[v] \in 0 .. 1000
             /\ \A v \in N : \/ MeansOf(b, c, i)[v] = MeansOf(a, c, i)[v]
                             \/ Sharing(i) /\ u < v /\ SharesADevice(entries, u, v)
  BY CohortSumIs, MeanIs, MeanParted
<1>4. CASE c = a.cohort[u]
  <2> SUFFICES ASSUME NEW i \in Features, ~Sharing(i)
               PROVE  CohortSum(a, c)[i] - CohortSum(b, c)[i] \in 0 .. 1000
    BY <1>4 DEF ConfinedIn
  <2> DEFINE f == MeansOf(a, c, i)
             g == MeansOf(b, c, i)
  <2>1. u \in M
    BY <1>4 DEF Members
  <2>2. \A v \in M : f[v] \in 0 .. 1000
    BY <1>3
  <2>3. \A v \in N : g[v] = f[v]
    BY <1>3
  <2>4. CohortSum(a, c)[i] = Sum(f, M) /\ CohortSum(b, c)[i] = Sum(g, N)
    BY <1>3
  <2> HIDE DEF f, g, M, N
  <2>5. Sum(g, N) = Sum(f, N)
    BY <1>1, <2>3, SumSame
  <2>6. \A v \in M : f[v] \in Int
    BY <2>2
  <2>7. Sum(f, M) = f[u] + Sum(f, N)
    <3>1. Sum(f, M) = f[u] + Sum(f, M \ {u})
      BY <1>1, <2>1, <2>6, SumTake
    <3> QED BY <1>2, <3>1
  <2>8. Sum(f, N) \in Int
    <3>1. \A v \in N : f[v] \in Int
      BY <1>2, <2>6
    <3> QED BY <1>1, <3>1, SumIsInt
  <2>9. f[u] \in 0 .. 1000 /\ f[u] \in Int
    BY <2>1, <2>2, <2>6, Zenon
  <2>10. CohortSum(a, c)[i] - CohortSum(b, c)[i] = f[u]
    <3>1. \A x, y \in Int : (x + y) - y = x
      OBVIOUS
    <3> QED BY <2>4, <2>5, <2>7, <2>8, <2>9, <3>1, Zenon
  <2> QED BY <2>9, <2>10, Zenon
<1>5. CASE c # a.cohort[u]
  <2>1. N = M
    BY <1>2, <1>5
  <2>2. DOMAIN p.means = Released(a, p.noise)
    BY DEF CohortMeans
  <2>3. c \in DOMAIN p.means <=> c \in Released(b, p.noise)
    BY <2>1, <2>2 DEF Released
  <2>4. ASSUME NEW i \in Features, c \in DOMAIN p.means
        PROVE  \/ p.means[c][i] = CohortMean(b, p.blur, c)[i]
               \/ Sharing(i) /\ \E v \in Members(a, c) : u < v /\ SharesADevice(entries, u, v)
    <3>1. p.means[c] = CohortMean(a, p.blur, c)
      BY <2>2, <2>4 DEF CohortMeans
    <3>2. CASE \E v \in N : Sharing(i) /\ u < v /\ SharesADevice(entries, u, v)
      BY <2>1, <3>2
    <3>3. CASE ~ \E v \in N : Sharing(i) /\ u < v /\ SharesADevice(entries, u, v)
      <4> DEFINE f == MeansOf(a, c, i)
                 g == MeansOf(b, c, i)
      <4>1. \A v \in N : g[v] = f[v]
        BY <1>3, <3>3
      <4>2. CohortSum(a, c)[i] = Sum(f, M) /\ CohortSum(b, c)[i] = Sum(g, N)
        BY <1>3
      <4>3. CohortSum(a, c)[i] = CohortSum(b, c)[i]
        <5> HIDE DEF f, g, M, N
        <5>1. Sum(g, N) = Sum(f, N)
          BY <1>1, <4>1, SumSame
        <5> QED BY <2>1, <4>2, <5>1
      <4>4. CohortMean(a, p.blur, c)[i] = CohortMean(b, p.blur, c)[i]
        BY <2>1, <4>3, Zenon DEF CohortMean
      <4> QED BY <3>1, <4>4
    <3> QED BY <3>2, <3>3
  <2> QED BY <1>5, <2>3, <2>4 DEF ConfinedIn
<1> QED BY <1>4, <1>5

(***************************************************************************)
(* A limit takes the first of the sorted logins.  Without u's some others  *)
(* come within it: all of them are behind u, and behind what was there.    *)
(***************************************************************************)
AheadOf(entries, S, i) == {j \in S : SortsBefore(entries, j, i)}

LEMMA LimitedIs ==
  ASSUME NEW entries \in Seq(Logins), NEW limit \in Nat, NEW u \in Users
  PROVE  LET H == Limited(entries, Genuine(entries), limit)
             K == Limited(entries, OfOthers(entries, u), limit)
             X == K \ H
         IN  /\ H \in SUBSET Genuine(entries)
             /\ K = ButOf(entries, H, u) \cup X
             /\ \A h \in H, x \in X : SortsBefore(entries, h, x)
             /\ \A x \in X : u < entries[x].user
<1> DEFINE G == Genuine(entries)
           O == OfOthers(entries, u)
           H == Limited(entries, G, limit)
           K == Limited(entries, O, limit)
           X == K \ H
           B(S, i) == AheadOf(entries, S, i)
<1>1. G \in SUBSET DOMAIN entries /\ IsFiniteSet(DOMAIN entries) /\ IsFiniteSet(G)
  <2>1. DOMAIN entries = 1 .. Len(entries) /\ Len(entries) \in Nat
    OBVIOUS
  <2>2. IsFiniteSet(DOMAIN entries)
    BY <2>1, FS_Interval
  <2>3. G \in SUBSET DOMAIN entries
    BY DEF Genuine
  <2> QED BY <2>2, <2>3, FS_Subset
<1>2. O = {i \in G : entries[i].user # u}
  BY DEF OfOthers
<1>3. H \in SUBSET G /\ K \in SUBSET O
  BY DEF Limited
<1>4. CASE limit = 0
  <2>1. H = G /\ K = O
    BY <1>4 DEF Limited
  <2>2. X = {} /\ ButOf(entries, H, u) = K
    BY <1>2, <2>1 DEF ButOf
  <2> QED BY <1>3, <2>2
<1>5. CASE limit # 0
  <2>1. /\ H = {i \in G : Cardinality(B(G, i)) < limit}
        /\ K = {i \in O : Cardinality(B(O, i)) < limit}
    BY <1>5 DEF Limited, AheadOf
  <2>2. \A i : /\ B(G, i) \in SUBSET G /\ IsFiniteSet(B(G, i)) /\ Cardinality(B(G, i)) \in Nat
               /\ B(O, i) \in SUBSET B(G, i)
               /\ Cardinality(B(O, i)) \in Nat /\ Cardinality(B(O, i)) <= Cardinality(B(G, i))
    <3> TAKE i
    <3>1. B(G, i) \in SUBSET G /\ B(O, i) \in SUBSET B(G, i)
      BY <1>2 DEF AheadOf
    <3> HIDE DEF G, O, B
    <3> QED BY <1>1, <3>1, FS_Subset, FS_CardinalityType
  <2>3. \A i : i \in ButOf(entries, H, u) => i \in K
    <3> SUFFICES ASSUME NEW i \in ButOf(entries, H, u) PROVE i \in K
      OBVIOUS
    <3>1. i \in H /\ i \in O
      BY <1>2, <1>3 DEF ButOf
    <3>2. Cardinality(B(G, i)) < limit
      BY <2>1, <3>1
    <3> HIDE DEF B, G, O, H, K
    <3>3. Cardinality(B(O, i)) < limit
      BY <2>2, <3>2
    <3> QED BY <2>1, <3>1, <3>3
  <2>4. K = ButOf(entries, H, u) \cup X
    <3>1. ASSUME NEW i \in K PROVE i \in ButOf(entries, H, u) \cup X
      <4>1. entries[i].user # u
        BY <1>2, <1>3, <3>1
      <4> HIDE DEF H, K
      <4> QED BY <3>1, <4>1 DEF ButOf
    <3> HIDE DEF H, K
    <3> QED BY <2>3, <3>1
  <2>5. ASSUME NEW x \in X PROVE x \in G /\ x \in O /\ ~(Cardinality(B(G, x)) < limit)
                                 /\ Cardinality(B(O, x)) < limit
    <3>1. x \in O /\ x \in K /\ x \notin H
      BY <1>3, <2>5
    <3>2. x \in G
      BY <1>2, <3>1
    <3> HIDE DEF B, G, O
    <3> QED BY <2>1, <3>1, <3>2
  <2>6. ASSUME NEW h \in H, NEW x \in X PROVE SortsBefore(entries, h, x)
    <3>1. h \in DOMAIN entries /\ x \in DOMAIN entries /\ h # x /\ h \in G
      BY <1>1, <1>3, <2>5, <2>6
    <3>2. Cardinality(B(G, h)) < limit /\ ~(Cardinality(B(G, x)) < limit)
      BY <2>1, <2>5, <2>6
    <3>3. ASSUME SortsBefore(entries, x, h) PROVE FALSE
      <4>1. B(G, x) \subseteq B(G, h)
        <5> SUFFICES ASSUME NEW j \in G, SortsBefore(entries, j, x)
                     PROVE  SortsBefore(entries, j, h)
          BY DEF AheadOf
        <5> HIDE DEF G
        <5> QED BY <1>1, <3>1, <3>3, SortIsTransitive
      <4> HIDE DEF B, G
      <4>2. Cardinality(B(G, x)) <= Cardinality(B(G, h))
        BY <2>2, <4>1, FS_Subset
      <4> QED BY <2>2, <3>2, <4>2
    <3> QED BY <3>1, <3>3, SortIsTotal
  <2>7. ASSUME NEW x \in X PROVE u < entries[x].user
    <3>1. B(G, x) # B(O, x)
      <4>1. Cardinality(B(O, x)) < limit /\ ~(Cardinality(B(G, x)) < limit)
        BY <2>5, <2>7
      <4> HIDE DEF B
      <4> QED BY <4>1
    <3>2. PICK j \in G : SortsBefore(entries, j, x) /\ j \notin O
      BY <1>2, <3>1 DEF AheadOf
    <3>3. entries[j].user = u /\ entries[x].user # u
      BY <1>2, <2>5, <2>7, <3>2
    <3>4. entries[x].user \in Int /\ entries[j].user \in Int
      BY <1>1, <2>5, <2>7, UserIsInt
    <3> QED BY <3>2, <3>3, <3>4 DEF SortsBefore
  <2> QED BY <1>3, <2>4, <2>6, <2>7
<1> QED BY <1>4, <1>5

(* Logins behind all others leave what was gathered of other users. *)
Alike(a, b, v) ==
  a.sums[v] = b.sums[v] /\ a.counts[v] = b.counts[v] /\ a.cohort[v] = b.cohort[v]

LEMMA LaterLogins ==
  ASSUME NEW entries \in Seq(Logins), NEW D \in SUBSET DOMAIN entries, IsFiniteSet(D),
         NEW B \in SUBSET D, NEW X \in SUBSET D, \A b \in B, x \in X : SortsBefore(entries, b, x),
         NEW v \in Users
  PROVE  \A T \in SUBSET X : (\A x \in T : entries[x].user # v) =>
           Alike(Replayed(entries, B \cup T), Replayed(entries, B), v)
<1> DEFINE agree == {T \in SUBSET X : (\A x \in T : entries[x].user # v) =>
                       Alike(Replayed(entries, B \cup T), Replayed(entries, B), v)}
<1>1. IsFiniteSet(X)
  BY FS_Subset
<1>2. ASSUME NEW T \in SUBSET X,
             \A t \in SUBSET X : Cardinality(t) < Cardinality(T) => t \in agree,
             \A x \in T : entries[x].user # v
      PROVE  Alike(Replayed(entries, B \cup T), Replayed(entries, B), v)
  <2>1. CASE T = {}
    <3>1. B \cup T = B
      BY <2>1
    <3> QED BY <3>1 DEF Alike
  <2>2. CASE T # {}
    <3> DEFINE S == B \cup T
               j == LastOf(entries, S)
               U == T \ {j}
               a == Replayed(entries, B \cup U)
    <3>1. S \in SUBSET D /\ S # {} /\ IsFiniteSet(S) /\ S \in SUBSET DOMAIN entries
      <4>1. S \in SUBSET D /\ S # {}
        BY <2>2
      <4> HIDE DEF S
      <4> QED BY <4>1, FS_Subset
    <3>2. j \in S /\ IsLast(entries, j, S)
      BY <3>1, LastIs DEF IsLast
    <3> HIDE DEF j
    <3>3. j \in T /\ j \notin B
      <4>1. ASSUME j \in B PROVE FALSE
        <5>1. PICK x \in T : TRUE
          BY <2>2
        <5>2. SortsBefore(entries, j, x)
          BY <4>1, <5>1
        <5>3. x # j => SortsBefore(entries, x, j)
          BY <3>2, <5>1 DEF IsLast
        <5>4. x \in DOMAIN entries /\ j \in DOMAIN entries
          BY <3>1, <3>2, <5>1
        <5>5. ~SortsBefore(entries, j, j)
          <6>1. entries[j].user \in Int /\ j \in Int
            BY <5>4, UserIsInt
          <6> QED BY <6>1 DEF SortsBefore
        <5> QED BY <5>2, <5>3, <5>4, <5>5, SortIsTotal
      <4> QED BY <3>2, <4>1
    <3>4. S \ {j} = B \cup U
      BY <3>3
    <3>5. Replayed(entries, S) = Replay(entries[j], a)
      <4>1. Replayed(entries, S) = Replay(entries[j], Replayed(entries, S \ {j}))
        BY <3>1, ReplayedLast DEF j
      <4> QED BY <3>4, <4>1
    <3>6. U \in SUBSET X /\ Cardinality(U) < Cardinality(T)
      <4>1. IsFiniteSet(T)
        BY <1>1, FS_Subset
      <4>2. Cardinality(T \ {j}) < Cardinality(T)
        BY <3>3, <4>1, Parts
      <4> QED BY <4>2
    <3>7. Alike(a, Replayed(entries, B), v)
      BY <1>2, <3>6
    <3>8. Sound(a)
      <4>1. B \cup U \in SUBSET D
        BY <3>6
      <4> HIDE DEF U
      <4> QED BY <4>1, ReplayedIsSound
    <3>9. entries[j] \in Logins /\ entries[j].user # v
      BY <1>2, <3>1, <3>2, <3>3, UserIsInt
    <3> HIDE DEF a, S, U
    <3>10. Alike(Replay(entries[j], a), a, v)
      <4> DEFINE l == entries[j]
      <4>1. /\ Replay(l, a).sums = [a.sums EXCEPT ![l.user] =
                 [i \in Features |-> @[i] + Seen(l, a, Cardinality(Sharers(l, a)))[i]]]
            /\ Replay(l, a).counts = [a.counts EXCEPT ![l.user] = @ + 1]
            /\ Replay(l, a).cohort = [a.cohort EXCEPT ![l.user] = l.country]
        BY <3>8, <3>9, ReplayIs
      <4>2. a \in Gathered
        BY <3>8 DEF Sound
      <4>3. l.user # v
        BY <3>9
      <4> HIDE DEF l
      <4> QED BY <4>1, <4>2, <4>3 DEF Alike, Gathered, l
    <3>11. Alike(Replayed(entries, S), Replayed(entries, B), v)
      BY <3>5, <3>7, <3>10 DEF Alike
    <3> QED BY <3>11 DEF S
  <2> QED BY <2>1, <2>2
<1>3. \A T \in SUBSET X : T \in agree
  <2>1. \A T \in SUBSET X :
          (\A t \in SUBSET X : Cardinality(t) < Cardinality(T) => t \in agree) => T \in agree
    BY <1>2
  <2> HIDE DEF agree
  <2> QED BY <1>1, <2>1, PartsInduction
<1> QED BY <1>3

(* A country whose members and what was gathered of them agree is released *)
(* alike.                                                                  *)
LEMMA ReleasedAlike ==
  ASSUME NEW entries, NEW p, NEW u, NEW a, NEW b, NEW r, NEW c \in Countries,
         ConfinedIn(entries, p, u, a, b, c),
         Members(r, c) = Members(b, c), \A v \in Members(b, c) : Alike(r, b, v)
  PROVE  ConfinedIn(entries, p, u, a, r, c)
<1>1. \A i : MeansOf(r, c, i) = MeansOf(b, c, i)
  BY DEF MeansOf, Alike
<1>2. \A i \in Features : CohortSum(r, c)[i] = CohortSum(b, c)[i]
  BY <1>1, CohortSumIs
<1>3. \A i \in Features : CohortMean(r, p.blur, c)[i] = CohortMean(b, p.blur, c)[i]
  BY <1>2, Zenon DEF CohortMean
<1>4. c \in Released(r, p.noise) <=> c \in Released(b, p.noise)
  BY DEF Released
<1> QED BY <1>2, <1>3, <1>4 DEF ConfinedIn

(* The export is of the log as it still is. *)
ExportInv ==
  /\ log \in Seq(Logins)
  /\ \A p \in published :
       p.limit \in Nat /\ p.means = CohortMeans(IdentityMeans(log, p.limit), p.noise, p.blur)

LEMMA InitExport == FeatureInit => ExportInv
BY DEF FeatureInit, ExportInv

LEMMA StepExport == ExportInv /\ [AssessNext \/ ExportNext]_featureVars => ExportInv'
<1> SUFFICES ASSUME ExportInv, [AssessNext \/ ExportNext]_featureVars PROVE ExportInv'
  OBVIOUS
<1>1. CASE AssessNext
  BY <1>1 DEF AssessNext, Attempt, ExportInv
<1>2. ASSUME NEW user \in Users, NEW device \in LogDevices, NEW country \in Countries,
             NEW genuine \in BOOLEAN, AddLogin(Login(user, device, country, genuine))
      PROVE  ExportInv'
  <2>1. Login(user, device, country, genuine) \in Logins
    BY DEF Login, Logins
  <2> QED BY <1>2, <2>1 DEF AddLogin, ExportInv
<1>3. ASSUME NEW limit \in Limits, NEW noise \in [Countries -> Noises],
             NEW blur \in [Countries -> Blurs], ExportAggregates(limit, noise, blur)
      PROVE  ExportInv'
  <2>1. /\ published' = {[limit |-> limit, noise |-> noise, blur |-> blur,
                          means |-> CohortMeans(IdentityMeans(log, limit), noise, blur)]}
        /\ log' = log
    BY <1>3 DEF ExportAggregates
  <2>2. limit \in Nat
    BY LimitsAssumption
  <2> QED BY <2>1, <2>2 DEF ExportInv
<1>4. CASE UNCHANGED featureVars
  BY <1>4 DEF featureVars, ExportInv
<1> QED BY <1>1, <1>2, <1>3, <1>4 DEF ExportNext

LEMMA ExportConfined == ExportInv => ContributionConfined
<1> SUFFICES ASSUME ExportInv, NEW p \in published, NEW u \in Users, NEW c \in Countries,
                    ~ \E v \in LetIn(log, u, p.limit) :
                        /\ u < v
                        /\ c \in {IdentityMeans(log, p.limit).cohort[v],
                                  MeansWithout(log, u, p.limit).cohort[v]}
             PROVE  ConfinedIn(log, p, u, IdentityMeans(log, p.limit),
                               MeansWithout(log, u, p.limit), c)
  BY Zenon DEF ContributionConfined
<1> DEFINE G == Genuine(log)
           H == Limited(log, G, p.limit)
           K == Limited(log, OfOthers(log, u), p.limit)
           X == K \ H
           B == ButOf(log, H, u)
           all == IdentityMeans(log, p.limit)
           but == Replayed(log, B)
           rest == MeansWithout(log, u, p.limit)
<1>1. log \in Seq(Logins) /\ p.limit \in Nat /\ p.means = CohortMeans(all, p.noise, p.blur)
  BY DEF ExportInv
<1>2. G \in SUBSET DOMAIN log /\ IsFiniteSet(G)
  <2>1. DOMAIN log = 1 .. Len(log) /\ Len(log) \in Nat
    BY <1>1
  <2>2. IsFiniteSet(DOMAIN log)
    BY <2>1, FS_Interval
  <2>3. G \in SUBSET DOMAIN log
    BY DEF Genuine
  <2> QED BY <2>2, <2>3, FS_Subset
<1>3. /\ H \in SUBSET G /\ K = B \cup X
      /\ \A h \in H, x \in X : SortsBefore(log, h, x)
      /\ \A x \in X : u < log[x].user
  BY <1>1, LimitedIs
<1>4. all = Replayed(log, H) /\ rest = Replayed(log, K)
  BY DEF IdentityMeans, MeansWithout
<1>5. LetIn(log, u, p.limit) = {log[x].user : x \in X}
  BY DEF LetIn
<1>6. B \in SUBSET H /\ X \in SUBSET G
  <2>1. K \in SUBSET G
    BY DEF Limited, OfOthers
  <2> QED BY <2>1 DEF ButOf
<1> HIDE DEF all, rest
<1>7. Sound(all) /\ Sound(but) /\ Sound(rest)
  <2>1. B \in SUBSET G /\ K \in SUBSET G
    BY <1>3, <1>6
  <2> HIDE DEF G, H, K, B, X
  <2> QED BY <1>1, <1>2, <1>3, <1>4, <2>1, ReplayedIsSound
<1>8. Parted(log, u, H, all, but)
  <2>1. IsFiniteSet(H) /\ H \in SUBSET Genuine(log) /\ H \in SUBSET H
    BY <1>2, <1>3, FS_Subset
  <2> HIDE DEF H
  <2> QED BY <1>1, <1>4, <2>1, ReplayedParted
<1>9. ConfinedIn(log, p, u, all, but, c)
  <2> HIDE DEF but
  <2> QED BY <1>1, <1>7, <1>8, ReleaseConfined
<1>10. ASSUME NEW v \in Users, \A x \in X : log[x].user # v PROVE Alike(rest, but, v)
  <2>1. \A b \in B, x \in X : SortsBefore(log, b, x)
    BY <1>3, <1>6
  <2>2. B \in SUBSET G
    BY <1>3, <1>6
  <2> HIDE DEF G, H, K, B, X
  <2> QED BY <1>1, <1>2, <1>3, <1>4, <1>6, <1>10, <2>1, <2>2, LaterLogins
<1> HIDE DEF but, H, K, B, X, G
<1>11. ASSUME NEW x \in X
       PROVE  /\ log[x].user # u /\ log[x].user \in Users
              /\ all.cohort[log[x].user] # c /\ rest.cohort[log[x].user] # c
  <2>1. u < log[x].user /\ x \in DOMAIN log
    BY <1>2, <1>3, <1>6, <1>11
  <2>2. log[x].user \in Users /\ log[x].user \in Int /\ u \in Int
    BY <1>1, <2>1, UserIsInt, LogAssumption
  <2>3. log[x].user \in LetIn(log, u, p.limit)
    BY <1>5, <1>11
  <2>4. ~ (c \in {all.cohort[log[x].user], rest.cohort[log[x].user]})
    BY <2>1, <2>3 DEF all, rest
  <2> QED BY <2>1, <2>2, <2>4
<1>12. Members(rest, c) = Members(but, c) /\ \A v \in Members(but, c) : Alike(rest, but, v)
  <2>1. ASSUME NEW v \in Users, rest.cohort[v] = c \/ but.cohort[v] = c
        PROVE  Alike(rest, but, v)
    <3>1. ASSUME NEW x \in X, log[x].user = v PROVE FALSE
      <4>1. v \in Users \ {u} /\ all.cohort[v] # c /\ rest.cohort[v] # c
        BY <1>11, <3>1
      <4>2. but.cohort[v] = all.cohort[v]
        BY <1>8, <4>1 DEF Parted, SameOf
      <4> QED BY <2>1, <4>1, <4>2
    <3> QED BY <1>10, <3>1
  <2>2. \A v \in Users : rest.cohort[v] = c <=> but.cohort[v] = c
    BY <2>1 DEF Alike
  <2> QED BY <2>1, <2>2 DEF Members
<1>13. ConfinedIn(log, p, u, all, rest, c)
  BY <1>9, <1>12, ReleasedAlike
<1> QED BY <1>13 DEF all, rest

(* dp_export.py:11 "bounded contribution", 18 "a disjoint partition of     *)
(* users": whatever was logged, whatever the limit and the noise, one      *)
(* user's logins change a release no further than ContributionConfined     *)
(* says.                                                                   *)
THEOREM ReleasesConfined == FeatureSpec => []ContributionConfined
BY InitExport, StepExport, ExportConfined, PTL DEF FeatureSpec

(***************************************************************************)
(* What a detector learns from.  A row held back is given another label,   *)
(* or another content; what a script computes is followed down to the rows *)
(* it reads.                                                               *)
(***************************************************************************)

(* Files: rows in order of time. *)
DataRows ==
  [t : Times, y : 0 .. 1, who : {c[1] : c \in Contents}, key : {c[2] : c \in Contents},
   val : {c[3] : c \in Contents}]

File(d) == d \in Seq(DataRows) /\ \A i, j \in DOMAIN d : i <= j => d[i].t <= d[j].t

(* Two files that differ in one row only, and there not in time. *)
Apart(d, e, i) ==
  /\ DOMAIN e = DOMAIN d /\ \A j \in DOMAIN d : j # i => e[j] = d[j]
  /\ \A j \in DOMAIN d : e[j].t = d[j].t

ApartInLabel(d, e, i) ==
  /\ Apart(d, e, i)
  /\ \A j \in DOMAIN d : e[j].who = d[j].who /\ e[j].key = d[j].key /\ e[j].val = d[j].val

ApartInContent(d, e, i) ==
  /\ Apart(d, e, i)
  /\ \A j \in DOMAIN d : e[j].y = d[j].y

Flipped(d, i) == [d EXCEPT ![i].y = 1 - @]
Changed(d, i, c) == [d EXCEPT ![i].who = c[1], ![i].key = c[2], ![i].val = c[3]]

LEMMA FileRows ==
  ASSUME NEW d, File(d)
  PROVE  /\ DOMAIN d \in SUBSET Int /\ IsFiniteSet(DOMAIN d)
         /\ \A i \in DOMAIN d : d[i] \in DataRows
<1>1. d \in Seq(DataRows)
  BY DEF File
<1>2. Len(d) \in Nat /\ DOMAIN d = 1 .. Len(d) /\ \A i \in DOMAIN d : d[i] \in DataRows
  BY <1>1
<1>3. \A n \in Nat : IsFiniteSet(1 .. n)
  BY FS_Interval
<1> QED BY <1>2, <1>3

LEMMA FlippedApart ==
  ASSUME NEW d, File(d), NEW i \in DOMAIN d
  PROVE  ApartInLabel(d, Flipped(d, i), i)
<1>1. \A j \in DOMAIN d : d[j] \in DataRows
  BY FileRows
<1>2. Flipped(d, i) = [d EXCEPT ![i] = [d[i] EXCEPT !.y = 1 - @]]
  BY DEF Flipped
<1>3. DOMAIN Flipped(d, i) = DOMAIN d
  BY <1>2
<1>4. \A j \in DOMAIN d : j # i => Flipped(d, i)[j] = d[j]
  BY <1>2
<1>5. Flipped(d, i)[i] = [d[i] EXCEPT !.y = 1 - @]
  BY <1>2
<1>6. /\ Flipped(d, i)[i].t = d[i].t /\ Flipped(d, i)[i].who = d[i].who
      /\ Flipped(d, i)[i].key = d[i].key /\ Flipped(d, i)[i].val = d[i].val
  BY <1>1, <1>5 DEF DataRows
<1> QED BY <1>3, <1>4, <1>6 DEF ApartInLabel, Apart

LEMMA ChangedApart ==
  ASSUME NEW d, File(d), NEW i \in DOMAIN d, NEW c
  PROVE  ApartInContent(d, Changed(d, i, c), i)
<1> DEFINE e == Changed(d, i, c)
           row == [d[i] EXCEPT !.who = c[1], !.key = c[2], !.val = c[3]]
<1>1. \A j \in DOMAIN d : d[j] \in DataRows
  BY FileRows
<1>2. e = [d EXCEPT ![i] = row]
  BY DEF Changed
<1>3. DOMAIN e = DOMAIN d
  BY <1>2
<1>4. \A j \in DOMAIN d : j # i => e[j] = d[j]
  BY <1>2
<1>5. e[i] = row
  BY <1>2
<1>6. e[i].t = d[i].t /\ e[i].y = d[i].y
  BY <1>1, <1>5 DEF DataRows
<1> QED BY <1>3, <1>4, <1>6 DEF ApartInContent, Apart

-----------------------------------------------------------------------------
(* What the frames of two files have in common. *)

(* A part of a file that leaves the row out, and columns that agree on it. *)
Agree(d, e, f, g, S) == \A j \in S : e[j].y = d[j].y /\ g[j] = f[j]

LEMMA OrderOfPart ==
  ASSUME NEW d, File(d), NEW S \in SUBSET DOMAIN d
  PROVE  /\ Cardinality(S) \in Nat /\ DOMAIN InOrder(S) = 1 .. Cardinality(S)
         /\ \A n \in DOMAIN InOrder(S) : InOrder(S)[n] \in S
<1>1. S \in SUBSET Int /\ IsFiniteSet(S)
  BY FileRows, FS_Subset
<1>2. Cardinality(S) \in Nat /\ InOrder(S) \in [1 .. Cardinality(S) -> S]
  BY <1>1, InOrderIs
<1> QED BY <1>2

LEMMA ModelSame ==
  ASSUME NEW d, NEW e, NEW f, NEW g, NEW S, NEW order,
         Agree(d, e, f, g, S), \A n \in DOMAIN order : order[n] \in S
  PROVE  Model(e, order, g) = Model(d, order, f)
BY DEF Model, Agree

LEMMA PartModelSame ==
  ASSUME NEW d, File(d), NEW e, NEW f, NEW g, NEW S \in SUBSET DOMAIN d, Agree(d, e, f, g, S)
  PROVE  Model(e, InOrder(S), g) = Model(d, InOrder(S), f)
BY OrderOfPart, ModelSame

(* A sample is a part. *)
LEMMA SampledPart ==
  ASSUME NEW d, File(d), NEW S \in SUBSET DOMAIN d, NEW n \in Nat, NEW seed \in Nat
  PROVE  Sampled(S, n, seed) \in SUBSET S
<1>1. CASE Cardinality(S) <= n
  BY <1>1 DEF Sampled
<1>2. CASE ~(Cardinality(S) <= n)
  <2>1. Cardinality(S) \in Nat /\ Cardinality(S) > 0
    BY <1>2, OrderOfPart
  <2>2. \A a \in Nat, m \in Nat : m > 0 => (a % m) + 1 \in 1 .. m
    OBVIOUS
  <2>3. \A k \in 1 .. n : ((seed + k) % Cardinality(S)) + 1 \in DOMAIN InOrder(S)
    <3>1. \A k \in 1 .. n : seed + k \in Nat
      OBVIOUS
    <3> QED BY <2>1, <2>2, <3>1, OrderOfPart
  <2>4. \A k \in 1 .. n : InOrder(S)[((seed + k) % Cardinality(S)) + 1] \in S
    BY <2>3, OrderOfPart
  <2> QED BY <1>2, <2>4 DEF Sampled
<1> QED BY <1>1, <1>2

LEMMA ThinnedPart ==
  ASSUME NEW d, File(d), NEW S \in SUBSET DOMAIN d, NEW seed \in Nat
  PROVE  \A n \in DOMAIN Thinned(d, S, seed) : Thinned(d, S, seed)[n] \in S
<1> DEFINE P == Labelled(d, S, 1)
           N == Sampled(Labelled(d, S, 0), NegSample, seed)
<1>1. P \in SUBSET S /\ Labelled(d, S, 0) \in SUBSET S
  BY DEF Labelled
<1>2. N \in SUBSET S
  BY <1>1, SampledPart, SplitAssumption
<1> HIDE DEF P, N
<1>3. /\ Cardinality(P) \in Nat /\ InOrder(P) \in [1 .. Cardinality(P) -> S]
      /\ Cardinality(N) \in Nat /\ InOrder(N) \in [1 .. Cardinality(N) -> S]
  <2>1. P \in SUBSET Int /\ IsFiniteSet(P) /\ N \in SUBSET Int /\ IsFiniteSet(N)
    BY <1>1, <1>2, FileRows, FS_Subset
  <2>2. /\ Cardinality(P) \in Nat /\ InOrder(P) \in [1 .. Cardinality(P) -> P]
        /\ Cardinality(N) \in Nat /\ InOrder(N) \in [1 .. Cardinality(N) -> N]
    BY <2>1, InOrderIs
  <2> QED BY <1>1, <1>2, <2>2 DEF P
<1>4. InOrder(P) \in Seq(S) /\ InOrder(N) \in Seq(S)
  BY <1>3
<1>5. InOrder(P) \o InOrder(N) \in Seq(S)
  BY <1>4
<1>6. Thinned(d, S, seed) = InOrder(P) \o InOrder(N)
  BY DEF Thinned, P, N
<1> QED BY <1>5, <1>6

LEMMA ThinnedSame ==
  ASSUME NEW d, NEW e, NEW S, NEW seed, \A j \in S : e[j].y = d[j].y
  PROVE  Thinned(e, S, seed) = Thinned(d, S, seed)
<1>1. Labelled(e, S, 0) = Labelled(d, S, 0) /\ Labelled(e, S, 1) = Labelled(d, S, 1)
  BY DEF Labelled
<1> QED BY <1>1 DEF Thinned

LEMMA ThinModelSame ==
  ASSUME NEW d, File(d), NEW e, NEW f, NEW g, NEW S \in SUBSET DOMAIN d, Agree(d, e, f, g, S),
         NEW seed \in Nat
  PROVE  Model(e, Thinned(e, S, seed), g) = Model(d, Thinned(d, S, seed), f)
<1>1. Thinned(e, S, seed) = Thinned(d, S, seed)
  BY ThinnedSame DEF Agree
<1> QED BY <1>1, ThinnedPart, ModelSame

(* Cuts by time are the same in both files. *)
LEMMA CutsSame ==
  ASSUME NEW d, File(d), NEW e, NEW i, Apart(d, e, i)
  PROVE  /\ \A step : StepUpTo(e, step) = StepUpTo(d, step)
         /\ \A S \in SUBSET DOMAIN d : \A q : UpTo(e, S, q) = UpTo(d, S, q)
         /\ \A S \in SUBSET DOMAIN d : \A p : QuantileTenfold(e, S, p) = QuantileTenfold(d, S, p)
<1>1. \A step : StepUpTo(e, step) = StepUpTo(d, step)
  BY DEF StepUpTo, Apart
<1>2. \A S \in SUBSET DOMAIN d : \A q : UpTo(e, S, q) = UpTo(d, S, q)
  BY DEF UpTo, Apart
<1>3. ASSUME NEW S \in SUBSET DOMAIN d, NEW p
      PROVE  QuantileTenfold(e, S, p) = QuantileTenfold(d, S, p)
  <2>1. [n \in 1 .. Cardinality(S) |-> e[InOrder(S)[n]].t]
          = [n \in 1 .. Cardinality(S) |-> d[InOrder(S)[n]].t]
    BY OrderOfPart DEF Apart
  <2> QED BY <2>1 DEF QuantileTenfold
<1> QED BY <1>1, <1>2, <1>3

LEMMA IeeeCutsSame ==
  ASSUME NEW d, File(d), NEW e, NEW i, Apart(d, e, i)
  PROVE  IeeeTrain(e) = IeeeTrain(d) /\ IeeeInner(e) = IeeeInner(d) /\ Validation(e) = Validation(d)
<1>1. DOMAIN e = DOMAIN d
  BY DEF Apart
<1>2. IeeeTrain(e) = IeeeTrain(d)
  BY <1>1, CutsSame DEF IeeeTrain
<1>3. IeeeTrain(d) \in SUBSET DOMAIN d
  BY DEF IeeeTrain, UpTo
<1>4. IeeeInner(e) = IeeeInner(d)
  BY <1>2, <1>3, CutsSame DEF IeeeInner
<1> QED BY <1>2, <1>4 DEF Validation

-----------------------------------------------------------------------------
(* Another label: columns stay as they are, and so do labels elsewhere. *)

LEMMA ColumnsSame ==
  ASSUME NEW d, NEW e, NEW i, ApartInLabel(d, e, i)
  PROVE  /\ Who(e) = Who(d) /\ Key(e) = Key(d) /\ Subjects(e) = Subjects(d)
         /\ PaysimFeatures(e) = PaysimFeatures(d)
         /\ TopDevice(e) = TopDevice(d) /\ IeeeFeatures(e) = IeeeFeatures(d)
         /\ \A S \in SUBSET DOMAIN d : KnownTimes(e, S) = KnownTimes(d, S)
<1> USE DEF ApartInLabel, Apart
<1>1. Who(e) = Who(d) /\ Key(e) = Key(d)
  BY DEF Who, Key
<1>2. Subjects(e) = Subjects(d)
  BY DEF Subjects
<1>3. PaysimFeatures(e) = PaysimFeatures(d)
  BY <1>1 DEF PaysimFeatures
<1>4. Naming(e) = Naming(d)
  <2> DEFINE named == {j \in DOMAIN d : d[j].val # Blank}
  <2>1. named = {j \in DOMAIN e : e[j].val # Blank}
    OBVIOUS
  <2>2. {e[j].key : j \in named} = {d[j].key : j \in named}
    OBVIOUS
  <2>3. \A k : {j \in named : e[j].key = k} = {j \in named : d[j].key = k}
    OBVIOUS
  <2>4. Naming(d) = [k \in {d[j].key : j \in named} |-> {j \in named : d[j].key = k}]
    BY DEF Naming
  <2>5. Naming(e) = [k \in {e[j].key : j \in named} |-> {j \in named : e[j].key = k}]
    BY <2>1 DEF Naming
  <2>6. [k \in {d[j].key : j \in named} |-> {j \in named : e[j].key = k}]
          = [k \in {d[j].key : j \in named} |-> {j \in named : d[j].key = k}]
    BY <2>3
  <2> HIDE DEF named
  <2> QED BY <2>2, <2>4, <2>5, <2>6
<1>6. TopDevice(e) = TopDevice(d)
  BY <1>4 DEF TopDevice
<1>7. IeeeFeatures(e) = IeeeFeatures(d)
  BY <1>6 DEF IeeeFeatures
<1>8. ASSUME NEW S \in SUBSET DOMAIN d PROVE KnownTimes(e, S) = KnownTimes(d, S)
  <2>1. {e[j].val : j \in S} = {d[j].val : j \in S}
    OBVIOUS
  <2>2. \A v : {j \in S : e[j].val = v} = {j \in S : d[j].val = v}
    OBVIOUS
  <2> QED BY <2>1, <2>2 DEF KnownTimes
<1> QED BY <1>1, <1>2, <1>3, <1>6, <1>7, <1>8

(* Nothing a script computes of the parts without the row depends on its   *)
(* label.                                                                  *)
LEMMA AgreeInLabel ==
  ASSUME NEW d, NEW e, NEW i, ApartInLabel(d, e, i),
         NEW S \in SUBSET DOMAIN d, i \notin S, NEW f
  PROVE  Agree(d, e, f, f, S)
BY DEF ApartInLabel, Apart, Agree

LEMMA PaysimLabels ==
  ASSUME NEW d, File(d), NEW e, NEW i, ApartInLabel(d, e, i)
  PROVE  /\ i \notin StepUpTo(d, Cut) => Paysim(e) = Paysim(d) /\ SweepPaysim(e) = SweepPaysim(d)
         /\ i \notin StepUpTo(d, InnerCut) =>
              PaysimInner(e).learnt = PaysimInner(d).learnt /\ PaysimInner(e).seen = PaysimInner(d).seen
<1>1. Apart(d, e, i) /\ DOMAIN e = DOMAIN d
  BY DEF ApartInLabel, Apart
<1>2. \A step : StepUpTo(e, step) = StepUpTo(d, step) /\ StepUpTo(d, step) \in SUBSET DOMAIN d
  BY <1>1, CutsSame DEF StepUpTo
<1>3. PaysimFeatures(e) = PaysimFeatures(d)
  BY ColumnsSame
<1>4. \A step, seed : i \notin StepUpTo(d, step) /\ seed \in Nat => PaysimModel(e, step, seed) = PaysimModel(d, step, seed)
  BY <1>2, <1>3, AgreeInLabel, ThinModelSame DEF PaysimModel
<1>5. Seed \in Nat /\ \A seed \in Seeds : seed \in Nat
  BY SplitAssumption
<1>6. ASSUME i \notin StepUpTo(d, Cut) PROVE Paysim(e) = Paysim(d) /\ SweepPaysim(e) = SweepPaysim(d)
  <2>1. \A seed \in Seeds \cup {Seed} : PaysimModel(e, Cut, seed) = PaysimModel(d, Cut, seed)
    BY <1>4, <1>5, <1>6
  <2> QED BY <1>1, <1>2, <1>3, <2>1 DEF Paysim, SweepPaysim
<1>7. ASSUME i \notin StepUpTo(d, InnerCut)
      PROVE  PaysimInner(e).learnt = PaysimInner(d).learnt /\ PaysimInner(e).seen = PaysimInner(d).seen
  <2>1. PaysimModel(e, InnerCut, Seed) = PaysimModel(d, InnerCut, Seed)
    BY <1>4, <1>5, <1>7
  <2> QED BY <1>1, <1>2, <1>3, <2>1 DEF PaysimInner, Audited, Scored
<1> QED BY <1>6, <1>7

LEMMA IeeeLabels ==
  ASSUME NEW d, File(d), NEW e, NEW i, ApartInLabel(d, e, i), i \notin IeeeTrain(d)
  PROVE  /\ Ieee(e) = Ieee(d) /\ SweepIeee(e) = SweepIeee(d)
         /\ Bakeoff(e) = Bakeoff(d) /\ Tuned(e) = Tuned(d)
         /\ LeakIeee(e).learnt = LeakIeee(d).learnt /\ LeakIeee(e).seen = LeakIeee(d).seen
<1>1. Apart(d, e, i) /\ DOMAIN e = DOMAIN d
  BY DEF ApartInLabel, Apart
<1>2. IeeeTrain(e) = IeeeTrain(d) /\ IeeeInner(e) = IeeeInner(d) /\ Validation(e) = Validation(d)
  BY <1>1, IeeeCutsSame
<1>3. /\ IeeeTrain(d) \in SUBSET DOMAIN d /\ IeeeInner(d) \in SUBSET IeeeTrain(d)
      /\ Validation(d) \in SUBSET IeeeTrain(d)
  BY DEF IeeeTrain, IeeeInner, Validation, UpTo
<1>4. IeeeFeatures(e) = IeeeFeatures(d)
  BY ColumnsSame
<1>5. ASSUME NEW S \in SUBSET IeeeTrain(d) PROVE IeeeModel(e, S) = IeeeModel(d, S)
  <2>1. S \in SUBSET DOMAIN d /\ i \notin S
    BY <1>3
  <2>2. Agree(d, e, IeeeFeatures(d), IeeeFeatures(e), S)
    BY <1>4, <2>1, AgreeInLabel
  <2> QED BY <2>1, <2>2, PartModelSame DEF IeeeModel
<1>6. /\ IeeeModel(e, IeeeTrain(e)) = IeeeModel(d, IeeeTrain(d))
      /\ IeeeModel(e, IeeeInner(e)) = IeeeModel(d, IeeeInner(d))
      /\ IeeeModel(e, Validation(e)) = IeeeModel(d, Validation(d))
  BY <1>2, <1>3, <1>5
<1>7. SearchedBy(e) = SearchedBy(d)
  <2>1. IeeeInner(d) \in SUBSET DOMAIN d /\ i \notin IeeeInner(d)
    BY <1>3
  <2>2. Agree(d, e, IeeeFeatures(d), IeeeFeatures(e), IeeeInner(d))
    BY <1>4, <2>1, AgreeInLabel
  <2>3. Seed \in Nat
    BY SplitAssumption
  <2>4. Model(e, Thinned(e, IeeeInner(d), Seed), IeeeFeatures(e))
          = Model(d, Thinned(d, IeeeInner(d), Seed), IeeeFeatures(d))
    BY <2>1, <2>2, <2>3, ThinModelSame
  <2> QED BY <1>2, <1>6, <2>4 DEF SearchedBy
<1>8. Ieee(e) = Ieee(d) /\ SweepIeee(e) = SweepIeee(d)
  BY <1>1, <1>2, <1>4, <1>6 DEF Ieee, SweepIeee
<1>9. Bakeoff(e) = Bakeoff(d) /\ Tuned(e) = Tuned(d)
  BY <1>1, <1>2, <1>4, <1>6, <1>7 DEF Bakeoff, Tuned
<1>10. LeakIeee(e).learnt = LeakIeee(d).learnt /\ LeakIeee(e).seen = LeakIeee(d).seen
  BY <1>8 DEF LeakIeee, Audited
<1> QED BY <1>8, <1>9, <1>10

(* Frequencies are of training rows, by their labels and keys. *)
LEMMA FrequencySame ==
  ASSUME NEW d, NEW e, NEW i, Apart(d, e, i), NEW train \in SUBSET DOMAIN d, i \notin train,
         NEW j \in DOMAIN d, e[j].key = d[j].key
  PROVE  Frequency(e, train, j) = Frequency(d, train, j)
<1>1. {k \in train : e[k].y = 0} = {k \in train : d[k].y = 0}
  BY DEF Apart
<1>2. {k \in {l \in train : d[l].y = 0} : e[k].key = e[j].key}
        = {k \in {l \in train : d[l].y = 0} : d[k].key = d[j].key}
  BY DEF Apart
<1> QED BY <1>1, <1>2 DEF Frequency

(* Where the test set is the same, so is the rest of the window. *)
LEMMA RbaTrainSame ==
  ASSUME NEW d, NEW e, NEW S, S \ RbaTrain(e, S) = S \ RbaTrain(d, S)
  PROVE  RbaTrain(e, S) = RbaTrain(d, S)
BY DEF RbaTrain, UpTo

LEMMA RbaLabels ==
  ASSUME NEW d, File(d), NEW e, NEW i, ApartInLabel(d, e, i), InWindow(e) = InWindow(d),
         InWindow(e) \ RbaTrain(e, InWindow(e)) = InWindow(d) \ RbaTrain(d, InWindow(d)),
         i \notin RbaTrain(d, InWindow(d))
  PROVE  Rba(e) = Rba(d)
<1> DEFINE S == InWindow(d)
           train == RbaTrain(d, S)
<1>1. Apart(d, e, i) /\ DOMAIN e = DOMAIN d
  BY DEF ApartInLabel, Apart
<1>2. S \in SUBSET DOMAIN d /\ train \in SUBSET S
  BY DEF InWindow, RbaTrain, UpTo
<1>3. InWindow(e) = S /\ RbaTrain(e, S) = train
  BY RbaTrainSame
<1>4. RbaFeatures(e, S, train) = RbaFeatures(d, S, train)
  <2>1. KnownTimes(e, S) = KnownTimes(d, S)
    BY <1>2, ColumnsSame
  <2>2. \A j \in S : Frequency(e, train, j) = Frequency(d, train, j)
    BY <1>1, <1>2, FrequencySame DEF ApartInLabel
  <2>3. \A j \in S : e[j].t = d[j].t /\ e[j].val = d[j].val
    BY <1>2 DEF ApartInLabel, Apart
  <2> HIDE DEF S, train
  <2> QED BY <2>1, <2>2, <2>3 DEF RbaFeatures
<1> DEFINE f == RbaFeatures(d, S, train)
<1>5. Model(e, InOrder(train), f) = Model(d, InOrder(train), f)
  <2> HIDE DEF S, train, f
  <2>1. train \in SUBSET DOMAIN d /\ i \notin train
    BY <1>2 DEF train, S
  <2> QED BY <2>1, AgreeInLabel, PartModelSame
<1>6. Rba(d) = Scored(Model(d, InOrder(train), f), S \ train, f)
  BY DEF Rba
<1>7. Rba(e) = Scored(Model(e, InOrder(train), f), S \ train, f)
  BY <1>3, <1>4 DEF Rba
<1> HIDE DEF S, train, f
<1> QED BY <1>5, <1>6, <1>7

LEMMA RbaFullLabels ==
  ASSUME NEW d, File(d), NEW e, NEW i, ApartInLabel(d, e, i),
         DOMAIN e \ RbaTrain(e, DOMAIN e) = DOMAIN d \ RbaTrain(d, DOMAIN d),
         i \notin RbaTrain(d, DOMAIN d)
  PROVE  RbaFull(e) = RbaFull(d)
<1> DEFINE train == RbaTrain(d, DOMAIN d)
           thin == Thinned(d, train, Seed)
           f == [j \in DOMAIN d |-> <<d[j].t, d[j].val, Frequency(d, ToSet(thin), j)>>]
           g == [j \in DOMAIN e |-> <<e[j].t, e[j].val, Frequency(e, ToSet(thin), j)>>]
<1>1. Apart(d, e, i) /\ DOMAIN e = DOMAIN d
  BY DEF ApartInLabel, Apart
<1>2. train \in SUBSET DOMAIN d /\ i \notin train
  BY DEF RbaTrain, UpTo
<1>3. RbaTrain(e, DOMAIN e) = train
  BY <1>1, RbaTrainSame
<1>4. Seed \in Nat
  BY SplitAssumption
<1>5. Thinned(e, train, Seed) = thin
  <2>1. \A j \in train : e[j].y = d[j].y
    BY <1>1, <1>2 DEF Apart
  <2> HIDE DEF train
  <2> QED BY <2>1, ThinnedSame
<1>6. ToSet(thin) \in SUBSET train
  <2> HIDE DEF train
  <2>1. \A n \in DOMAIN thin : thin[n] \in train
    BY <1>2, <1>4, ThinnedPart
  <2> HIDE DEF thin
  <2> QED BY <2>1 DEF ToSet
<1>7. g = f
  <2> HIDE DEF train, thin
  <2>1. \A j \in DOMAIN d : Frequency(e, ToSet(thin), j) = Frequency(d, ToSet(thin), j)
    BY <1>1, <1>2, <1>6, FrequencySame DEF ApartInLabel
  <2>2. \A j \in DOMAIN d : e[j].t = d[j].t /\ e[j].val = d[j].val
    BY DEF ApartInLabel, Apart
  <2> QED BY <1>1, <2>1, <2>2
<1>8. Model(e, thin, f) = Model(d, thin, f)
  <2> HIDE DEF train, f
  <2>1. Agree(d, e, f, f, train)
    BY <1>2, AgreeInLabel
  <2>2. Model(e, Thinned(e, train, Seed), f) = Model(d, Thinned(d, train, Seed), f)
    BY <1>2, <1>4, <2>1, ThinModelSame
  <2> QED BY <1>5, <2>2
<1>9. RbaFull(d) = Scored(Model(d, thin, f), DOMAIN d \ train, f)
  BY DEF RbaFull
<1>10. RbaFull(e) = Scored(Model(e, thin, g), DOMAIN d \ train, g)
  <2>1. RbaFull(e) = Scored(Model(e, Thinned(e, train, Seed), [j \in DOMAIN e |->
                       <<e[j].t, e[j].val, Frequency(e, ToSet(Thinned(e, train, Seed)), j)>>]),
                            DOMAIN e \ train,
                            [j \in DOMAIN e |->
                       <<e[j].t, e[j].val, Frequency(e, ToSet(Thinned(e, train, Seed)), j)>>])
    BY <1>3 DEF RbaFull
  <2> HIDE DEF train, thin
  <2> QED BY <1>1, <1>5, <2>1
<1> HIDE DEF train, thin, f, g
<1> QED BY <1>7, <1>8, <1>9, <1>10

(* Subjects, their rows and their strokes have no labels. *)
LEMMA SubjectsLabels ==
  ASSUME NEW d, File(d), NEW e, NEW i, ApartInLabel(d, e, i)
  PROVE  Cmu(e) = Cmu(d) /\ Deviation(e) = Deviation(d)
<1>1. DOMAIN e = DOMAIN d /\ Subjects(e) = Subjects(d)
  BY ColumnsSame DEF ApartInLabel, Apart
<1>2. \A j \in DOMAIN d : e[j].who = d[j].who /\ e[j].key = d[j].key /\ e[j].val = d[j].val
  BY DEF ApartInLabel
<1>3. \A u : RepsOf(e, u) = RepsOf(d, u)
  <2>1. \A u : {j \in DOMAIN e : e[j].who = u} = {j \in DOMAIN d : d[j].who = u}
    BY <1>1, <1>2
  <2> QED BY <2>1 DEF RepsOf
<1>4. \A u : Enrolled(e, u) = Enrolled(d, u) /\ \A j \in Enrolled(d, u) : j \in DOMAIN d
  <2>1. \A u : {j \in DOMAIN d : d[j].who = u} \in SUBSET DOMAIN d
    OBVIOUS
  <2>2. \A u : \A n \in DOMAIN RepsOf(d, u) : RepsOf(d, u)[n] \in DOMAIN d
    BY <2>1, OrderOfPart DEF RepsOf
  <2> QED BY <1>3, <2>2 DEF Enrolled, FirstOf
<1>5. \A u : Tried(e, u) = Tried(d, u)
  BY <1>1, <1>3, <1>4 DEF Tried
<1>6. \A j \in DOMAIN d : Stroke(e[j]) = Stroke(d[j])
  BY <1>2 DEF Stroke
<1>7. Cmu(e) = Cmu(d)
  <2>1. ASSUME NEW u PROVE {<<j, Stroke(e[j])>> : j \in Enrolled(e, u)} = {<<j, Stroke(d[j])>> : j \in Enrolled(d, u)}
    BY <1>4, <1>6
  <2>2. \A j \in DOMAIN d : {u \in Subjects(e) : j \in Tried(e, u)} = {u \in Subjects(d) : j \in Tried(d, u)}
    BY <1>1, <1>5
  <2>3. [u \in Subjects(e) |-> {<<j, Stroke(e[j])>> : j \in Enrolled(e, u)}]
          = [u \in Subjects(d) |-> {<<j, Stroke(d[j])>> : j \in Enrolled(d, u)}]
    BY <1>1, <2>1
  <2>4. [j \in DOMAIN e |-> <<Stroke(e[j]), {u \in Subjects(e) : j \in Tried(e, u)}>>]
          = [j \in DOMAIN d |-> <<Stroke(d[j]), {u \in Subjects(d) : j \in Tried(d, u)}>>]
    BY <1>1, <1>6, <2>2
  <2> QED BY <1>1, <2>3, <2>4 DEF Cmu
<1>8. Deviation(e) = Deviation(d)
  <2> DEFINE Norm(b, j) == [k \in DOMAIN RepsOf(b, b[j].who) |-> Stroke(b[RepsOf(b, b[j].who)[k]])]
  <2>1. ASSUME NEW j \in DOMAIN d PROVE Norm(e, j) = Norm(d, j)
    <3> DEFINE reps == RepsOf(d, d[j].who)
    <3>1. RepsOf(e, e[j].who) = reps
      BY <1>2, <1>3
    <3>2. \A n \in DOMAIN reps : reps[n] \in DOMAIN d
      <4>1. {k \in DOMAIN d : d[k].who = d[j].who} \in SUBSET DOMAIN d
        OBVIOUS
      <4> QED BY <4>1, OrderOfPart DEF RepsOf
    <3> HIDE DEF reps
    <3>3. [k \in DOMAIN reps |-> Stroke(e[reps[k]])] = [k \in DOMAIN reps |-> Stroke(d[reps[k]])]
      BY <1>6, <3>2
    <3> QED BY <3>1, <3>3 DEF reps
  <2>2. Deviation(e) = [j \in DOMAIN e |-> <<Stroke(e[j]), Norm(e, j)>>]
    BY DEF Deviation
  <2>3. Deviation(d) = [j \in DOMAIN d |-> <<Stroke(d[j]), Norm(d, j)>>]
    BY DEF Deviation
  <2> HIDE DEF Norm
  <2> QED BY <1>1, <1>6, <2>1, <2>2, <2>3
<1> QED BY <1>7, <1>8

(* In the fold of its user, and only there, a row is held back. *)
LEMMA GroupedLabels ==
  ASSUME NEW d, File(d), NEW e, NEW i \in DOMAIN d, ApartInLabel(d, e, i)
  PROVE  Grouped(e).seen = Grouped(d).seen /\ Grouped(e).learnt[d[i].who] = Grouped(d).learnt[d[i].who]
<1> DEFINE u == d[i].who
           S == {j \in DOMAIN d : d[j].who # u}
           f == Deviation(d)
<1>1. DOMAIN e = DOMAIN d /\ Subjects(e) = Subjects(d) /\ Deviation(e) = f
  BY ColumnsSame, SubjectsLabels DEF ApartInLabel, Apart
<1>2. S = {j \in DOMAIN e : e[j].who # u}
  BY <1>1 DEF ApartInLabel
<1>3. u \in Subjects(d) /\ S \in SUBSET DOMAIN d /\ i \notin S
  BY DEF Subjects
<1>4. Grouped(d).learnt[u] = Model(d, InOrder(S), f) /\ Grouped(d).seen = [j \in DOMAIN d |-> f[j]]
  BY <1>3 DEF Grouped, Scored
<1>5. Grouped(e).learnt[u] = Model(e, InOrder(S), f) /\ Grouped(e).seen = [j \in DOMAIN e |-> f[j]]
  <2>1. Grouped(e).learnt[u] = Model(e, InOrder({j \in DOMAIN e : e[j].who # u}), Deviation(e))
    BY <1>1, <1>3 DEF Grouped, Scored
  <2>2. Grouped(e).seen = [j \in DOMAIN e |-> Deviation(e)[j]]
    BY DEF Grouped, Scored
  <2> QED BY <1>1, <1>2, <2>1, <2>2
<1> HIDE DEF S, f
<1>6. Model(e, InOrder(S), f) = Model(d, InOrder(S), f)
  BY <1>3, AgreeInLabel, PartModelSame
<1> QED BY <1>1, <1>4, <1>5, <1>6

LEMMA LabelsUnseen ==
  ASSUME NEW d, File(d), NEW by \in Scripts, NEW i \in Test(by, d), SameSplit(by, d, Flipped(d, i))
  PROVE  LET e == Flipped(d, i)
         IN  /\ Outcome(by, e).seen = Outcome(by, d).seen
             /\ IF by = "grouped" THEN Outcome(by, e).learnt[d[i].who] = Outcome(by, d).learnt[d[i].who]
                ELSE Outcome(by, e).learnt = Outcome(by, d).learnt
<1> DEFINE e == Flipped(d, i)
<1> USE DEF PaysimScripts, IeeeScripts, RbaScripts, CmuScripts, CertScripts
<1>1. i \in DOMAIN d
  BY DEF Test, InWindow, Scripts
<1>2. ApartInLabel(d, e, i)
  BY <1>1, FlippedApart
<1> HIDE DEF e
<1>3. CASE by \in PaysimScripts
  <2>1. i \notin StepUpTo(d, Cut)
    BY <1>3 DEF Test
  <2>2. Paysim(e) = Paysim(d) /\ SweepPaysim(e) = SweepPaysim(d)
    BY <1>2, <2>1, PaysimLabels
  <2>3. Outcome(by, e) = Outcome(by, d)
    BY <1>3, <2>2 DEF Outcome, LeakPaysim
  <2>4. by # "grouped"
    BY <1>3
  <2> QED BY <2>3, <2>4 DEF e
<1>4. CASE by = "phaseb"
  <2>1. i \notin StepUpTo(d, InnerCut)
    BY <1>4 DEF Test
  <2>2. PaysimInner(e).learnt = PaysimInner(d).learnt /\ PaysimInner(e).seen = PaysimInner(d).seen
    BY <1>2, <2>1, PaysimLabels
  <2>3. Outcome(by, e) = PaysimInner(e) /\ Outcome(by, d) = PaysimInner(d) /\ by # "grouped"
    BY <1>4 DEF Outcome
  <2> QED BY <2>2, <2>3 DEF e
<1>5. CASE by \in IeeeScripts
  <2>1. i \notin IeeeTrain(d)
    BY <1>5 DEF Test
  <2>2. /\ Ieee(e) = Ieee(d) /\ SweepIeee(e) = SweepIeee(d)
        /\ Bakeoff(e) = Bakeoff(d) /\ Tuned(e) = Tuned(d)
        /\ LeakIeee(e).learnt = LeakIeee(d).learnt /\ LeakIeee(e).seen = LeakIeee(d).seen
    BY <1>2, <2>1, IeeeLabels
  <2>3. Outcome(by, e).learnt = Outcome(by, d).learnt /\ Outcome(by, e).seen = Outcome(by, d).seen
    <3>1. CASE by = "leak_ieee"
      <4>1. Outcome(by, e) = LeakIeee(e) /\ Outcome(by, d) = LeakIeee(d)
        BY <3>1 DEF Outcome
      <4> QED BY <2>2, <4>1
    <3>2. CASE by # "leak_ieee"
      <4>1. Outcome(by, e) = Outcome(by, d)
        BY <1>5, <2>2, <3>2 DEF Outcome
      <4> QED BY <4>1
    <3> QED BY <3>1, <3>2
  <2>4. by # "grouped"
    BY <1>5
  <2> QED BY <2>3, <2>4 DEF e
<1>6. CASE by \in RbaScripts
  <2>1. InWindow(e) = InWindow(d) /\ Test(by, e) = Test(by, d)
    BY <1>6 DEF SameSplit, e
  <2>2. \A b : Test(by, b) = InWindow(b) \ RbaTrain(b, InWindow(b))
    BY <1>6 DEF Test
  <2>3. Rba(e) = Rba(d)
    BY <1>2, <2>1, <2>2, RbaLabels
  <2>4. Outcome(by, e) = Outcome(by, d) /\ by # "grouped"
    BY <1>6, <2>3 DEF Outcome, SweepRba, LeakRba
  <2> QED BY <2>4 DEF e
<1>7. CASE by = "rba_full"
  <2>1. Test(by, e) = Test(by, d)
    BY <1>7 DEF SameSplit, e
  <2>2. \A b : Test(by, b) = DOMAIN b \ RbaTrain(b, DOMAIN b)
    BY <1>7 DEF Test
  <2>3. RbaFull(e) = RbaFull(d)
    BY <1>2, <2>1, <2>2, RbaFullLabels
  <2>4. Outcome(by, e) = Outcome(by, d) /\ by # "grouped"
    BY <1>7, <2>3 DEF Outcome
  <2> QED BY <2>4 DEF e
<1>8. CASE by \in CmuScripts
  <2>1. Cmu(e) = Cmu(d)
    BY <1>2, SubjectsLabels
  <2>2. Outcome(by, e) = Outcome(by, d) /\ by # "grouped"
    BY <1>8, <2>1 DEF Outcome, Mahalanobis
  <2> QED BY <2>2 DEF e
<1>9. CASE by \in CertScripts
  <2>1. DOMAIN e = DOMAIN d /\ Deviation(e) = Deviation(d)
    BY <1>2, SubjectsLabels DEF ApartInLabel, Apart
  <2>2. Cert(e) = Cert(d)
    BY <2>1 DEF Cert
  <2>3. CASE by \in {"cert", "sweep_cert"}
    <3>1. Outcome(by, e) = Outcome(by, d) /\ by # "grouped"
      BY <2>2, <2>3 DEF Outcome, SweepCert
    <3> QED BY <3>1 DEF e
  <2>4. CASE by = "leak_cert"
    <3>1. Outcome(by, e) = LeakCert(e) /\ Outcome(by, d) = LeakCert(d) /\ by # "grouped"
      BY <2>4 DEF Outcome
    <3>2. LeakCert(e).learnt = LeakCert(d).learnt /\ LeakCert(e).seen = LeakCert(d).seen
      BY <2>2 DEF LeakCert, Audited
    <3> QED BY <3>1, <3>2 DEF e
  <2>5. CASE by = "grouped"
    <3>1. Outcome(by, e) = Grouped(e) /\ Outcome(by, d) = Grouped(d)
      BY <2>5 DEF Outcome
    <3>2. Grouped(e).seen = Grouped(d).seen /\ Grouped(e).learnt[d[i].who] = Grouped(d).learnt[d[i].who]
      BY <1>1, <1>2, GroupedLabels
    <3> QED BY <2>5, <3>1, <3>2 DEF e
  <2> QED BY <1>9, <2>3, <2>4, <2>5
<1> QED BY <1>3, <1>4, <1>5, <1>6, <1>7, <1>8, <1>9 DEF Scripts

-----------------------------------------------------------------------------
(* What was fitted, was fitted on the rows there are. *)
FittedOnRows ==
  /\ File(rows)
  /\ fitted = NotFitted \/ \E by \in Scripts : fitted = [by |-> by, scores |-> Outcome(by, rows)]

LEMMA InitFitted == TrainInit => FittedOnRows
BY DEF TrainInit, FittedOnRows, File

LEMMA AddedRow ==
  ASSUME FittedOnRows, NEW t \in Times, NEW y \in 0 .. 1, NEW content \in Contents,
         AddRowOf(t, y, content)
  PROVE  FittedOnRows'
<1> DEFINE row == [t |-> t, y |-> y, who |-> content[1], key |-> content[2], val |-> content[3]]
<1>1. rows \in Seq(DataRows) /\ rows' = Append(rows, row) /\ fitted' = NotFitted
  BY DEF AddRowOf, FittedOnRows, File
<1>2. row \in DataRows
  BY DEF DataRows
<1>3. rows' \in Seq(DataRows) /\ Len(rows') = Len(rows) + 1
  BY <1>1, <1>2
<1>4. \A i \in DOMAIN rows' :
        \/ i \in DOMAIN rows /\ rows'[i] = rows[i]
        \/ i = Len(rows') /\ rows'[i] = row
  BY <1>1, <1>2
<1>5. \A i \in DOMAIN rows : rows[i].t <= t
  <2> SUFFICES ASSUME NEW i \in DOMAIN rows PROVE rows[i].t <= t
    OBVIOUS
  <2>1. Len(rows) \in DOMAIN rows /\ i <= Len(rows) /\ rows # <<>>
    BY <1>1
  <2>2. rows[i].t <= rows[Len(rows)].t /\ rows[Len(rows)].t <= t
    BY <2>1 DEF AddRowOf, Last, FittedOnRows, File
  <2>3. rows[i].t \in Int /\ rows[Len(rows)].t \in Int /\ t \in Int
    <3>1. rows[i] \in DataRows /\ rows[Len(rows)] \in DataRows
      BY <1>1, <2>1
    <3>2. rows[i].t \in Times /\ rows[Len(rows)].t \in Times
      BY <3>1 DEF DataRows
    <3> QED BY <3>2, SplitAssumption
  <2> QED BY <2>2, <2>3
<1>6. \A i, j \in DOMAIN rows' : i <= j => rows'[i].t <= rows'[j].t
  <2> SUFFICES ASSUME NEW i \in DOMAIN rows', NEW j \in DOMAIN rows', i <= j
               PROVE  rows'[i].t <= rows'[j].t
    OBVIOUS
  <2>1. t <= t
    BY SplitAssumption
  <2>2. DOMAIN rows' = 1 .. Len(rows') /\ DOMAIN rows = 1 .. Len(rows) /\ Len(rows) \in Nat
    BY <1>1, <1>3
  <2>3. CASE j \in DOMAIN rows /\ rows'[j] = rows[j]
    <3>1. i \in DOMAIN rows /\ rows'[i] = rows[i]
      BY <1>3, <1>4, <2>2, <2>3
    <3> QED BY <2>3, <3>1 DEF FittedOnRows, File
  <2>4. CASE rows'[j] = row
    BY <1>4, <1>5, <2>1, <2>4
  <2> QED BY <1>4, <2>3, <2>4
<1> QED BY <1>1, <1>3, <1>6 DEF FittedOnRows, File

LEMMA StepFitted == FittedOnRows /\ [TrainNext]_trainVars => FittedOnRows'
<1> SUFFICES ASSUME FittedOnRows, [TrainNext]_trainVars PROVE FittedOnRows'
  OBVIOUS
<1>1. CASE \E t \in Times, y \in 0 .. 1, content \in Contents : AddRowOf(t, y, content)
  BY <1>1, AddedRow
<1>2. CASE \E by \in Scripts : Fit(by)
  <2> PICK by \in Scripts : Fit(by)
    BY <1>2
  <2> QED BY DEF Fit, FittedOnRows, File
<1>3. CASE UNCHANGED trainVars
  BY <1>3 DEF trainVars, FittedOnRows, File
<1> QED BY <1>1, <1>2, <1>3 DEF TrainNext

LEMMA FittedBy ==
  ASSUME FittedOnRows, fitted.by # Unset
  PROVE  fitted.by \in Scripts /\ fitted.scores = Outcome(fitted.by, rows)
BY DEF FittedOnRows, NotFitted

LEMMA FittedUnseen == FittedOnRows => TestLabelsUnseen
<1> SUFFICES ASSUME FittedOnRows, fitted.by # Unset, NEW i \in Test(fitted.by, rows),
                    SameSplit(fitted.by, rows, Flipped(rows, i))
             PROVE  LET by == fitted.by
                        after == Outcome(by, Flipped(rows, i))
                    IN  /\ after.seen = fitted.scores.seen
                        /\ IF by = "grouped" THEN after.learnt[rows[i].who] = fitted.scores.learnt[rows[i].who]
                           ELSE after.learnt = fitted.scores.learnt
  BY DEF TestLabelsUnseen, Flipped
<1>1. fitted.by \in Scripts /\ fitted.scores = Outcome(fitted.by, rows) /\ File(rows)
  BY FittedBy DEF FittedOnRows
<1> QED BY <1>1, LabelsUnseen

(* train.py:12 "no look-ahead leakage", for labels: whatever the rows, no  *)
(* script learns from, or sees, the label of a row it holds back.          *)
THEOREM LabelsHeldBack == TrainSpec => []TestLabelsUnseen
BY InitFitted, StepFitted, FittedUnseen, PTL DEF TrainSpec

-----------------------------------------------------------------------------
(* Another content: labels and times stay as they are, and so does every   *)
(* column up to the row.                                                   *)

LEMMA PaysimBefore ==
  ASSUME NEW d, File(d), NEW e, NEW i \in DOMAIN d, ApartInContent(d, e, i)
  PROVE  \A j \in DOMAIN d : j < i => PaysimFeatures(e)[j] = PaysimFeatures(d)[j]
<1> SUFFICES ASSUME NEW j \in DOMAIN d, j < i PROVE PaysimFeatures(e)[j] = PaysimFeatures(d)[j]
  OBVIOUS
<1>1. DOMAIN e = DOMAIN d /\ DOMAIN d \in SUBSET Int
  BY FileRows DEF ApartInContent, Apart
<1>2. e[j] = d[j]
  BY <1>1 DEF ApartInContent, Apart
<1>3. DOMAIN d = 1 .. Len(d) /\ Len(d) \in Nat
  BY DEF File
<1>4. \A k \in 1 .. j - 1 : k \in DOMAIN d /\ e[k] = d[k]
  <2> SUFFICES ASSUME NEW k \in 1 .. j - 1 PROVE k \in DOMAIN d /\ e[k] = d[k]
    OBVIOUS
  <2>1. k \in DOMAIN d /\ k # i
    BY <1>3
  <2> QED BY <2>1 DEF ApartInContent, Apart
<1>5. SeenBefore(Who(e), j) = SeenBefore(Who(d), j)
  <2>1. {k \in 1 .. j - 1 : Who(e)[k] = Who(e)[j]} = {k \in 1 .. j - 1 : Who(d)[k] = Who(d)[j]}
    BY <1>1, <1>2, <1>4 DEF Who
  <2> QED BY <2>1 DEF SeenBefore
<1>6. SeenBefore(Key(e), j) = SeenBefore(Key(d), j)
  <2>1. {k \in 1 .. j - 1 : Key(e)[k] = Key(e)[j]} = {k \in 1 .. j - 1 : Key(d)[k] = Key(d)[j]}
    BY <1>1, <1>2, <1>4 DEF Key
  <2> QED BY <2>1 DEF SeenBefore
<1> QED BY <1>1, <1>2, <1>5, <1>6 DEF PaysimFeatures

(* What is trained on lies before what is held back. *)
LEMMA CutIsBefore ==
  ASSUME NEW d, File(d), NEW step \in Int, NEW i \in DOMAIN d, i \notin StepUpTo(d, step),
         NEW j \in StepUpTo(d, step)
  PROVE  j \in DOMAIN d /\ j < i
<1>1. j \in DOMAIN d /\ d[j].t <= step /\ ~(d[i].t <= step) /\ i \in Int /\ j \in Int
  BY FileRows DEF StepUpTo
<1>2. d[i].t \in Int /\ d[j].t \in Int
  <2>1. d[i].t \in Times /\ d[j].t \in Times
    BY <1>1, FileRows DEF DataRows
  <2> QED BY <2>1, SplitAssumption
<1>3. i <= j => d[i].t <= d[j].t
  BY <1>1 DEF File
<1> QED BY <1>1, <1>2, <1>3

(* Fitted on the same, and seeing the same of the rows before i. *)
UnseenBefore(b, a, i) ==
  b.learnt = a.learnt /\ \A j \in DOMAIN b.seen : j < i => b.seen[j] = a.seen[j]

LEMMA PaysimContents ==
  ASSUME NEW d, File(d), NEW e, NEW i \in DOMAIN d, ApartInContent(d, e, i)
  PROVE  /\ i \notin StepUpTo(d, Cut) =>
              UnseenBefore(Paysim(e), Paysim(d), i) /\ UnseenBefore(SweepPaysim(e), SweepPaysim(d), i)
         /\ i \notin StepUpTo(d, InnerCut) => UnseenBefore(PaysimInner(e), PaysimInner(d), i)
<1>1. Apart(d, e, i) /\ DOMAIN e = DOMAIN d
  BY DEF ApartInContent, Apart
<1>2. \A step : StepUpTo(e, step) = StepUpTo(d, step) /\ StepUpTo(d, step) \in SUBSET DOMAIN d
  BY <1>1, CutsSame DEF StepUpTo
<1>3. ASSUME NEW step \in Int, i \notin StepUpTo(d, step), NEW seed \in Nat
      PROVE  PaysimModel(e, step, seed) = PaysimModel(d, step, seed)
  <2>1. Agree(d, e, PaysimFeatures(d), PaysimFeatures(e), StepUpTo(d, step))
    BY <1>3, CutIsBefore, PaysimBefore DEF Agree, ApartInContent
  <2> QED BY <1>2, <2>1, ThinModelSame DEF PaysimModel
<1>4. Cut \in Int /\ InnerCut \in Int /\ Seed \in Nat /\ \A seed \in Seeds : seed \in Nat
  BY SplitAssumption
<1>5. ASSUME NEW step PROVE \A j \in DOMAIN d \ StepUpTo(d, step) : j < i => PaysimFeatures(e)[j] = PaysimFeatures(d)[j]
  BY PaysimBefore
<1>6. ASSUME i \notin StepUpTo(d, Cut)
      PROVE  UnseenBefore(Paysim(e), Paysim(d), i) /\ UnseenBefore(SweepPaysim(e), SweepPaysim(d), i)
  <2>1. \A seed \in Seeds \cup {Seed} : PaysimModel(e, Cut, seed) = PaysimModel(d, Cut, seed)
    BY <1>3, <1>4, <1>6
  <2>2. Paysim(e).learnt = Paysim(d).learnt /\ SweepPaysim(e).learnt = SweepPaysim(d).learnt
    BY <2>1 DEF Paysim, SweepPaysim, Scored
  <2>3. \A b \in {d, e} : /\ Paysim(b).seen = [j \in DOMAIN d \ StepUpTo(d, Cut) |-> PaysimFeatures(b)[j]]
                          /\ SweepPaysim(b).seen = [j \in DOMAIN d \ StepUpTo(d, Cut) |-> PaysimFeatures(b)[j]]
    BY <1>1, <1>2 DEF Paysim, SweepPaysim, Scored
  <2> QED BY <1>5, <2>2, <2>3 DEF UnseenBefore
<1>7. ASSUME i \notin StepUpTo(d, InnerCut) PROVE UnseenBefore(PaysimInner(e), PaysimInner(d), i)
  <2>1. PaysimModel(e, InnerCut, Seed) = PaysimModel(d, InnerCut, Seed)
    BY <1>3, <1>4, <1>7
  <2>2. PaysimInner(e).learnt = PaysimInner(d).learnt
    BY <2>1 DEF PaysimInner, Scored, Audited
  <2>3. \A b \in {d, e} : PaysimInner(b).seen = [j \in DOMAIN d \ StepUpTo(d, InnerCut) |-> PaysimFeatures(b)[j]]
    BY <1>1, <1>2 DEF PaysimInner, Scored, Audited
  <2> QED BY <1>5, <2>2, <2>3 DEF UnseenBefore
<1> QED BY <1>6, <1>7

(* As long as the same device is the one most often named. *)
LEMMA IeeeContents ==
  ASSUME NEW d, File(d), NEW e, NEW i \in DOMAIN d, ApartInContent(d, e, i),
         i \notin IeeeTrain(d), TopDevice(e) = TopDevice(d)
  PROVE  /\ UnseenBefore(Ieee(e), Ieee(d), i) /\ UnseenBefore(SweepIeee(e), SweepIeee(d), i)
         /\ UnseenBefore(Bakeoff(e), Bakeoff(d), i) /\ UnseenBefore(Tuned(e), Tuned(d), i)
         /\ UnseenBefore(LeakIeee(e), LeakIeee(d), i)
<1> DEFINE f == IeeeFeatures(d)
           g == IeeeFeatures(e)
<1>1. Apart(d, e, i) /\ DOMAIN e = DOMAIN d
  BY DEF ApartInContent, Apart
<1>2. IeeeTrain(e) = IeeeTrain(d) /\ IeeeInner(e) = IeeeInner(d) /\ Validation(e) = Validation(d)
  BY <1>1, IeeeCutsSame
<1>3. /\ IeeeTrain(d) \in SUBSET DOMAIN d /\ IeeeInner(d) \in SUBSET IeeeTrain(d)
      /\ Validation(d) \in SUBSET IeeeTrain(d)
  BY DEF IeeeTrain, IeeeInner, Validation, UpTo
<1>4. \A j \in DOMAIN d : j # i => g[j] = f[j]
  BY <1>1 DEF IeeeFeatures, Apart
<1> HIDE DEF f, g
<1>5. \A S \in SUBSET IeeeTrain(d) : S \in SUBSET DOMAIN d /\ Agree(d, e, f, g, S)
  BY <1>3, <1>4 DEF Agree, ApartInContent
<1>6. \A S \in SUBSET IeeeTrain(d) : IeeeModel(e, S) = IeeeModel(d, S)
  <2> SUFFICES ASSUME NEW S \in SUBSET IeeeTrain(d) PROVE IeeeModel(e, S) = IeeeModel(d, S)
    OBVIOUS
  <2>1. Model(e, InOrder(S), g) = Model(d, InOrder(S), f)
    BY <1>5, PartModelSame
  <2> QED BY <2>1 DEF IeeeModel, f, g
<1>7. /\ IeeeModel(e, IeeeTrain(e)) = IeeeModel(d, IeeeTrain(d))
      /\ IeeeModel(e, IeeeInner(e)) = IeeeModel(d, IeeeInner(d))
      /\ IeeeModel(e, Validation(e)) = IeeeModel(d, Validation(d))
  BY <1>2, <1>3, <1>6
<1>8. SearchedBy(e) = SearchedBy(d)
  <2>1. Seed \in Nat
    BY SplitAssumption
  <2>2. Model(e, Thinned(e, IeeeInner(d), Seed), g) = Model(d, Thinned(d, IeeeInner(d), Seed), f)
    BY <1>3, <1>5, <2>1, ThinModelSame
  <2> QED BY <1>2, <1>7, <2>2 DEF SearchedBy, f, g
<1>9. /\ Ieee(e).learnt = Ieee(d).learnt /\ SweepIeee(e).learnt = SweepIeee(d).learnt
      /\ LeakIeee(e).learnt = LeakIeee(d).learnt
  BY <1>7 DEF Ieee, SweepIeee, LeakIeee, Scored, Audited
<1>10. Bakeoff(e).learnt = Bakeoff(d).learnt /\ Tuned(e).learnt = Tuned(d).learnt
  BY <1>7, <1>8 DEF Bakeoff, Tuned, Scored
<1>11. \A b \in {d, e} :
         /\ Ieee(b).seen = [j \in DOMAIN d \ IeeeTrain(d) |-> IeeeFeatures(b)[j]]
         /\ SweepIeee(b).seen = [j \in DOMAIN d \ IeeeTrain(d) |-> IeeeFeatures(b)[j]]
         /\ LeakIeee(b).seen = [j \in DOMAIN d \ IeeeTrain(d) |-> IeeeFeatures(b)[j]]
         /\ Tuned(b).seen = [j \in DOMAIN d \ IeeeTrain(d) |-> IeeeFeatures(b)[j]]
         /\ Bakeoff(b).seen = [j \in Validation(d) |-> IeeeFeatures(b)[j]]
  BY <1>1, <1>2 DEF Ieee, SweepIeee, LeakIeee, Tuned, Bakeoff, Scored, Audited
<1>12. \A S \in SUBSET DOMAIN d : \A j \in S : j < i => g[j] = f[j]
  BY <1>4, FileRows
<1>13. Validation(d) \in SUBSET DOMAIN d /\ DOMAIN d \ IeeeTrain(d) \in SUBSET DOMAIN d
  BY <1>3
<1> QED BY <1>9, <1>10, <1>11, <1>12, <1>13 DEF UnseenBefore, f, g

LEMMA RbaContents ==
  ASSUME NEW d, File(d), NEW e, NEW i \in DOMAIN d, ApartInContent(d, e, i),
         InWindow(e) = InWindow(d),
         InWindow(e) \ RbaTrain(e, InWindow(e)) = InWindow(d) \ RbaTrain(d, InWindow(d)),
         i \notin RbaTrain(d, InWindow(d)), KnownTimes(e, InWindow(e)) = KnownTimes(d, InWindow(d))
  PROVE  UnseenBefore(Rba(e), Rba(d), i)
<1> DEFINE S == InWindow(d)
           train == RbaTrain(d, S)
           f == RbaFeatures(d, S, train)
           g == RbaFeatures(e, S, train)
<1>1. Apart(d, e, i) /\ DOMAIN e = DOMAIN d
  BY DEF ApartInContent, Apart
<1>2. S \in SUBSET DOMAIN d /\ train \in SUBSET S /\ i \notin train
  BY DEF InWindow, RbaTrain, UpTo
<1>3. InWindow(e) = S /\ RbaTrain(e, S) = train /\ KnownTimes(e, S) = KnownTimes(d, S)
  BY RbaTrainSame
<1>4. \A j \in S : j # i => g[j] = f[j]
  <2> HIDE DEF S, train
  <2> SUFFICES ASSUME NEW j \in S, j # i PROVE g[j] = f[j]
    OBVIOUS
  <2>1. e[j] = d[j] /\ j \in DOMAIN d
    BY <1>1, <1>2 DEF Apart
  <2>2. train \in SUBSET DOMAIN d
    BY <1>2
  <2>3. Frequency(e, train, j) = Frequency(d, train, j)
    BY <1>1, <1>2, <2>1, <2>2, FrequencySame
  <2> QED BY <1>3, <2>1, <2>3 DEF RbaFeatures
<1>5. Rba(d) = Scored(Model(d, InOrder(train), f), S \ train, f)
  BY DEF Rba
<1>6. Rba(e) = Scored(Model(e, InOrder(train), g), S \ train, g)
  BY <1>3 DEF Rba
<1> HIDE DEF S, train, f, g
<1>7. train \in SUBSET DOMAIN d /\ Agree(d, e, f, g, train)
  BY <1>2, <1>4 DEF Agree, ApartInContent
<1>8. Model(e, InOrder(train), g) = Model(d, InOrder(train), f)
  BY <1>7, PartModelSame
<1>9. \A j \in S \ train : j < i => g[j] = f[j]
  BY <1>2, <1>4, FileRows
<1> QED BY <1>5, <1>6, <1>8, <1>9 DEF UnseenBefore, Scored

LEMMA RbaFullContents ==
  ASSUME NEW d, File(d), NEW e, NEW i \in DOMAIN d, ApartInContent(d, e, i),
         DOMAIN e \ RbaTrain(e, DOMAIN e) = DOMAIN d \ RbaTrain(d, DOMAIN d),
         i \notin RbaTrain(d, DOMAIN d)
  PROVE  UnseenBefore(RbaFull(e), RbaFull(d), i)
<1> DEFINE train == RbaTrain(d, DOMAIN d)
           thin == Thinned(d, train, Seed)
           F(b) == [j \in DOMAIN d |-> <<b[j].t, b[j].val, Frequency(b, ToSet(thin), j)>>]
<1>1. Apart(d, e, i) /\ DOMAIN e = DOMAIN d
  BY DEF ApartInContent, Apart
<1>2. train \in SUBSET DOMAIN d /\ i \notin train
  BY DEF RbaTrain, UpTo
<1>3. RbaTrain(e, DOMAIN e) = train
  BY <1>1, RbaTrainSame
<1>4. Seed \in Nat
  BY SplitAssumption
<1>5. Thinned(e, train, Seed) = thin
  <2>1. \A j \in train : e[j].y = d[j].y
    BY <1>2 DEF ApartInContent
  <2> HIDE DEF train
  <2> QED BY <2>1, ThinnedSame
<1>6. ToSet(thin) \in SUBSET train
  <2> HIDE DEF train
  <2>1. \A n \in DOMAIN thin : thin[n] \in train
    BY <1>2, <1>4, ThinnedPart
  <2> HIDE DEF thin
  <2> QED BY <2>1 DEF ToSet
<1>7. RbaFull(d) = Scored(Model(d, thin, F(d)), DOMAIN d \ train, F(d))
  BY DEF RbaFull
<1>8. RbaFull(e) = Scored(Model(e, thin, F(e)), DOMAIN d \ train, F(e))
  <2>1. RbaFull(e) = Scored(Model(e, Thinned(e, train, Seed), [j \in DOMAIN e |->
                       <<e[j].t, e[j].val, Frequency(e, ToSet(Thinned(e, train, Seed)), j)>>]),
                            DOMAIN e \ train,
                            [j \in DOMAIN e |->
                       <<e[j].t, e[j].val, Frequency(e, ToSet(Thinned(e, train, Seed)), j)>>])
    BY <1>3 DEF RbaFull
  <2> HIDE DEF train, thin
  <2> QED BY <1>1, <1>5, <2>1
<1>9. \A j \in DOMAIN d : j # i => F(e)[j] = F(d)[j]
  <2> HIDE DEF train, thin
  <2> SUFFICES ASSUME NEW j \in DOMAIN d, j # i PROVE F(e)[j] = F(d)[j]
    OBVIOUS
  <2>1. e[j] = d[j]
    BY <1>1 DEF Apart
  <2>2. ToSet(thin) \in SUBSET DOMAIN d /\ i \notin ToSet(thin)
    BY <1>2, <1>6
  <2>3. Frequency(e, ToSet(thin), j) = Frequency(d, ToSet(thin), j)
    BY <1>1, <2>1, <2>2, FrequencySame
  <2> QED BY <2>1, <2>3
<1> HIDE DEF F
<1>10. Model(e, thin, F(e)) = Model(d, thin, F(d))
  <2> HIDE DEF train
  <2>1. Agree(d, e, F(d), F(e), train)
    BY <1>2, <1>9 DEF Agree, ApartInContent
  <2>2. Model(e, Thinned(e, train, Seed), F(e)) = Model(d, Thinned(d, train, Seed), F(d))
    BY <1>2, <1>4, <2>1, ThinModelSame
  <2> QED BY <1>5, <2>2
<1>11. \A j \in DOMAIN d \ train : j < i => F(e)[j] = F(d)[j]
  BY <1>9, FileRows
<1> HIDE DEF train, thin
<1> QED BY <1>7, <1>8, <1>10, <1>11 DEF UnseenBefore, Scored

(* As long as every row is still of the same subject. *)
LEMMA CmuContents ==
  ASSUME NEW d, File(d), NEW e, NEW i \in DOMAIN d, ApartInContent(d, e, i), Who(e) = Who(d),
         \A u \in Subjects(d) : i \notin Enrolled(d, u)
  PROVE  UnseenBefore(Cmu(e), Cmu(d), i)
<1>1. DOMAIN e = DOMAIN d /\ \A j \in DOMAIN d : j # i => e[j] = d[j]
  BY DEF ApartInContent, Apart
<1>2. \A j \in DOMAIN d : e[j].who = d[j].who
  <2>1. \A j \in DOMAIN d : Who(e)[j] = e[j].who /\ Who(d)[j] = d[j].who
    BY <1>1 DEF Who
  <2> QED BY <2>1
<1>3. Subjects(e) = Subjects(d)
  BY <1>1, <1>2 DEF Subjects
<1>4. \A u : RepsOf(e, u) = RepsOf(d, u)
  <2>1. \A u : {j \in DOMAIN e : e[j].who = u} = {j \in DOMAIN d : d[j].who = u}
    BY <1>1, <1>2
  <2> QED BY <2>1 DEF RepsOf
<1>5. \A u : Enrolled(e, u) = Enrolled(d, u) /\ \A j \in Enrolled(d, u) : j \in DOMAIN d
  <2>1. \A u : {j \in DOMAIN d : d[j].who = u} \in SUBSET DOMAIN d
    OBVIOUS
  <2>2. \A u : \A n \in DOMAIN RepsOf(d, u) : RepsOf(d, u)[n] \in DOMAIN d
    BY <2>1, OrderOfPart DEF RepsOf
  <2> QED BY <1>4, <2>2 DEF Enrolled, FirstOf
<1>6. \A u : Tried(e, u) = Tried(d, u)
  BY <1>3, <1>4, <1>5 DEF Tried
<1>7. \A j \in DOMAIN d : j # i => Stroke(e[j]) = Stroke(d[j])
  BY <1>1
<1>8. \A u \in Subjects(d) :
        {<<j, Stroke(e[j])>> : j \in Enrolled(e, u)} = {<<j, Stroke(d[j])>> : j \in Enrolled(d, u)}
  BY <1>5, <1>7
<1>9. Cmu(e).learnt = Cmu(d).learnt
  <2>1. [u \in Subjects(e) |-> {<<j, Stroke(e[j])>> : j \in Enrolled(e, u)}]
          = [u \in Subjects(d) |-> {<<j, Stroke(d[j])>> : j \in Enrolled(d, u)}]
    BY <1>3, <1>8
  <2> QED BY <2>1 DEF Cmu, Scored
<1>10. \A j \in DOMAIN d : {u \in Subjects(e) : j \in Tried(e, u)} = {u \in Subjects(d) : j \in Tried(d, u)}
  BY <1>3, <1>6
<1>11. /\ \A j \in DOMAIN d : Cmu(d).seen[j] = <<Stroke(d[j]), {u \in Subjects(d) : j \in Tried(d, u)}>>
       /\ \A j \in DOMAIN e : Cmu(e).seen[j] = <<Stroke(e[j]), {u \in Subjects(e) : j \in Tried(e, u)}>>
       /\ DOMAIN Cmu(e).seen = DOMAIN d
  BY <1>1 DEF Cmu, Scored
<1>12. \A j \in DOMAIN d : j < i => j # i
  BY FileRows
<1> QED BY <1>1, <1>7, <1>9, <1>10, <1>11, <1>12 DEF UnseenBefore

LEMMA ContentsUnseen ==
  ASSUME NEW d, File(d), NEW by \in Scripts, by \notin CertScripts, NEW i \in Test(by, d), NEW c,
         SameSplit(by, d, Changed(d, i, c)), SameWhole(by, d, Changed(d, i, c))
  PROVE  UnseenBefore(Outcome(by, Changed(d, i, c)), Outcome(by, d), i)
<1> DEFINE e == Changed(d, i, c)
<1> USE DEF PaysimScripts, IeeeScripts, RbaScripts, CmuScripts, CertScripts
<1>1. i \in DOMAIN d
  BY DEF Test, InWindow, Scripts
<1>2. ApartInContent(d, e, i)
  BY <1>1, ChangedApart
<1> HIDE DEF e
<1>3. CASE by \in PaysimScripts
  <2>1. i \notin StepUpTo(d, Cut)
    BY <1>3 DEF Test
  <2>2. UnseenBefore(Paysim(e), Paysim(d), i) /\ UnseenBefore(SweepPaysim(e), SweepPaysim(d), i)
    BY <1>1, <1>2, <2>1, PaysimContents
  <2>3. UnseenBefore(Outcome(by, e), Outcome(by, d), i)
    BY <1>3, <2>2 DEF Outcome, LeakPaysim
  <2> QED BY <2>3 DEF e
<1>4. CASE by = "phaseb"
  <2>1. i \notin StepUpTo(d, InnerCut)
    BY <1>4 DEF Test
  <2>2. UnseenBefore(PaysimInner(e), PaysimInner(d), i)
    BY <1>1, <1>2, <2>1, PaysimContents
  <2>3. UnseenBefore(Outcome(by, e), Outcome(by, d), i)
    BY <1>4, <2>2 DEF Outcome
  <2> QED BY <2>3 DEF e
<1>5. CASE by \in IeeeScripts
  <2>1. i \notin IeeeTrain(d)
    BY <1>5 DEF Test
  <2>2. TopDevice(e) = TopDevice(d)
    BY <1>5 DEF SameWhole, e
  <2>3. /\ UnseenBefore(Ieee(e), Ieee(d), i) /\ UnseenBefore(SweepIeee(e), SweepIeee(d), i)
        /\ UnseenBefore(Bakeoff(e), Bakeoff(d), i) /\ UnseenBefore(Tuned(e), Tuned(d), i)
        /\ UnseenBefore(LeakIeee(e), LeakIeee(d), i)
    BY <1>1, <1>2, <2>1, <2>2, IeeeContents
  <2>4. UnseenBefore(Outcome(by, e), Outcome(by, d), i)
    BY <1>5, <2>3 DEF Outcome
  <2> QED BY <2>4 DEF e
<1>6. CASE by \in RbaScripts
  <2>1. InWindow(e) = InWindow(d) /\ Test(by, e) = Test(by, d)
    BY <1>6 DEF SameSplit, e
  <2>2. \A b : Test(by, b) = InWindow(b) \ RbaTrain(b, InWindow(b))
    BY <1>6 DEF Test
  <2>3. KnownTimes(e, InWindow(e)) = KnownTimes(d, InWindow(d))
    BY <1>6 DEF SameWhole, e
  <2>4. UnseenBefore(Rba(e), Rba(d), i)
    BY <1>1, <1>2, <2>1, <2>2, <2>3, RbaContents
  <2>5. CASE by \in {"rba", "leak_rba"}
    <3>1. UnseenBefore(Outcome(by, e), Outcome(by, d), i)
      BY <2>4, <2>5 DEF Outcome, LeakRba
    <3> QED BY <3>1 DEF e
  <2>6. CASE by = "sweep_rba"
    <3>1. \A b : Outcome(by, b) = [Rba(b) EXCEPT !.learnt = [seed \in Seeds |-> Rba(b).learnt]]
      BY <2>6 DEF Outcome, SweepRba
    <3>2. \A b : Outcome(by, b).learnt = [seed \in Seeds |-> Rba(b).learnt]
                 /\ Outcome(by, b).seen = Rba(b).seen
      <4>1. \A b : \E learnt, seen : Rba(b) = [learnt |-> learnt, seen |-> seen]
        BY DEF Rba, Scored
      <4> QED BY <3>1, <4>1
    <3>3. UnseenBefore(Outcome(by, e), Outcome(by, d), i)
      BY <2>4, <3>2 DEF UnseenBefore
    <3> QED BY <3>3 DEF e
  <2> QED BY <1>6, <2>5, <2>6
<1>7. CASE by = "rba_full"
  <2>1. Test(by, e) = Test(by, d)
    BY <1>7 DEF SameSplit, e
  <2>2. \A b : Test(by, b) = DOMAIN b \ RbaTrain(b, DOMAIN b)
    BY <1>7 DEF Test
  <2>3. UnseenBefore(RbaFull(e), RbaFull(d), i)
    BY <1>1, <1>2, <2>1, <2>2, RbaFullContents
  <2>4. UnseenBefore(Outcome(by, e), Outcome(by, d), i)
    BY <1>7, <2>3 DEF Outcome
  <2> QED BY <2>4 DEF e
<1>8. CASE by \in CmuScripts
  <2>1. Who(e) = Who(d)
    BY <1>8 DEF SameSplit, e
  <2>2. \A u \in Subjects(d) : i \notin Enrolled(d, u)
    BY <1>8 DEF Test
  <2>3. UnseenBefore(Cmu(e), Cmu(d), i)
    BY <1>1, <1>2, <2>1, <2>2, CmuContents
  <2>4. UnseenBefore(Outcome(by, e), Outcome(by, d), i)
    BY <1>8, <2>3 DEF Outcome, Mahalanobis
  <2> QED BY <2>4 DEF e
<1> QED BY <1>3, <1>4, <1>5, <1>6, <1>7, <1>8 DEF Scripts

LEMMA FittedBlind == FittedOnRows => NoLookAhead
<1> SUFFICES ASSUME FittedOnRows,
                    NEW i \in IF fitted.by \in {Unset} \cup CertScripts THEN {} ELSE Test(fitted.by, rows),
                    NEW c \in Contents,
                    SameSplit(fitted.by, rows, Changed(rows, i, c)),
                    SameWhole(fitted.by, rows, Changed(rows, i, c))
             PROVE  UnseenBefore(Outcome(fitted.by, Changed(rows, i, c)), fitted.scores, i)
  BY ZenonT(40) DEF NoLookAhead, UnseenBefore, Changed
<1>1. fitted.by \notin CertScripts /\ fitted.by # Unset /\ i \in Test(fitted.by, rows)
  OBVIOUS
<1>2. fitted.by \in Scripts /\ fitted.scores = Outcome(fitted.by, rows) /\ File(rows)
  BY <1>1, FittedBy DEF FittedOnRows
<1>3. UnseenBefore(Outcome(fitted.by, Changed(rows, i, c)), Outcome(fitted.by, rows), i)
  BY <1>1, <1>2, ContentsUnseen
<1> QED BY <1>2, <1>3

(* train.py:12, for everything else: whatever the rows, the content of a   *)
(* row held back changes neither what is learnt nor what is seen before it.*)
THEOREM ContentsHeldBack == TrainSpec => []NoLookAhead
BY InitFitted, StepFitted, FittedBlind, PTL DEF TrainSpec

(***************************************************************************)
(* The evaluation.  A table's rows are scored; those of a test set are     *)
(* also ranked.                                                            *)
(***************************************************************************)
Graded(t) ==
  /\ IsFiniteSet(DOMAIN t)
  /\ \A i \in DOMAIN t : /\ t[i].s \in Nat /\ t[i].s <= Top
                         /\ t[i].y \in {0, 1} /\ t[i].loss \in Nat

LEMMA CountsAre ==
  ASSUME NEW t, Graded(t), NEW thr \in Nat
  PROVE  /\ Positives(t) \in Nat /\ Negatives(t) \in Nat
         /\ Caught(t, thr) \in Nat /\ Caught(t, thr) <= Positives(t)
         /\ Alarms(t, thr) \in Nat /\ Alarms(t, thr) <= Negatives(t)
<1> DEFINE C == {i \in DOMAIN t : t[i].y = 1 /\ t[i].s >= thr}
           A == {i \in DOMAIN t : t[i].y = 0 /\ t[i].s >= thr}
           P == {i \in DOMAIN t : t[i].y = 1}
           N == {i \in DOMAIN t : t[i].y = 0}
<1>1. IsFiniteSet(DOMAIN t)
  BY DEF Graded
<1>2. P \in SUBSET DOMAIN t /\ N \in SUBSET DOMAIN t /\ C \in SUBSET P /\ A \in SUBSET N
  OBVIOUS
<1>3. IsFiniteSet(P) /\ IsFiniteSet(N)
  BY <1>1, <1>2, FS_Subset
<1>4. /\ IsFiniteSet(C) /\ Cardinality(C) <= Cardinality(P)
      /\ IsFiniteSet(A) /\ Cardinality(A) <= Cardinality(N)
  BY <1>2, <1>3, FS_Subset
<1> QED BY <1>3, <1>4, FS_CardinalityType DEF Positives, Negatives, Caught, Alarms

(* A lower threshold flags all that a higher one does. *)
LEMMA CountsFall ==
  ASSUME NEW t, Graded(t), NEW low \in Nat, NEW high \in Nat, low <= high
  PROVE  Caught(t, high) <= Caught(t, low) /\ Alarms(t, high) <= Alarms(t, low)
<1> DEFINE C(thr) == {i \in DOMAIN t : t[i].y = 1 /\ t[i].s >= thr}
           A(thr) == {i \in DOMAIN t : t[i].y = 0 /\ t[i].s >= thr}
<1>1. C(low) \in SUBSET DOMAIN t /\ A(low) \in SUBSET DOMAIN t
  OBVIOUS
<1>2. IsFiniteSet(C(low)) /\ IsFiniteSet(A(low))
  BY <1>1, FS_Subset DEF Graded
<1>3. C(high) \in SUBSET C(low) /\ A(high) \in SUBSET A(low)
  BY DEF Graded
<1> QED BY <1>2, <1>3, FS_Subset DEF Caught, Alarms

LEMMA NoneAbove ==
  ASSUME NEW t, Graded(t)
  PROVE  Above \in Nat /\ Caught(t, Above) = 0 /\ Alarms(t, Above) = 0
<1>1. Top \in Nat
  BY EvalAssumption
<1>2. \A i \in DOMAIN t : ~(t[i].s >= Above)
  BY <1>1 DEF Graded, Above
<1>3. /\ {i \in DOMAIN t : t[i].y = 1 /\ t[i].s >= Above} = {}
      /\ {i \in DOMAIN t : t[i].y = 0 /\ t[i].s >= Above} = {}
  BY <1>2
<1> QED BY <1>1, <1>3, FS_EmptySet DEF Caught, Alarms, Above

LEMMA ScoresAre ==
  ASSUME NEW t, Graded(t)
  PROVE  ScoresOf(t) \in SUBSET Nat /\ IsFiniteSet(ScoresOf(t)) /\ \A s \in ScoresOf(t) : s <= Top
<1>1. Top \in Nat
  BY EvalAssumption
<1>2. ScoresOf(t) \in SUBSET Nat /\ \A s \in ScoresOf(t) : s <= Top
  BY DEF Graded, ScoresOf
<1> QED BY <1>1, <1>2, FS_BoundedSetOfNaturals

LEMMA PointsAre ==
  ASSUME NEW t, Graded(t)
  PROVE  /\ Len(Points(t)) \in Nat /\ DOMAIN Points(t) = 1 .. Len(Points(t))
         /\ \A j \in 1 .. Len(Points(t)) :
              Points(t)[j].thr \in ScoresOf(t) /\ Points(t)[j] = Point(t, Points(t)[j].thr)
         /\ \A s \in ScoresOf(t) : \E j \in 1 .. Len(Points(t)) : Points(t)[j] = Point(t, s)
<1> DEFINE S == ScoresOf(t)
           n == Cardinality(S)
           o == InOrder(S)
<1>1. S \in SUBSET Int /\ IsFiniteSet(S)
  BY ScoresAre
<1>2. n \in Nat /\ o \in [1 .. n -> S] /\ \A j \in 1 .. n : Place(S, o[j]) = j
  BY <1>1, InOrderIs
<1>3. \A s \in S : Place(S, s) \in 1 .. n /\ o[Place(S, s)] = s
  <2> SUFFICES ASSUME NEW s \in S PROVE Place(S, s) \in 1 .. n /\ o[Place(S, s)] = s
    OBVIOUS
  <2>1. Place(S, s) \in 1 .. n
    BY <1>1, <1>2, PlaceIs
  <2> DEFINE r == o[Place(S, s)]
  <2>2. r \in S /\ Place(S, r) = Place(S, s)
    BY <1>2, <2>1
  <2>3. ~(r < s) /\ ~(s < r)
    <3>1. r < s => Place(S, r) < Place(S, s)
      BY <1>1, <2>2, PlacesIncrease
    <3>2. s < r => Place(S, s) < Place(S, r)
      BY <1>1, <2>2, PlacesIncrease
    <3> QED BY <2>1, <2>2, <3>1, <3>2
  <2>4. r \in Int /\ s \in Int
    BY <1>1, <2>2
  <2> QED BY <2>1, <2>3, <2>4
<1>4. Points(t) = [j \in 1 .. n |-> Point(t, o[n + 1 - j])]
  BY DEF Points
<1> HIDE DEF n, o, S
<1>5. DOMAIN Points(t) = 1 .. n /\ Len(Points(t)) = n
  BY <1>2, <1>4
<1>6. \A j \in 1 .. n : n + 1 - j \in 1 .. n
  BY <1>2
<1>7. ASSUME NEW j \in 1 .. n
      PROVE  Points(t)[j].thr \in S /\ Points(t)[j] = Point(t, Points(t)[j].thr)
  <2>1. Points(t)[j] = Point(t, o[n + 1 - j]) /\ o[n + 1 - j] \in S
    BY <1>2, <1>4, <1>6
  <2> QED BY <2>1 DEF Point
<1>8. ASSUME NEW s \in S PROVE \E j \in 1 .. n : Points(t)[j] = Point(t, s)
  <2>1. n + 1 - Place(S, s) \in 1 .. n /\ n + 1 - (n + 1 - Place(S, s)) = Place(S, s)
    BY <1>2, <1>3
  <2> QED BY <1>3, <1>4, <2>1
<1> QED BY <1>2, <1>5, <1>7, <1>8 DEF S

(* A point of the curve is what its threshold flags. *)
LEMMA CurveIs ==
  ASSUME NEW t, Graded(t)
  PROVE  /\ Point(t, Above) \in RocCurve(t)
         /\ \A pt \in RocCurve(t) :
              /\ pt.thr \in Nat /\ pt.thr <= Above
              /\ pt = Point(t, pt.thr)
              /\ pt.tp = Caught(t, pt.thr) /\ pt.fp = Alarms(t, pt.thr)
<1>1. Above \in Nat /\ Caught(t, Above) = 0 /\ Alarms(t, Above) = 0 /\ Top <= Above
  BY NoneAbove, EvalAssumption DEF Above
<1>2. Point(t, Above) = [thr |-> Above, fp |-> 0, tp |-> 0]
  BY <1>1 DEF Point
<1>3. Point(t, Above) \in RocCurve(t)
  BY <1>2 DEF RocCurve
<1>4. ASSUME NEW pt \in RocCurve(t)
      PROVE  pt.thr \in Nat /\ pt.thr <= Above /\ pt = Point(t, pt.thr)
  <2>1. CASE pt = Point(t, Above)
    BY <1>1, <2>1 DEF Point
  <2>2. CASE pt # Point(t, Above)
    <3>1. PICK j \in DOMAIN Points(t) : pt = Points(t)[j]
      BY <1>2, <2>2 DEF RocCurve
    <3>2. pt.thr \in ScoresOf(t) /\ pt = Point(t, pt.thr)
      BY <3>1, PointsAre
    <3>3. pt.thr \in Nat /\ pt.thr <= Top
      BY <3>2, ScoresAre
    <3> QED BY <1>1, <3>2, <3>3, EvalAssumption
  <2> QED BY <2>1, <2>2
<1> QED BY <1>3, <1>4 DEF Point

LEMMA LowestIs ==
  ASSUME NEW Q, Q # {}, \A pt \in Q : pt.thr \in Nat
  PROVE  LowestOf(Q) \in Q /\ \A q \in Q : LowestOf(Q).thr <= q.thr
<1> DEFINE thrs == {pt.thr : pt \in Q}
<1>1. thrs \in SUBSET Nat /\ thrs # {}
  OBVIOUS
<1>2. PICK m \in thrs : \A x \in thrs : m <= x
  BY <1>1, LeastOf
<1>3. \E pt \in Q : \A q \in Q : pt.thr <= q.thr
  BY <1>2
<1> QED BY <1>3 DEF LowestOf

(* Every operating point is within its budget, and no threshold within the *)
(* budget catches more unless the curve has no point for it.               *)
LEMMA OperatingPointIs ==
  ASSUME NEW t, Graded(t), NEW target \in Targets
  PROVE  LET o == OpAtFpr(t, target)
         IN  /\ o.tp = Caught(t, o.thr) /\ o.fp = Alarms(t, o.thr)
             /\ o.fp * target[2] <= target[1] * Negatives(t)
             /\ \A thr \in ScoresOf(t) : Alarms(t, thr) * target[2] <= target[1] * Negatives(t) =>
                  \/ Caught(t, thr) <= o.tp
                  \/ thr < o.thr /\ \A pt \in RocCurve(t) : pt.thr # thr
<1> DEFINE Q == {pt \in RocCurve(t) : pt.fp * target[2] <= target[1] * Negatives(t)}
           o == LowestOf(Q)
<1>1. target[1] \in Nat /\ target[2] \in Nat
  BY EvalAssumption
<1>2. Above \in Nat /\ Alarms(t, Above) = 0
  BY NoneAbove
<1>3. Negatives(t) \in Nat
  BY <1>2, CountsAre
<1>4. target[1] * Negatives(t) \in Nat
  BY <1>1, <1>3
<1>5. Point(t, Above) \in Q
  <2>1. Point(t, Above).fp = 0
    BY <1>2 DEF Point
  <2>2. 0 * target[2] <= target[1] * Negatives(t)
    BY <1>1, <1>4
  <2> QED BY <2>1, <2>2, CurveIs
<1>6. \A pt \in Q : pt.thr \in Nat /\ pt.tp = Caught(t, pt.thr) /\ pt.fp = Alarms(t, pt.thr)
  BY CurveIs
<1> HIDE DEF Q
<1>7. o \in Q /\ \A q \in Q : o.thr <= q.thr
  BY <1>5, <1>6, LowestIs
<1>8. ASSUME NEW thr \in ScoresOf(t), Alarms(t, thr) * target[2] <= target[1] * Negatives(t)
      PROVE  \/ Caught(t, thr) <= o.tp
             \/ thr < o.thr /\ \A pt \in RocCurve(t) : pt.thr # thr
  <2>1. thr \in Nat /\ o.thr \in Nat
    BY <1>6, <1>7, ScoresAre
  <2>2. CASE o.thr <= thr
    <3>1. Caught(t, thr) <= Caught(t, o.thr)
      BY <2>1, <2>2, CountsFall
    <3> QED BY <1>6, <1>7, <3>1
  <2>3. CASE thr < o.thr
    <3>1. ASSUME NEW pt \in RocCurve(t), pt.thr = thr PROVE FALSE
      <4>1. pt.fp = Alarms(t, thr)
        BY <3>1, CurveIs
      <4>2. pt \in Q
        BY <1>8, <4>1 DEF Q
      <4> QED BY <1>7, <2>1, <2>3, <3>1, <4>2
    <3> QED BY <2>3, <3>1
  <2> QED BY <2>1, <2>2, <2>3
<1>9. o.fp * target[2] <= target[1] * Negatives(t)
  BY <1>7 DEF Q
<1>10. OpAtFpr(t, target) = o
  BY DEF OpAtFpr, Q
<1> QED BY <1>6, <1>7, <1>8, <1>9, <1>10

(* A set of integers under a bound has a largest one. *)
LEMMA LargestOf ==
  ASSUME NEW S \in SUBSET Int, S # {}, NEW b \in Int, \A x \in S : x <= b
  PROVE  Max(S) \in S /\ \A x \in S : x <= Max(S)
<1> DEFINE gaps == {b - x : x \in S}
<1>1. gaps \in SUBSET Nat /\ gaps # {}
  <2>1. \A x \in S : b - x \in Nat
    OBVIOUS
  <2> QED BY <2>1
<1>2. PICK g \in gaps : \A h \in gaps : g <= h
  BY <1>1, LeastOf
<1>3. PICK m \in S : g = b - m
  BY <1>2
<1>4. \A x \in S : x <= m
  <2> SUFFICES ASSUME NEW x \in S PROVE x <= m
    OBVIOUS
  <2>1. b - m <= b - x /\ x \in Int /\ m \in Int
    BY <1>2, <1>3
  <2> QED BY <2>1
<1>5. \E y \in S : \A x \in S : y >= x
  BY <1>4
<1> QED BY <1>5 DEF Max

LEMMA SeparationIs ==
  ASSUME NEW t, Graded(t), NEW thr \in Nat
  PROVE  /\ Separation(t, Point(t, thr)) \in Int
         /\ Separation(t, Point(t, thr)) <= Positives(t) * Negatives(t)
         /\ Separation(t, Point(t, thr)) = Caught(t, thr) * Negatives(t) - Alarms(t, thr) * Positives(t)
<1> DEFINE P == Positives(t)
           N == Negatives(t)
           c == Caught(t, thr)
           a == Alarms(t, thr)
<1>1. P \in Nat /\ N \in Nat /\ c \in Nat /\ c <= P /\ a \in Nat
  BY CountsAre
<1>2. Separation(t, Point(t, thr)) = c * N - a * P
  BY DEF Separation, Point
<1> HIDE DEF P, N, c, a
<1>3. c * N <= P * N /\ a * P \in Nat /\ c * N \in Nat /\ P * N \in Nat
  <2>1. (P - c) * N \in Nat /\ P * N = c * N + (P - c) * N
    BY <1>1
  <2> QED BY <1>1, <2>1
<1> QED BY <1>2, <1>3 DEF P, N, c, a

(* The points dropped separate no better than the best of those kept: the  *)
(* first of the best cannot lie evenly between its neighbours.             *)
LEMMA SeparationBound ==
  ASSUME NEW t, Graded(t), NEW thr \in ScoresOf(t)
  PROVE  Caught(t, thr) * Negatives(t) - Alarms(t, thr) * Positives(t) <= KS(t)[1]
<1> DEFINE all == Points(t)
           n == Len(all)
           sep == [j \in 1 .. n |-> Separation(t, all[j])]
           seps == {Separation(t, pt) : pt \in RocCurve(t)}
           b == Positives(t) * Negatives(t)
<1>1. /\ n \in Nat /\ DOMAIN all = 1 .. n
      /\ \A j \in 1 .. n : all[j].thr \in ScoresOf(t) /\ all[j] = Point(t, all[j].thr)
      /\ \A s \in ScoresOf(t) : \E j \in 1 .. n : all[j] = Point(t, s)
  BY PointsAre
<1>2. ScoresOf(t) \in SUBSET Nat
  BY ScoresAre
<1>3. Above \in Nat
  BY NoneAbove
<1>4. b \in Int
  BY <1>3, CountsAre
<1>5. seps \in SUBSET Int /\ seps # {} /\ \A x \in seps : x <= b
  <2>1. \A pt \in RocCurve(t) : Separation(t, pt) \in Int /\ Separation(t, pt) <= b
    BY CurveIs, SeparationIs
  <2>2. RocCurve(t) # {}
    BY CurveIs
  <2> QED BY <2>1, <2>2
<1>6. Max(seps) \in Int /\ \A x \in seps : x <= Max(seps)
  <2> HIDE DEF seps
  <2> QED BY <1>4, <1>5, LargestOf
<1>7. \A j \in 1 .. n : sep[j] \in Int /\ sep[j] <= b
  BY <1>1, <1>2, SeparationIs
<1> HIDE DEF all, n, seps, b
<1>8. PICK k \in 1 .. n : all[k] = Point(t, thr)
  BY <1>1
<1> DEFINE values == {sep[j] : j \in 1 .. n}
<1>9. Max(values) \in values /\ \A x \in values : x <= Max(values)
  <2>1. values \in SUBSET Int /\ values # {} /\ \A x \in values : x <= b
    BY <1>7, <1>8
  <2> HIDE DEF values
  <2> QED BY <1>4, <2>1, LargestOf
<1> DEFINE best == {j \in 1 .. n : sep[j] = Max(values)}
           j == Min(best)
<1>10. j \in best /\ \A i \in best : j <= i
  <2>1. best \in SUBSET (1 .. n) /\ \A i \in 1 .. n : i \in Nat
    BY <1>1
  <2>2. PICK i \in 1 .. n : Max(values) = sep[i]
    BY <1>9
  <2>3. best \in SUBSET Nat /\ best # {}
    BY <2>1, <2>2
  <2> HIDE DEF best
  <2> QED BY <2>3, LeastOf
<1>11. j \in 1 .. n /\ \A i \in 1 .. n : sep[i] <= sep[j] /\ (i < j => sep[i] < sep[j])
  <2>1. j \in 1 .. n /\ sep[j] = Max(values)
    BY <1>10
  <2>2. ASSUME NEW i \in 1 .. n PROVE sep[i] <= sep[j] /\ (i < j => sep[i] < sep[j])
    <3>1. sep[i] <= sep[j]
      BY <1>9, <2>1
    <3>2. i < j => i \notin best
      <4>1. i \in best => j <= i
        BY <1>10
      <4>2. i \in Int /\ j \in Int
        BY <1>1, <2>1
      <4> HIDE DEF best, j
      <4> QED BY <4>1, <4>2
    <3>3. i < j => sep[i] # sep[j]
      BY <2>1, <3>2
    <3>4. sep[i] \in Int /\ sep[j] \in Int
      BY <1>7, <2>1
    <3> QED BY <3>1, <3>3, <3>4
  <2> QED BY <2>1, <2>2
<1> HIDE DEF j, values, best
<1>12. Kept(all, j)
  <2> SUFFICES ASSUME j # 1, j # n, EvenlySpaced(all[j - 1], all[j], all[j + 1]) PROVE FALSE
    BY DEF Kept, n
  <2>1. j - 1 \in 1 .. n /\ j + 1 \in 1 .. n /\ j - 1 < j
    BY <1>1, <1>11
  <2>2. sep[j - 1] < sep[j] /\ sep[j + 1] <= sep[j]
    BY <1>11, <2>1
  <2>3. \A i \in 1 .. n : all[i].tp \in Nat /\ all[i].fp \in Nat
    <3> SUFFICES ASSUME NEW i \in 1 .. n PROVE all[i].tp \in Nat /\ all[i].fp \in Nat
      OBVIOUS
    <3>1. all[i].thr \in Nat /\ all[i] = Point(t, all[i].thr)
      BY <1>1, <1>2
    <3>2. Caught(t, all[i].thr) \in Nat /\ Alarms(t, all[i].thr) \in Nat
      BY <3>1, CountsAre
    <3> QED BY <3>1, <3>2 DEF Point
  <2>4. Positives(t) \in Nat /\ Negatives(t) \in Nat
    BY <1>3, CountsAre
  <2> DEFINE p == all[j - 1]
             q == all[j]
             r == all[j + 1]
             N == Negatives(t)
             P == Positives(t)
  <2>5. q.fp - p.fp = r.fp - q.fp /\ q.tp - p.tp = r.tp - q.tp
    BY DEF EvenlySpaced
  <2>6. /\ sep[j - 1] = p.tp * N - p.fp * P /\ sep[j] = q.tp * N - q.fp * P
        /\ sep[j + 1] = r.tp * N - r.fp * P
    BY <1>11, <2>1 DEF Separation
  <2>7. /\ p.tp \in Nat /\ p.fp \in Nat /\ q.tp \in Nat /\ q.fp \in Nat /\ r.tp \in Nat /\ r.fp \in Nat
        /\ N \in Nat /\ P \in Nat
    BY <1>11, <2>1, <2>3, <2>4
  <2> HIDE DEF p, q, r, N, P, sep
  <2>8. r.tp = 2 * q.tp - p.tp /\ r.fp = 2 * q.fp - p.fp
    <3>1. \A x, y, z \in Nat : y - x = z - y => z = 2 * y - x
      OBVIOUS
    <3>2. q.fp - p.fp = r.fp - q.fp /\ q.tp - p.tp = r.tp - q.tp
      BY <2>5 DEF p, q, r
    <3> QED BY <2>7, <3>1, <3>2
  <2>9. r.tp * N = 2 * (q.tp * N) - p.tp * N /\ r.fp * P = 2 * (q.fp * P) - p.fp * P
    BY <2>7, <2>8
  <2>10. /\ p.tp * N \in Int /\ q.tp * N \in Int /\ r.tp * N \in Int
         /\ p.fp * P \in Int /\ q.fp * P \in Int /\ r.fp * P \in Int
    BY <2>7
  <2> QED BY <2>2, <2>6, <2>9, <2>10
<1>13. all[j] \in RocCurve(t)
  BY <1>1, <1>11, <1>12 DEF RocCurve, all
<1>14. sep[k] <= sep[j] /\ sep[j] <= Max(seps)
  BY <1>6, <1>8, <1>11, <1>13 DEF seps
<1>15. sep[k] = Caught(t, thr) * Negatives(t) - Alarms(t, thr) * Positives(t)
  BY <1>2, <1>8, SeparationIs
<1>16. sep[k] \in Int /\ sep[j] \in Int
  BY <1>7, <1>8, <1>11
<1>17. KS(t)[1] = Max(seps)
  BY DEF KS, seps
<1> QED BY <1>6, <1>14, <1>15, <1>16, <1>17

LEMMA OffIs ==
  ASSUME NEW t, Graded(t), NEW thr \in Nat
  PROVE  /\ Off(t, Point(t, thr)) \in Nat
         /\ Caught(t, thr) <= Positives(t)
         /\ Off(t, Point(t, thr)) = Gap(Alarms(t, thr) * Positives(t), (Positives(t) - Caught(t, thr)) * Negatives(t))
<1> DEFINE x == Alarms(t, thr) * Positives(t)
           m == Positives(t) - Caught(t, thr)
           y == m * Negatives(t)
<1>1. /\ Positives(t) \in Nat /\ Negatives(t) \in Nat /\ Caught(t, thr) \in Nat
      /\ Caught(t, thr) <= Positives(t) /\ Alarms(t, thr) \in Nat
  BY CountsAre
<1>2. x \in Nat /\ m \in Nat
  BY <1>1
<1>3. y \in Nat
  BY <1>1, <1>2
<1>4. Off(t, Point(t, thr)) = Gap(x, y)
  BY DEF Off, Point
<1> HIDE DEF x, y
<1>5. Gap(x, y) \in Nat
  BY <1>2, <1>3 DEF Gap
<1> QED BY <1>1, <1>4, <1>5 DEF x, y

(* There is a first of the closest. *)
LEMMA EqualErrorIs ==
  ASSUME NEW t, Graded(t)
  PROVE  /\ EqualError(t) \in RocCurve(t)
         /\ \A q \in RocCurve(t) : Off(t, EqualError(t)) <= Off(t, q)
<1> DEFINE R == RocCurve(t)
           offs == {Off(t, pt) : pt \in R}
           least == Min(offs)
           high == {Above - pt.thr : pt \in {q \in R : Off(t, q) = least}}
<1>1. R # {} /\ \A pt \in R : pt.thr \in Nat /\ pt.thr <= Above /\ Off(t, pt) \in Nat
  BY CurveIs, OffIs
<1>2. Above \in Nat
  BY NoneAbove
<1> HIDE DEF R
<1>3. least \in offs /\ \A x \in offs : least <= x
  <2>1. offs \in SUBSET Nat /\ offs # {}
    BY <1>1
  <2> HIDE DEF offs
  <2> QED BY <2>1, LeastOf
<1>4. least \in Nat /\ \A q \in R : least <= Off(t, q)
  BY <1>1, <1>3
<1> HIDE DEF least
<1>5. high \in SUBSET Nat
  <2>1. \A pt \in R : Above - pt.thr \in Nat
    BY <1>1, <1>2
  <2> QED BY <2>1
<1>6. PICK pt \in R : Off(t, pt) = least
  BY <1>3
<1>7. high # {}
  BY <1>6
<1>8. PICK g \in high : \A h \in high : g <= h
  <2> HIDE DEF high
  <2> QED BY <1>5, <1>7, LeastOf
<1>9. PICK e \in R : Off(t, e) = least /\ g = Above - e.thr
  BY <1>8
<1>10. \A q \in R : Off(t, e) < Off(t, q) \/ (Off(t, e) = Off(t, q) /\ e.thr >= q.thr)
  <2> SUFFICES ASSUME NEW q \in R
               PROVE  Off(t, e) < Off(t, q) \/ (Off(t, e) = Off(t, q) /\ e.thr >= q.thr)
    OBVIOUS
  <2>1. CASE Off(t, q) = least
    <3>1. Above - q.thr \in high
      BY <2>1
    <3>2. Above - e.thr <= Above - q.thr
      BY <1>8, <1>9, <3>1
    <3>3. e.thr >= q.thr
      BY <1>1, <1>2, <3>2
    <3> QED BY <1>9, <2>1, <3>3
  <2>2. CASE Off(t, q) # least
    <3>1. least <= Off(t, q) /\ Off(t, q) \in Nat /\ least \in Nat
      BY <1>1, <1>4
    <3> QED BY <1>9, <2>2, <3>1
  <2> QED BY <2>1, <2>2
<1> DEFINE eer == EqualError(t)
<1>11. /\ eer \in R
       /\ \A q \in R : Off(t, eer) < Off(t, q) \/ (Off(t, eer) = Off(t, q) /\ eer.thr >= q.thr)
  BY <1>10 DEF EqualError, R
<1> HIDE DEF eer
<1>12. \A q \in R : Off(t, eer) <= Off(t, q)
  BY <1>1, <1>11
<1> QED BY <1>11, <1>12 DEF R, eer

LEMMA EqualErrorIsBest ==
  ASSUME NEW t, Graded(t), NEW thr \in ScoresOf(t)
  PROVE  LET e == EqualError(t)
             P == Positives(t)
             N == Negatives(t)
             least == Min({e.fp * P, (P - e.tp) * N})
         IN  /\ Alarms(t, thr) * P >= least \/ (P - Caught(t, thr)) * N >= least
             /\ (\A pt \in RocCurve(t) : pt.thr # thr) \/ Off(t, Point(t, thr)) >= Off(t, e)
<1> DEFINE e == EqualError(t)
           P == Positives(t)
           N == Negatives(t)
           pair == {e.fp * P, (P - e.tp) * N}
<1>1. thr \in Nat
  BY ScoresAre
<1>2. e \in RocCurve(t) /\ \A q \in RocCurve(t) : Off(t, e) <= Off(t, q)
  BY EqualErrorIs
<1>3. e.thr \in Nat /\ e.tp = Caught(t, e.thr) /\ e.fp = Alarms(t, e.thr)
  BY <1>2, CurveIs
<1> HIDE DEF e
<1>4. /\ P \in Nat /\ N \in Nat /\ e.tp \in Nat /\ e.tp <= P /\ e.fp \in Nat
      /\ Alarms(t, thr) \in Nat /\ Caught(t, thr) \in Nat /\ Caught(t, thr) <= P
  BY <1>1, <1>3, CountsAre
<1>5. Min(pair) <= e.fp * P /\ Min(pair) <= (P - e.tp) * N /\ Min(pair) \in Nat
  <2>1. e.fp * P \in Nat /\ (P - e.tp) * N \in Nat
    <3>1. P - e.tp \in Nat
      BY <1>4
    <3> QED BY <1>4, <3>1
  <2>2. pair \in SUBSET Nat /\ pair # {}
    BY <2>1
  <2>3. e.fp * P \in pair /\ (P - e.tp) * N \in pair
    OBVIOUS
  <2> HIDE DEF pair
  <2> QED BY <2>2, <2>3, LeastOf
<1> HIDE DEF pair
<1>6. Alarms(t, thr) * P >= Min(pair) \/ (P - Caught(t, thr)) * N >= Min(pair)
  <2>1. CASE thr <= e.thr
    <3>1. e.fp <= Alarms(t, thr)
      BY <1>1, <1>3, <2>1, CountsFall
    <3>2. e.fp * P <= Alarms(t, thr) * P /\ e.fp * P \in Nat /\ Alarms(t, thr) * P \in Nat
      <4>1. \A x, y, z \in Nat : x <= y => x * z <= y * z /\ x * z \in Nat /\ y * z \in Nat
        <5> SUFFICES ASSUME NEW x \in Nat, NEW y \in Nat, NEW z \in Nat, x <= y
                     PROVE  x * z <= y * z /\ x * z \in Nat /\ y * z \in Nat
          OBVIOUS
        <5>1. (y - x) * z \in Nat /\ y * z = x * z + (y - x) * z
          OBVIOUS
        <5> QED BY <5>1
      <4> QED BY <1>4, <3>1, <4>1
    <3> QED BY <1>5, <3>2
  <2>2. CASE e.thr < thr
    <3>1. Caught(t, thr) <= e.tp
      BY <1>1, <1>3, <2>2, CountsFall
    <3>2. (P - e.tp) * N <= (P - Caught(t, thr)) * N /\ (P - e.tp) * N \in Int /\ (P - Caught(t, thr)) * N \in Int
      <4>1. (e.tp - Caught(t, thr)) * N \in Nat
        <5>1. e.tp - Caught(t, thr) \in Nat
          BY <1>4, <3>1
        <5> QED BY <1>4, <5>1
      <4>2. (P - Caught(t, thr)) * N = (P - e.tp) * N + (e.tp - Caught(t, thr)) * N
        BY <1>4
      <4>3. (P - e.tp) * N \in Int
        BY <1>4
      <4> QED BY <4>1, <4>2, <4>3
    <3> QED BY <1>5, <3>2
  <2> QED BY <1>1, <1>3, <2>1, <2>2
<1>7. (\A pt \in RocCurve(t) : pt.thr # thr) \/ Off(t, Point(t, thr)) >= Off(t, e)
  <2> SUFFICES ASSUME NEW pt \in RocCurve(t), pt.thr = thr
               PROVE  Off(t, Point(t, thr)) >= Off(t, e)
    OBVIOUS
  <2>1. pt = Point(t, thr)
    BY CurveIs
  <2>2. Off(t, e) <= Off(t, pt)
    BY <1>2
  <2>3. Off(t, e) \in Nat /\ Off(t, pt) \in Nat
    BY <1>1, <1>2, <2>1, CurveIs, OffIs
  <2> QED BY <2>1, <2>2, <2>3
<1> QED BY <1>6, <1>7 DEF e, pair

(* What the first rows cost is a natural number, so that one is cheapest. *)
LEMMA CostIs ==
  ASSUME NEW t, Graded(t), NEW w, w[1] \in Nat, w[2] \in Nat, NEW ratio \in Nat, NEW flagged
  PROVE  Cost(t, w, ratio, flagged) \in Int /\ Cost(t, w, ratio, flagged) >= 0
<1> DEFINE f == [i \in DOMAIN t |-> IF i \notin flagged THEN LossOf(t[i], ratio) * w[2]
                                    ELSE IF t[i].y = 0 THEN CostFP * w[1] ELSE 0]
<1>1. \A i \in DOMAIN t : f[i] \in Nat
  <2> SUFFICES ASSUME NEW i \in DOMAIN t PROVE f[i] \in Nat
    OBVIOUS
  <2>1. CostFP \in Nat
    BY EvalAssumption
  <2>2. LossOf(t[i], ratio) \in Nat
    BY <2>1 DEF LossOf, Graded
  <2>3. LossOf(t[i], ratio) * w[2] \in Nat /\ CostFP * w[1] \in Nat
    BY <2>1, <2>2
  <2> QED BY <2>3
<1>2. IsFiniteSet(DOMAIN t) /\ DOMAIN f = DOMAIN t
  BY DEF Graded
<1>3. Cost(t, w, ratio, flagged) = Sum(f, DOMAIN t)
  <2>1. Cost(t, w, ratio, flagged) = SumOver(f)
    BY DEF Cost
  <2>2. SumOver(f) = Sum(f, DOMAIN f)
    <3> HIDE DEF f
    <3> QED BY DEF SumOver, Sum
  <2> QED BY <1>2, <2>1, <2>2
<1> HIDE DEF f
<1>4. DOMAIN t \in SUBSET DOMAIN t
  OBVIOUS
<1>5. Sum(f, DOMAIN t) \in Nat
  BY <1>1, <1>2, <1>4, SumGrows
<1> QED BY <1>3, <1>5

Ranked(t) ==
  /\ Graded(t) /\ Len(t) \in Nat /\ DOMAIN t = 1 .. Len(t)
  /\ \A i, j \in DOMAIN t : i <= j => t[j].s <= t[i].s

LEMMA CheapestIs ==
  ASSUME NEW t, Ranked(t), t # <<>>, NEW w, w[1] \in Nat, w[2] \in Nat, NEW ratio \in Nat
  PROVE  LET k == CheapestPrefix(t, w, ratio)
         IN  /\ k \in DOMAIN t
             /\ \A j \in DOMAIN t : Cost(t, w, ratio, 1 .. k) <= Cost(t, w, ratio, 1 .. j)
<1> DEFINE cost == [j \in DOMAIN t |-> Cost(t, w, ratio, 1 .. j)]
           costs == {cost[j] : j \in DOMAIN t}
           best == {k \in DOMAIN t : \A j \in DOMAIN t : cost[k] <= cost[j]}
<1>1. Len(t) \in Nat /\ DOMAIN t = 1 .. Len(t) /\ DOMAIN t # {}
  <2>1. Len(t) \in Nat /\ DOMAIN t = 1 .. Len(t)
    BY DEF Ranked
  <2>2. CASE Len(t) = 0
    <3>1. DOMAIN t = {}
      BY <2>1, <2>2
    <3> QED BY <3>1 DEF Ranked
  <2>3. CASE Len(t) # 0
    <3>1. 1 \in DOMAIN t
      BY <2>1, <2>3
    <3> QED BY <2>1, <3>1
  <2> QED BY <2>2, <2>3
<1>2. \A j \in DOMAIN t : cost[j] \in Nat
  <2>1. \A j \in DOMAIN t : Cost(t, w, ratio, 1 .. j) \in Int /\ Cost(t, w, ratio, 1 .. j) >= 0
    BY CostIs DEF Ranked
  <2> QED BY <2>1
<1>3. \E k \in DOMAIN t : \A j \in DOMAIN t : cost[k] <= cost[j]
  <2>1. costs \in SUBSET Nat /\ costs # {}
    BY <1>1, <1>2
  <2>2. PICK m \in costs : \A x \in costs : m <= x
    <3> HIDE DEF costs
    <3> QED BY <2>1, LeastOf
  <2> QED BY <2>2
<1>4. best \in SUBSET Nat /\ best # {}
  BY <1>1, <1>3
<1>5. Min(best) \in best
  <2> HIDE DEF best
  <2> QED BY <1>4, LeastOf
<1>6. CheapestPrefix(t, w, ratio) = Min(best)
  <2>1. best = {k \in DOMAIN t : \A j \in DOMAIN t : Cost(t, w, ratio, 1 .. k) <= Cost(t, w, ratio, 1 .. j)}
    OBVIOUS
  <2> HIDE DEF best
  <2> QED BY <2>1 DEF CheapestPrefix
<1> QED BY <1>5, <1>6

(* The rows a threshold flags are the first ones, to the last of its score *)
(* or above.                                                               *)
LEMMA FlaggedFirst ==
  ASSUME NEW t, Ranked(t), NEW thr \in ScoresOf(t)
  PROVE  \E k \in DOMAIN t : {i \in DOMAIN t : t[i].s >= thr} = 1 .. k
<1> DEFINE n == Len(t)
           reach == {i \in DOMAIN t : t[i].s >= thr}
           k == Max(reach)
<1>1. n \in Nat /\ DOMAIN t = 1 .. n /\ \A i \in 1 .. n : t[i].s \in Nat
  BY DEF Ranked, Graded
<1>2. \A i, j \in 1 .. n : i <= j => t[j].s <= t[i].s
  BY DEF Ranked
<1>3. thr \in Nat /\ \E i \in DOMAIN t : t[i].s = thr
  <2>1. \E i \in DOMAIN t : t[i].s = thr
    BY DEF ScoresOf
  <2> QED BY <1>1, <2>1
<1>4. reach \in SUBSET Int /\ reach # {} /\ \A i \in reach : i <= n
  BY <1>1, <1>3
<1>5. k \in reach /\ \A i \in reach : i <= k
  <2>1. n \in Int
    BY <1>1
  <2> HIDE DEF reach, n
  <2> QED BY <1>4, <2>1, LargestOf
<1> HIDE DEF k
<1>6. k \in 1 .. n /\ t[k].s >= thr
  BY <1>1, <1>5
<1>7. \A i \in 1 .. k : i \in reach
  <2> SUFFICES ASSUME NEW i \in 1 .. k PROVE i \in reach
    OBVIOUS
  <2>1. i \in 1 .. n /\ i <= k
    BY <1>1, <1>6
  <2>2. t[k].s <= t[i].s
    BY <1>2, <1>6, <2>1
  <2> QED BY <1>1, <1>3, <1>6, <2>1, <2>2
<1>8. \A i \in reach : i \in 1 .. k
  <2> SUFFICES ASSUME NEW i \in reach PROVE i \in 1 .. k
    OBVIOUS
  <2>1. i \in 1 .. n /\ i <= k
    BY <1>1, <1>5
  <2> QED BY <1>1, <1>6, <2>1
<1> QED BY <1>1, <1>6, <1>7, <1>8

LEMMA MinCostIs ==
  ASSUME NEW t, Ranked(t), t # <<>>, NEW w, w[1] \in Nat, w[2] \in Nat, NEW ratio \in Nat
  PROVE  LET c == MinCost(t, w, ratio)
             CostFrom(thr) == Cost(t, w, ratio, {i \in DOMAIN t : t[i].s >= thr})
         IN  /\ \A thr \in ScoresOf(t) : c.value <= CostFrom(thr)
             /\ ~c.split => /\ c.value = CostFrom(c.thr)
                            /\ c.caught = Caught(t, c.thr) /\ c.alarms = Alarms(t, c.thr)
<1> DEFINE k == CheapestPrefix(t, w, ratio)
           n == Len(t)
<1>1. k \in DOMAIN t /\ \A j \in DOMAIN t : Cost(t, w, ratio, 1 .. k) <= Cost(t, w, ratio, 1 .. j)
  BY CheapestIs
<1>2. MinCost(t, w, ratio) =
        [thr |-> t[k].s, value |-> Cost(t, w, ratio, 1 .. k),
         caught |-> Cardinality({i \in 1 .. k : t[i].y = 1}),
         alarms |-> Cardinality({i \in 1 .. k : t[i].y = 0}),
         split |-> k < Len(t) /\ t[k + 1].s = t[k].s]
  BY DEF MinCost
<1> HIDE DEF k
<1>3. ASSUME NEW thr \in ScoresOf(t)
      PROVE  Cost(t, w, ratio, 1 .. k) <= Cost(t, w, ratio, {i \in DOMAIN t : t[i].s >= thr})
  <2>1. PICK j \in DOMAIN t : {i \in DOMAIN t : t[i].s >= thr} = 1 .. j
    BY FlaggedFirst
  <2>2. Cost(t, w, ratio, 1 .. k) <= Cost(t, w, ratio, 1 .. j)
    BY <1>1
  <2> QED BY <2>1, <2>2
<1>4. ASSUME ~(k < Len(t) /\ t[k + 1].s = t[k].s)
      PROVE  {i \in DOMAIN t : t[i].s >= t[k].s} = 1 .. k
  <2>1. n \in Nat /\ DOMAIN t = 1 .. n /\ k \in 1 .. n /\ \A i \in 1 .. n : t[i].s \in Nat
    BY <1>1 DEF Ranked, Graded
  <2>2. \A i, j \in 1 .. n : i <= j => t[j].s <= t[i].s
    BY DEF Ranked
  <2>3. \A i \in 1 .. k : i \in 1 .. n /\ t[i].s >= t[k].s
    <3> SUFFICES ASSUME NEW i \in 1 .. k PROVE i \in 1 .. n /\ t[i].s >= t[k].s
      OBVIOUS
    <3>1. i \in 1 .. n /\ i <= k
      BY <2>1
    <3>2. t[k].s <= t[i].s
      BY <2>1, <2>2, <3>1
    <3> QED BY <2>1, <3>1, <3>2
  <2>4. ASSUME NEW i \in 1 .. n, t[i].s >= t[k].s, ~(i \in 1 .. k) PROVE FALSE
    <3>1. k < n /\ k + 1 <= i /\ k + 1 \in 1 .. n
      BY <2>1, <2>4
    <3>2. t[i].s <= t[k + 1].s /\ t[k + 1].s <= t[k].s
      <4>1. k <= k + 1
        BY <2>1
      <4> QED BY <2>1, <2>2, <3>1, <4>1
    <3>3. t[k + 1].s # t[k].s
      BY <1>4, <3>1
    <3> QED BY <2>1, <2>4, <3>1, <3>2, <3>3
  <2> QED BY <2>1, <2>3, <2>4
<1>5. ASSUME {i \in DOMAIN t : t[i].s >= t[k].s} = 1 .. k
      PROVE  /\ Cardinality({i \in 1 .. k : t[i].y = 1}) = Caught(t, t[k].s)
             /\ Cardinality({i \in 1 .. k : t[i].y = 0}) = Alarms(t, t[k].s)
  <2>1. \A i : i \in 1 .. k <=> i \in DOMAIN t /\ t[i].s >= t[k].s
    BY <1>5
  <2>2. /\ {i \in 1 .. k : t[i].y = 1} = {i \in DOMAIN t : t[i].y = 1 /\ t[i].s >= t[k].s}
        /\ {i \in 1 .. k : t[i].y = 0} = {i \in DOMAIN t : t[i].y = 0 /\ t[i].s >= t[k].s}
    BY <2>1
  <2> QED BY <2>2 DEF Caught, Alarms
<1> DEFINE c == MinCost(t, w, ratio)
<1>6. /\ c.thr = t[k].s /\ c.value = Cost(t, w, ratio, 1 .. k)
      /\ c.caught = Cardinality({i \in 1 .. k : t[i].y = 1})
      /\ c.alarms = Cardinality({i \in 1 .. k : t[i].y = 0})
  BY <1>2
<1>7. c.split <=> k < Len(t) /\ t[k + 1].s = t[k].s
  <2> DEFINE beside == k < Len(t) /\ t[k + 1].s = t[k].s
             thr == t[k].s
             value == Cost(t, w, ratio, 1 .. k)
             caught == Cardinality({i \in 1 .. k : t[i].y = 1})
             alarms == Cardinality({i \in 1 .. k : t[i].y = 0})
  <2>1. c = [thr |-> thr, value |-> value, caught |-> caught, alarms |-> alarms, split |-> beside]
    BY <1>2
  <2> HIDE DEF beside, thr, value, caught, alarms, c
  <2>2. c.split = beside
    BY <2>1
  <2> QED BY <2>2 DEF beside
<1> HIDE DEF c
<1>8. ASSUME ~c.split
      PROVE  /\ c.value = Cost(t, w, ratio, {i \in DOMAIN t : t[i].s >= c.thr})
             /\ c.caught = Caught(t, c.thr) /\ c.alarms = Alarms(t, c.thr)
  <2>1. {i \in DOMAIN t : t[i].s >= t[k].s} = 1 .. k
    BY <1>4, <1>7, <1>8
  <2> QED BY <1>5, <1>6, <2>1
<1>9. \A thr \in ScoresOf(t) : c.value <= Cost(t, w, ratio, {i \in DOMAIN t : t[i].s >= thr})
  BY <1>3, <1>6
<1> QED BY <1>8, <1>9 DEF c

(* Who is found with few alerts a day is found with more. *)
LEMMA MoreAreFound ==
  ASSUME NEW t, Ranked(t), NEW j \in Budgets, NEW k \in Budgets, j <= k
  PROVE  BudgetSweep(t)[j] \subseteq BudgetSweep(t)[k]
<1> DEFINE earlier(i) == Cardinality({m \in 1 .. i - 1 : t[m].day = t[i].day})
<1>1. j \in Nat /\ k \in Nat
  BY EvalAssumption
<1>2. ASSUME NEW i \in Flagged(t, j), i \in Int PROVE i \in Flagged(t, k)
  <2>1. i \in DOMAIN t /\ earlier(i) < j
    BY DEF Flagged
  <2>2. earlier(i) \in Nat
    <3>1. {m \in 1 .. i - 1 : t[m].day = t[i].day} \in SUBSET (1 .. i - 1)
      OBVIOUS
    <3>2. IsFiniteSet(1 .. i - 1)
      <4>1. \A n \in Int : IsFiniteSet(1 .. n)
        BY FS_Interval
      <4>2. i - 1 \in Int
        BY <1>2
      <4> QED BY <4>1, <4>2
    <3> QED BY <3>1, <3>2, FS_Subset, FS_CardinalityType
  <2> HIDE DEF earlier
  <2>3. earlier(i) < k
    BY <1>1, <2>1, <2>2
  <2> QED BY <2>1, <2>3 DEF Flagged, earlier
<1>3. \A i \in DOMAIN t : i \in Int
  BY DEF Ranked
<1>4. Flagged(t, j) \subseteq Flagged(t, k)
  BY <1>2, <1>3 DEF Flagged
<1> QED BY <1>4 DEF BudgetSweep

(* What a report says of its table is what the operators say of it. *)
OpsHold(r) ==
  /\ Graded(r.of)
  /\ \A target \in Targets :
       LET pt == OpAtFpr(r.of, target)
           o == r.ops[target]
       IN  o.thr = pt.thr /\ o.tp = pt.tp /\ o.fp = pt.fp
CostHolds(r) ==
  /\ Ranked(r.of) /\ r.of # <<>> /\ r.weight[1] \in Nat /\ r.weight[2] \in Nat
  /\ \A ratio \in DOMAIN r.cost : ratio \in Nat /\ r.cost[ratio] = MinCost(r.of, r.weight, ratio)
SweepHolds(r) ==
  \A j, k \in DOMAIN r.sweep : j <= k => r.sweep[j] \subseteq r.sweep[k]

Reported(r) ==
  /\ "ops" \in DOMAIN r => OpsHold(r)
  /\ "free" \in DOMAIN r => Graded(r.of) /\ r.free.ks = KS(r.of)
  /\ "eer" \in DOMAIN r => Graded(r.of) /\ r.eer = EqualError(r.of)
  /\ "cost" \in DOMAIN r => CostHolds(r)
  /\ "sweep" \in DOMAIN r => SweepHolds(r)

LEMMA ReportedIsBest == Reported(report) => PointsAreBest
<1> SUFFICES ASSUME Reported(report) PROVE PointsAreBest
  OBVIOUS
<1> DEFINE t == report.of
           P == Positives(t)
           N == Negatives(t)
           InBudget(fp, target) == fp * target[2] <= target[1] * N
           Dropped(thr) == \A pt \in RocCurve(t) : pt.thr # thr
<1>1. ASSUME Has("ops"), NEW target \in Targets
      PROVE  LET o == report.ops[target]
             IN  /\ o.tp = Caught(t, o.thr) /\ o.fp = Alarms(t, o.thr)
                 /\ InBudget(o.fp, target)
                 /\ \A thr \in ScoresOf(t) : InBudget(Alarms(t, thr), target) =>
                      Caught(t, thr) <= o.tp \/ (thr < o.thr /\ Dropped(thr))
  <2> DEFINE o == report.ops[target]
             pt == OpAtFpr(t, target)
  <2>1. Graded(t) /\ o.thr = pt.thr /\ o.tp = pt.tp /\ o.fp = pt.fp
    BY <1>1 DEF Has, Reported, OpsHold
  <2>2. /\ pt.tp = Caught(t, pt.thr) /\ pt.fp = Alarms(t, pt.thr)
        /\ pt.fp * target[2] <= target[1] * N
        /\ \A thr \in ScoresOf(t) : Alarms(t, thr) * target[2] <= target[1] * N =>
             Caught(t, thr) <= pt.tp \/ (thr < pt.thr /\ Dropped(thr))
    BY <1>1, <2>1, OperatingPointIs
  <2> HIDE DEF t, pt, N, Dropped
  <2> QED BY <2>1, <2>2
<1>2. ASSUME Has("free"), NEW thr \in ScoresOf(t)
      PROVE  Caught(t, thr) * N - Alarms(t, thr) * P <= report.free.ks[1]
  <2>1. Graded(t) /\ report.free.ks = KS(t)
    BY <1>2 DEF Has, Reported
  <2> QED BY <1>2, <2>1, SeparationBound
<1>3. ASSUME Has("eer"), NEW thr \in ScoresOf(t)
      PROVE  LET least == Min({report.eer.fp * P, (P - report.eer.tp) * N})
             IN  /\ Alarms(t, thr) * P >= least \/ (P - Caught(t, thr)) * N >= least
                 /\ Dropped(thr) \/ Off(t, Point(t, thr)) >= Off(t, report.eer)
  <2>1. Graded(t) /\ report.eer = EqualError(t)
    BY <1>3 DEF Has, Reported
  <2> QED BY <1>3, <2>1, EqualErrorIsBest
<1>4. ASSUME Has("cost"), NEW ratio \in DOMAIN report.cost
      PROVE  LET c == report.cost[ratio]
                 CostFrom(thr) == Cost(t, report.weight, ratio, {i \in DOMAIN t : t[i].s >= thr})
             IN  /\ \A thr \in ScoresOf(t) : c.value <= CostFrom(thr)
                 /\ ~c.split => /\ c.value = CostFrom(c.thr)
                                /\ c.caught = Caught(t, c.thr) /\ c.alarms = Alarms(t, c.thr)
  <2>1. /\ Ranked(t) /\ t # <<>> /\ report.weight[1] \in Nat /\ report.weight[2] \in Nat
        /\ ratio \in Nat /\ report.cost[ratio] = MinCost(t, report.weight, ratio)
    BY <1>4 DEF Has, Reported, CostHolds
  <2> DEFINE m == MinCost(t, report.weight, ratio)
             CostFrom(thr) == Cost(t, report.weight, ratio, {i \in DOMAIN t : t[i].s >= thr})
  <2>2. /\ \A thr \in ScoresOf(t) : m.value <= CostFrom(thr)
        /\ ~m.split => /\ m.value = CostFrom(m.thr)
                       /\ m.caught = Caught(t, m.thr) /\ m.alarms = Alarms(t, m.thr)
    BY <2>1, MinCostIs
  <2> HIDE DEF m, t
  <2>3. report.cost[ratio] = m
    BY <2>1 DEF m
  <2> QED BY <2>2, <2>3, Zenon
<1>5. Has("sweep") => \A j, k \in DOMAIN report.sweep : j <= k => report.sweep[j] \subseteq report.sweep[k]
  BY DEF Has, Reported, SweepHolds
<1> QED BY <1>1, <1>2, <1>3, <1>4, <1>5 DEF PointsAreBest

RowsOf == {Row(kind, s) : kind \in RowKinds, s \in TableScores}

EvalInv ==
  /\ table \in Seq(RowsOf) /\ (\A i, j \in DOMAIN table : i <= j => table[j].s <= table[i].s)
  /\ rate \in Rates /\ Reported(report)

LEMMA RowIs ==
  ASSUME NEW row \in RowsOf
  PROVE  row.s \in Nat /\ row.s <= Top /\ row.y \in {0, 1} /\ row.loss \in Nat
<1>1. PICK kind \in RowKinds, s \in TableScores : row = Row(kind, s)
  BY DEF RowsOf
<1>2. kind[1] \in {0, 1} /\ kind[2] \in Nat /\ s \in Nat /\ s <= Top
  <2>1. kind[1] \in 0 .. 1 /\ kind[2] \in Nat /\ s \in 0 .. Top /\ Top \in Nat
    BY EvalAssumption
  <2> QED BY <2>1
<1>3. row.s = s /\ row.y = kind[1] /\ row.loss = kind[2]
  BY <1>1 DEF Row
<1> QED BY <1>2, <1>3

LEMMA TableIs ==
  ASSUME EvalInv
  PROVE  Ranked(table) /\ rate[1] \in Nat /\ rate[2] \in Nat
<1>1. Len(table) \in Nat /\ DOMAIN table = 1 .. Len(table) /\ \A i \in DOMAIN table : table[i] \in RowsOf
  BY DEF EvalInv
<1>2. \A n \in Nat : IsFiniteSet(1 .. n)
  BY FS_Interval
<1>3. Graded(table)
  BY <1>1, <1>2, RowIs DEF Graded
<1> QED BY <1>1, <1>3, EvalAssumption DEF EvalInv, Ranked

LEMMA FullSuiteHolds ==
  ASSUME NEW t, Ranked(t), t # <<>>, NEW w, w[1] \in Nat, w[2] \in Nat,
         NEW lossKnown \in BOOLEAN, NEW proba \in BOOLEAN
  PROVE  LET r == FullSuite(t, w, lossKnown, proba)
         IN  /\ OpsHold(r) /\ Graded(r.of) /\ r.free.ks = KS(r.of) /\ CostHolds(r)
             /\ SweepHolds(r) /\ "eer" \notin DOMAIN r /\ r.of = t
<1> DEFINE r == FullSuite(t, w, lossKnown, proba)
<1>1. /\ r.of = t /\ r.weight = w /\ r.ops = OperatingPoints(t, w) /\ r.free = ThresholdFree(t, w)
      /\ r.cost = CostAnalysis(t, w, lossKnown) /\ r.sweep = <<>>
  BY DEF FullSuite
<1>2. "eer" \notin DOMAIN r
  BY DEF FullSuite
<1> HIDE DEF r
<1>3. Graded(t)
  BY DEF Ranked
<1>4. ThresholdFree(t, w).ks = KS(t)
  BY DEF ThresholdFree
<1>5. OpsHold(r)
  <2>1. \A target \in Targets : OperatingPoints(t, w)[target] = OperatingPoint(t, w, target)
    BY DEF OperatingPoints
  <2>2. \A target \in Targets :
          LET pt == OpAtFpr(t, target)
              o == OperatingPoint(t, w, target)
          IN  o.thr = pt.thr /\ o.tp = pt.tp /\ o.fp = pt.fp
    BY DEF OperatingPoint
  <2> QED BY <1>1, <1>3, <2>1, <2>2 DEF OpsHold
<1>6. CostHolds(r)
  <2> DEFINE ratios == IF lossKnown THEN {0} ELSE Ratios
  <2>1. CostAnalysis(t, w, lossKnown) = [ratio \in ratios |-> MinCost(t, w, ratio)]
    BY DEF CostAnalysis
  <2>2. ratios \in SUBSET Nat
    BY EvalAssumption
  <2> HIDE DEF ratios
  <2> QED BY <1>1, <2>1, <2>2 DEF CostHolds
<1>7. SweepHolds(r)
  BY <1>1 DEF SweepHolds
<1> QED BY <1>1, <1>2, <1>3, <1>4, <1>5, <1>6, <1>7 DEF r

LEMMA FullSuiteReported ==
  ASSUME NEW t, Ranked(t), t # <<>>, NEW w, w[1] \in Nat, w[2] \in Nat,
         NEW lossKnown \in BOOLEAN, NEW proba \in BOOLEAN
  PROVE  /\ Reported(FullSuite(t, w, lossKnown, proba))
         /\ Reported([FullSuite(t, w, lossKnown, proba) EXCEPT !.sweep = BudgetSweep(t)])
<1> DEFINE r == FullSuite(t, w, lossKnown, proba)
           q == [r EXCEPT !.sweep = BudgetSweep(t)]
<1>1. /\ OpsHold(r) /\ Graded(r.of) /\ r.free.ks = KS(r.of) /\ CostHolds(r)
      /\ SweepHolds(r) /\ "eer" \notin DOMAIN r /\ r.of = t
  BY FullSuiteHolds
<1>2. /\ DOMAIN q = DOMAIN r /\ q.of = r.of /\ q.ops = r.ops /\ q.free = r.free
      /\ q.cost = r.cost /\ q.weight = r.weight /\ q.sweep = BudgetSweep(t)
  BY DEF FullSuite
<1> HIDE DEF r, q
<1>3. SweepHolds(q)
  <2>1. DOMAIN BudgetSweep(t) = Budgets
    BY DEF BudgetSweep
  <2> QED BY <1>2, <2>1, MoreAreFound DEF SweepHolds
<1>4. OpsHold(q)
  BY <1>1, <1>2 DEF OpsHold
<1>5. CostHolds(q)
  BY <1>1, <1>2 DEF CostHolds
<1>6. Reported(r)
  BY <1>1 DEF Reported
<1>7. Reported(q)
  BY <1>1, <1>2, <1>3, <1>4, <1>5 DEF Reported
<1> QED BY <1>6, <1>7 DEF r, q

LEMMA EvaluateReported ==
  ASSUME NEW by, NEW t, Ranked(t), NEW w
  PROVE  /\ Reported(Evaluate(by, t, w))
         /\ Reported([Evaluate(by, t, w) EXCEPT !.sweep = BudgetSweep(t)])
<1> DEFINE r == Evaluate(by, t, w)
           q == [r EXCEPT !.sweep = BudgetSweep(t)]
<1>1. /\ r.of = t /\ DOMAIN r = {"by", "of", "weight", "ops", "auc", "sweep"} /\ r.sweep = <<>>
      /\ \A target \in Targets : r.ops[target] =
           [OperatingPoint(t, w, target) EXCEPT !.confusion = OperatingPoint(t, Whole, target).confusion]
  BY DEF Evaluate
<1>2. \A target \in Targets :
        LET pt == OpAtFpr(t, target)
            o == [OperatingPoint(t, w, target) EXCEPT !.confusion = OperatingPoint(t, Whole, target).confusion]
        IN  o.thr = pt.thr /\ o.tp = pt.tp /\ o.fp = pt.fp
  BY DEF OperatingPoint
<1>3. Graded(t)
  BY DEF Ranked
<1>4. DOMAIN q = DOMAIN r /\ q.of = r.of /\ q.ops = r.ops /\ q.sweep = BudgetSweep(t)
  BY DEF Evaluate
<1> HIDE DEF r, q
<1>5. OpsHold(r)
  BY <1>1, <1>2, <1>3 DEF OpsHold
<1>6. OpsHold(q)
  BY <1>4, <1>5 DEF OpsHold
<1>7. SweepHolds(q)
  <2>1. DOMAIN BudgetSweep(t) = Budgets
    BY DEF BudgetSweep
  <2> QED BY <1>4, <2>1, MoreAreFound DEF SweepHolds
<1>8. SweepHolds(r)
  BY <1>1 DEF SweepHolds
<1>9. Reported(r)
  BY <1>1, <1>5, <1>8 DEF Reported
<1>10. Reported(q)
  BY <1>1, <1>4, <1>6, <1>7 DEF Reported
<1> QED BY <1>9, <1>10 DEF r, q

LEMMA NotEmpty == ASSUME BothClasses(table) PROVE table # <<>>
<1> SUFFICES ASSUME table = <<>> PROVE FALSE
  OBVIOUS
<1>1. {i \in DOMAIN table : table[i].y = 1} = {}
  OBVIOUS
<1>2. Positives(table) = 0
  BY <1>1, FS_EmptySet DEF Positives
<1> QED BY <1>2 DEF BothClasses

LEMMA DrawIsGraded ==
  ASSUME NEW t, Graded(t), NEW n, NEW d \in Draws(t, n), Positives(t) + n \in Int
  PROVE  Graded(d)
<1>1. PICK pick \in [1 .. Positives(t) + n -> DOMAIN t] : d = Drawn(t, pick)
  BY DEF Draws
<1>2. IsFiniteSet(1 .. Positives(t) + n)
  <2>1. \A m \in Int : IsFiniteSet(1 .. m)
    BY FS_Interval
  <2> QED BY <2>1
<1>3. d = [m \in 1 .. Positives(t) + n |-> t[pick[m]]]
  BY <1>1 DEF Drawn
<1> QED BY <1>1, <1>2, <1>3 DEF Graded

LEMMA ReportKeeps ==
  ASSUME EvalInv, NEW r, Report(r), Reported(r)
  PROVE  EvalInv'
BY DEF EvalInv, Report

LEMMA RunnersKeep == EvalInv /\ Runners => EvalInv'
<1> SUFFICES ASSUME EvalInv, Runners PROVE EvalInv'
  OBVIOUS
<1>1. Ranked(table) /\ rate[1] \in Nat /\ rate[2] \in Nat
  BY TableIs
<1>2. ASSUME NEW lossKnown \in BOOLEAN, Report(FullSuite(table, rate, lossKnown, TRUE)) PROVE EvalInv'
  <2>1. table # <<>>
    BY <1>2, NotEmpty DEF Report
  <2>2. Reported(FullSuite(table, rate, lossKnown, TRUE))
    BY <1>1, <2>1, FullSuiteReported
  <2> QED BY <1>2, <2>2, ReportKeeps
<1>3. CASE RunPaysim
  BY <1>2, <1>3 DEF RunPaysim
<1>4. CASE RunIeee(TRUE)
  BY <1>2, <1>4 DEF RunIeee
<1>5. CASE RunIeee(FALSE)
  BY <1>2, <1>5 DEF RunIeee
<1>6. CASE RunRba
  BY <1>2, <1>6 DEF RunRba
<1>7. CASE RunCert
  <2> DEFINE q == [FullSuite(table, rate, FALSE, FALSE) EXCEPT !.sweep = BudgetSweep(table)]
  <2>1. Report(q)
    BY <1>7 DEF RunCert
  <2> HIDE DEF q
  <2>2. table # <<>>
    BY <2>1, NotEmpty DEF Report
  <2>3. Reported(q)
    BY <1>1, <2>2, FullSuiteReported DEF q
  <2> QED BY <2>1, <2>3, ReportKeeps
<1>8. CASE RunCmu
  <2> DEFINE q == [by |-> "run_cmu", of |-> table, weight |-> rate,
                   eer |-> EqualError(table), auc |-> RocAuc(table)]
  <2>1. Report(q)
    BY <1>8 DEF RunCmu
  <2>2. Reported(q)
    <3>1. DOMAIN q = {"by", "of", "weight", "eer", "auc"} /\ q.of = table /\ q.eer = EqualError(table)
      OBVIOUS
    <3> HIDE DEF q
    <3> QED BY <1>1, <3>1 DEF Reported, Ranked
  <2> HIDE DEF q
  <2> QED BY <2>1, <2>2, ReportKeeps
<1> QED BY <1>3, <1>4, <1>5, <1>6, <1>7, <1>8 DEF Runners

LEMMA EvaluatorsKeep == EvalInv /\ Evaluators => EvalInv'
<1> SUFFICES ASSUME EvalInv, Evaluators PROVE EvalInv'
  OBVIOUS
<1>1. Ranked(table)
  BY TableIs
<1>2. ASSUME NEW by, Report(Evaluate(by, table, rate)) PROVE EvalInv'
  <2>1. Reported(Evaluate(by, table, rate))
    BY <1>1, EvaluateReported
  <2> QED BY <1>2, <2>1, ReportKeeps
<1>3. CASE EvalPaysim
  BY <1>2, <1>3 DEF EvalPaysim
<1>4. CASE EvalIeee
  BY <1>2, <1>4 DEF EvalIeee
<1>5. CASE EvalRba
  BY <1>2, <1>5 DEF EvalRba
<1>6. CASE EvalCmu
  <2> DEFINE q == [by |-> "eval_cmu", of |-> table, weight |-> rate, eer |-> EqualError(table)]
  <2>1. Report(q)
    BY <1>6 DEF EvalCmu
  <2>2. Reported(q)
    <3>1. DOMAIN q = {"by", "of", "weight", "eer"} /\ q.of = table /\ q.eer = EqualError(table)
      OBVIOUS
    <3> HIDE DEF q
    <3> QED BY <1>1, <3>1 DEF Reported, Ranked
  <2> HIDE DEF q
  <2> QED BY <2>1, <2>2, ReportKeeps
<1>7. CASE EvalCert
  <2> DEFINE q == [Evaluate("eval_cert", table, rate) EXCEPT !.sweep = BudgetSweep(table)]
  <2>1. Report(q)
    BY <1>7 DEF EvalCert
  <2> HIDE DEF q
  <2>2. Reported(q)
    BY <1>1, EvaluateReported DEF q
  <2> QED BY <2>1, <2>2, ReportKeeps
<1> QED BY <1>3, <1>4, <1>5, <1>6, <1>7 DEF Evaluators

LEMMA KeyMetricsKeep == EvalInv /\ KeyMetrics => EvalInv'
<1> SUFFICES ASSUME EvalInv, KeyMetrics PROVE EvalInv'
  OBVIOUS
<1> DEFINE q == [by |-> "key_metrics", of |-> table, weight |-> rate, auc |-> RocAuc(table),
                 ap |-> AveragePrecision(table, rate),
                 recall |-> [target \in Targets |-> <<OpAtFpr(table, target).tp, Positives(table)>>]]
<1>1. Report(q)
  BY DEF KeyMetrics
<1>2. DOMAIN q = {"by", "of", "weight", "auc", "ap", "recall"}
  OBVIOUS
<1> HIDE DEF q
<1>3. Reported(q)
  BY <1>2 DEF Reported
<1> QED BY <1>1, <1>3, ReportKeeps

LEMMA BootstrapKeeps == EvalInv /\ Bootstrap => EvalInv'
<1> SUFFICES ASSUME EvalInv, Bootstrap PROVE EvalInv'
  OBVIOUS
<1> DEFINE n == Negatives(table)
           m == IF n > NegCap THEN NegCap ELSE n
           w == IF n > NegCap THEN <<rate[1] * n, rate[2] * NegCap>> ELSE rate
           q(d) == [by |-> "bootstrap", of |-> d, weight |-> w,
                    ops |-> OperatingPoints(d, w), auc |-> RocAuc(d), ap |-> AveragePrecision(d, w)]
<1>1. PICK d \in Draws(table, m) : Report(q(d))
  BY DEF Bootstrap
<1>2. Graded(table)
  BY TableIs DEF Ranked
<1>3. Graded(d)
  <2>1. Top \in Nat
    BY EvalAssumption
  <2>2. Positives(table) \in Nat /\ n \in Nat
    BY <1>2, <2>1, CountsAre
  <2>3. Positives(table) + m \in Int
    BY <2>2, EvalAssumption
  <2> HIDE DEF m
  <2> QED BY <1>2, <2>3, DrawIsGraded
<1>4. DOMAIN q(d) = {"by", "of", "weight", "ops", "auc", "ap"} /\ q(d).of = d /\ q(d).ops = OperatingPoints(d, w)
  OBVIOUS
<1> DEFINE r == q(d)
<1> HIDE DEF q, w
<1>5. OpsHold(r)
  <2>1. \A target \in Targets :
          LET pt == OpAtFpr(d, target)
              o == OperatingPoints(d, w)[target]
          IN  o.thr = pt.thr /\ o.tp = pt.tp /\ o.fp = pt.fp
    BY DEF OperatingPoints, OperatingPoint
  <2> QED BY <1>3, <1>4, <2>1 DEF OpsHold
<1>6. Reported(r)
  BY <1>4, <1>5 DEF Reported
<1> HIDE DEF r
<1>7. Report(r)
  BY <1>1 DEF r
<1> QED BY <1>6, <1>7, ReportKeeps

LEMMA AddRowKeeps ==
  ASSUME EvalInv, NEW kind \in RowKinds, NEW s \in TableScores, AddRow(Row(kind, s))
  PROVE  EvalInv'
<1> DEFINE row == Row(kind, s)
<1>1. row \in RowsOf
  BY DEF RowsOf
<1>2. /\ table' = Append(table, row) /\ rate' = rate /\ report' = report
      /\ table # <<>> => row.s <= Last(table).s
  BY DEF AddRow
<1>3. table \in Seq(RowsOf) /\ \A i, j \in DOMAIN table : i <= j => table[j].s <= table[i].s
  BY DEF EvalInv
<1> HIDE DEF row
<1> DEFINE n == Len(table)
<1>4. /\ n \in Nat /\ DOMAIN table = 1 .. n /\ table' \in Seq(RowsOf) /\ DOMAIN table' = 1 .. n + 1
      /\ \A i \in 1 .. n : table'[i] = table[i]
      /\ table'[n + 1] = row
  BY <1>1, <1>2, <1>3
<1>5. \A i \in 1 .. n : table[i].s \in Nat
  BY <1>3, <1>4, RowIs
<1>6. row.s \in Nat
  BY <1>1, RowIs
<1>7. ASSUME NEW i \in DOMAIN table', NEW j \in DOMAIN table', i <= j
      PROVE  table'[j].s <= table'[i].s
  <2>1. CASE j # n + 1
    <3>1. i \in 1 .. n /\ j \in 1 .. n
      BY <1>4, <1>7, <2>1
    <3> QED BY <1>3, <1>4, <1>7, <3>1
  <2>2. CASE j = n + 1 /\ i = n + 1
    BY <1>4, <1>6, <2>2
  <2>3. CASE j = n + 1 /\ i # n + 1
    <3>1. i \in 1 .. n /\ n \in 1 .. n /\ i <= n
      BY <1>4, <1>7, <2>3
    <3>2. table # <<>> /\ Last(table) = table[n]
      BY <3>1 DEF Last
    <3>3. table[n].s <= table[i].s /\ row.s <= table[n].s
      BY <1>2, <1>3, <1>4, <3>1, <3>2
    <3> QED BY <1>4, <1>5, <1>6, <2>3, <3>1, <3>3
  <2> QED BY <2>1, <2>2, <2>3
<1> HIDE DEF n
<1> QED BY <1>2, <1>4, <1>7 DEF EvalInv

LEMMA InitEval == EvalInit => EvalInv
<1> SUFFICES ASSUME EvalInit PROVE EvalInv
  OBVIOUS
<1>1. table = <<>> /\ rate \in Rates /\ report = NoReport
  BY DEF EvalInit
<1>2. DOMAIN report = {"by"}
  BY <1>1 DEF NoReport
<1>3. Reported(report)
  BY <1>2 DEF Reported
<1> QED BY <1>1, <1>3 DEF EvalInv

(* eval_full.py:187 "Expected-cost-minimising threshold" and the recall at *)
(* a step-up budget: whatever the table, no threshold within a budget      *)
(* catches more than the operating point, none separates better than KS,   *)
(* none has closer error rates than the equal error point, none costs less *)
(* than the minimum; but for the points roc_curve drops.                   *)
THEOREM PointsBest == EvalSpec => []PointsAreBest
<1>1. EvalInit => EvalInv
  BY InitEval
<1>2. EvalInv /\ [EvalNext]_evalVars => EvalInv'
  <2>1. CASE EvalNext
    BY <2>1, AddRowKeeps, RunnersKeep, EvaluatorsKeep, KeyMetricsKeep, BootstrapKeeps DEF EvalNext
  <2>2. CASE UNCHANGED evalVars
    BY <2>2 DEF evalVars, EvalInv
  <2> QED BY <2>1, <2>2
<1>3. EvalInv => PointsAreBest
  BY ReportedIsBest DEF EvalInv
<1> QED BY <1>1, <1>2, <1>3, PTL DEF EvalSpec

(***************************************************************************)
(* The population of a table: a row is there as often as it stands for.    *)
(* The copies of some positives, or of some negatives, are a product.      *)
(***************************************************************************)
Weighs(w) == w[1] \in Nat \ {0} /\ w[2] \in Nat \ {0}

CopiesOf(t, w) == UNION {{i} \X (1 .. Weight(t[i], w)) : i \in DOMAIN t}

LEMMA CopiesAre ==
  ASSUME NEW t, NEW w
  PROVE  /\ DOMAIN Population(t, w) = CopiesOf(t, w)
         /\ \A c \in CopiesOf(t, w) : /\ c = <<c[1], c[2]>> /\ c[1] \in DOMAIN t
                                      /\ c[2] \in 1 .. Weight(t[c[1]], w)
                                      /\ Population(t, w)[c] = t[c[1]]
         /\ \A i \in DOMAIN t : \A k \in 1 .. Weight(t[i], w) : <<i, k>> \in CopiesOf(t, w)
<1>1. ASSUME NEW c \in CopiesOf(t, w)
      PROVE  c = <<c[1], c[2]>> /\ c[1] \in DOMAIN t /\ c[2] \in 1 .. Weight(t[c[1]], w)
  <2>1. PICK i \in DOMAIN t : c \in {i} \X (1 .. Weight(t[i], w))
    BY DEF CopiesOf
  <2> QED BY <2>1
<1>2. ASSUME NEW i \in DOMAIN t, NEW k \in 1 .. Weight(t[i], w) PROVE <<i, k>> \in CopiesOf(t, w)
  <2>1. <<i, k>> \in {i} \X (1 .. Weight(t[i], w))
    BY <1>2
  <2> QED BY <2>1 DEF CopiesOf
<1>3. Population(t, w) = [copy \in CopiesOf(t, w) |-> t[copy[1]]]
  BY DEF Population, CopiesOf
<1> QED BY <1>1, <1>2, <1>3

LEMMA WeightIs ==
  ASSUME NEW t, Graded(t), NEW w, Weighs(w), NEW i \in DOMAIN t
  PROVE  /\ Weight(t[i], w) \in Nat \ {0}
         /\ t[i].y = 1 => Weight(t[i], w) = w[2]
         /\ t[i].y = 0 => Weight(t[i], w) = w[1]
         /\ Weight(t[i], Whole) = 1
BY DEF Weight, Weighs, Graded, Whole

LEMMA IntervalIs == \A n \in Nat : IsFiniteSet(1 .. n) /\ Cardinality(1 .. n) = n
<1> SUFFICES ASSUME NEW n \in Nat PROVE IsFiniteSet(1 .. n) /\ Cardinality(1 .. n) = n
  OBVIOUS
<1>1. IsFiniteSet(1 .. n) /\ Cardinality(1 .. n) = IF 1 > n THEN 0 ELSE n - 1 + 1
  BY FS_Interval
<1> QED BY <1>1

LEMMA PopulationIsGraded ==
  ASSUME NEW t, Graded(t), NEW w, Weighs(w)
  PROVE  Graded(Population(t, w)) /\ IsFiniteSet(CopiesOf(t, w))
<1> DEFINE m == w[1] + w[2]
           all == Population(t, w)
<1>1. m \in Nat /\ \A i \in DOMAIN t : Weight(t[i], w) \in Nat /\ Weight(t[i], w) <= m
  <2>1. m \in Nat /\ w[1] <= m /\ w[2] <= m
    BY DEF Weighs
  <2>2. \A i \in DOMAIN t : Weight(t[i], w) \in {w[1], w[2]}
    BY WeightIs DEF Graded
  <2> QED BY <2>1, <2>2 DEF Weighs
<1> HIDE DEF m
<1>2. CopiesOf(t, w) \in SUBSET ((DOMAIN t) \X (1 .. m))
  <2> SUFFICES ASSUME NEW c \in CopiesOf(t, w) PROVE c \in (DOMAIN t) \X (1 .. m)
    OBVIOUS
  <2>1. c = <<c[1], c[2]>> /\ c[1] \in DOMAIN t /\ c[2] \in 1 .. Weight(t[c[1]], w)
    BY CopiesAre
  <2>2. c[2] \in 1 .. m
    BY <1>1, <2>1
  <2> QED BY <2>1, <2>2
<1>3. IsFiniteSet((DOMAIN t) \X (1 .. m))
  BY <1>1, IntervalIs, FS_Product DEF Graded
<1>4. IsFiniteSet(CopiesOf(t, w))
  BY <1>2, <1>3, FS_Subset
<1>5. DOMAIN all = CopiesOf(t, w) /\ \A c \in CopiesOf(t, w) : all[c] = t[c[1]] /\ c[1] \in DOMAIN t
  BY CopiesAre
<1> HIDE DEF all
<1>6. Graded(all)
  BY <1>4, <1>5 DEF Graded
<1> QED BY <1>4, <1>6 DEF all

LEMMA CopiesCount ==
  ASSUME NEW t, Graded(t), NEW w, Weighs(w), NEW A \in SUBSET DOMAIN t, NEW k \in Nat,
         \A i \in A : Weight(t[i], w) = k
  PROVE  Cardinality({c \in CopiesOf(t, w) : c[1] \in A}) = Cardinality(A) * k
<1>1. {c \in CopiesOf(t, w) : c[1] \in A} = A \X (1 .. k)
  <2>1. ASSUME NEW c \in CopiesOf(t, w), c[1] \in A PROVE c \in A \X (1 .. k)
    <3>1. c = <<c[1], c[2]>> /\ c[2] \in 1 .. Weight(t[c[1]], w)
      BY CopiesAre
    <3> QED BY <2>1, <3>1
  <2>2. ASSUME NEW c \in A \X (1 .. k) PROVE c \in CopiesOf(t, w) /\ c[1] \in A
    <3>1. PICK i \in A, n \in 1 .. k : c = <<i, n>>
      OBVIOUS
    <3>2. <<i, n>> \in CopiesOf(t, w)
      BY CopiesAre
    <3> QED BY <3>1, <3>2
  <2> QED BY <2>1, <2>2
<1>2. IsFiniteSet(A)
  BY FS_Subset DEF Graded
<1>3. IsFiniteSet(1 .. k) /\ Cardinality(1 .. k) = k
  BY IntervalIs
<1>4. Cardinality(A \X (1 .. k)) = Cardinality(A) * Cardinality(1 .. k)
  BY <1>2, <1>3, FS_Product
<1> QED BY <1>1, <1>3, <1>4

(* The counts of the population are those of the table times a weight. *)
LEMMA PopulationCounts ==
  ASSUME NEW t, Graded(t), NEW w, Weighs(w), NEW thr \in Nat
  PROVE  LET all == Population(t, w)
         IN  /\ Positives(all) = Positives(t) * w[2] /\ Negatives(all) = Negatives(t) * w[1]
             /\ Caught(all, thr) = Caught(t, thr) * w[2] /\ Alarms(all, thr) = Alarms(t, thr) * w[1]
<1> DEFINE all == Population(t, w)
           P == {i \in DOMAIN t : t[i].y = 1}
           N == {i \in DOMAIN t : t[i].y = 0}
           C == {i \in DOMAIN t : t[i].y = 1 /\ t[i].s >= thr}
           F == {i \in DOMAIN t : t[i].y = 0 /\ t[i].s >= thr}
<1>1. /\ P \in SUBSET DOMAIN t /\ N \in SUBSET DOMAIN t
      /\ C \in SUBSET DOMAIN t /\ F \in SUBSET DOMAIN t
  OBVIOUS
<1>2. w[1] \in Nat /\ w[2] \in Nat
  BY DEF Weighs
<1>3. /\ \A i \in P : Weight(t[i], w) = w[2]
      /\ \A i \in N : Weight(t[i], w) = w[1]
      /\ \A i \in C : Weight(t[i], w) = w[2]
      /\ \A i \in F : Weight(t[i], w) = w[1]
  BY WeightIs
<1>4. DOMAIN all = CopiesOf(t, w) /\ \A c \in CopiesOf(t, w) : all[c] = t[c[1]] /\ c[1] \in DOMAIN t
  BY CopiesAre
<1> HIDE DEF all
<1>5. /\ {c \in DOMAIN all : all[c].y = 1} = {c \in CopiesOf(t, w) : c[1] \in P}
      /\ {c \in DOMAIN all : all[c].y = 0} = {c \in CopiesOf(t, w) : c[1] \in N}
  BY <1>4
<1>6. /\ {c \in DOMAIN all : all[c].y = 1 /\ all[c].s >= thr} = {c \in CopiesOf(t, w) : c[1] \in C}
      /\ {c \in DOMAIN all : all[c].y = 0 /\ all[c].s >= thr} = {c \in CopiesOf(t, w) : c[1] \in F}
  BY <1>4
<1> HIDE DEF P, N, C, F
<1>7. Cardinality({c \in CopiesOf(t, w) : c[1] \in P}) = Cardinality(P) * w[2]
  BY <1>1, <1>2, <1>3, CopiesCount
<1>8. Cardinality({c \in CopiesOf(t, w) : c[1] \in N}) = Cardinality(N) * w[1]
  BY <1>1, <1>2, <1>3, CopiesCount
<1>9. Cardinality({c \in CopiesOf(t, w) : c[1] \in C}) = Cardinality(C) * w[2]
  BY <1>1, <1>2, <1>3, CopiesCount
<1>10. Cardinality({c \in CopiesOf(t, w) : c[1] \in F}) = Cardinality(F) * w[1]
  BY <1>1, <1>2, <1>3, CopiesCount
<1>11. /\ Positives(all) = Cardinality(P) * w[2] /\ Negatives(all) = Cardinality(N) * w[1]
       /\ Caught(all, thr) = Cardinality(C) * w[2] /\ Alarms(all, thr) = Cardinality(F) * w[1]
  BY <1>5, <1>6, <1>7, <1>8, <1>9, <1>10 DEF Positives, Negatives, Caught, Alarms
<1>12. /\ Positives(t) = Cardinality(P) /\ Negatives(t) = Cardinality(N)
       /\ Caught(t, thr) = Cardinality(C) /\ Alarms(t, thr) = Cardinality(F)
  BY DEF P, N, C, F, Positives, Negatives, Caught, Alarms
<1> QED BY <1>11, <1>12 DEF all

LEMMA PopulationScores ==
  ASSUME NEW t, Graded(t), NEW w, Weighs(w)
  PROVE  ScoresOf(Population(t, w)) = ScoresOf(t)
<1> DEFINE all == Population(t, w)
<1>1. DOMAIN all = CopiesOf(t, w) /\ \A c \in CopiesOf(t, w) : all[c] = t[c[1]] /\ c[1] \in DOMAIN t
  BY CopiesAre
<1>2. ASSUME NEW i \in DOMAIN t PROVE \E c \in DOMAIN all : all[c].s = t[i].s
  <2>1. 1 \in 1 .. Weight(t[i], w)
    BY WeightIs
  <2>2. <<i, 1>> \in CopiesOf(t, w)
    BY <2>1, CopiesAre
  <2>3. <<i, 1>>[1] = i
    OBVIOUS
  <2> QED BY <1>1, <2>2, <2>3
<1> HIDE DEF all
<1>3. ScoresOf(all) = ScoresOf(t)
  BY <1>1, <1>2 DEF ScoresOf
<1> QED BY <1>3 DEF all

Scaled(pt, w) == [thr |-> pt.thr, fp |-> pt.fp * w[1], tp |-> pt.tp * w[2]]

LEMMA PopulationPoint ==
  ASSUME NEW t, Graded(t), NEW w, Weighs(w), NEW thr \in Nat
  PROVE  Point(Population(t, w), thr) = Scaled(Point(t, thr), w)
BY PopulationCounts DEF Point, Scaled

LEMMA PopulationPoints ==
  ASSUME NEW t, Graded(t), NEW w, Weighs(w)
  PROVE  LET all == Points(Population(t, w))
         IN  /\ Len(all) = Len(Points(t)) /\ DOMAIN all = DOMAIN Points(t)
             /\ \A j \in DOMAIN Points(t) : all[j] = Scaled(Points(t)[j], w)
<1> DEFINE n == Cardinality(ScoresOf(t))
           o == InOrder(ScoresOf(t))
           T == Population(t, w)
<1>1. ScoresOf(t) \in SUBSET Nat /\ IsFiniteSet(ScoresOf(t))
  BY ScoresAre
<1>2. n \in Nat /\ o \in [1 .. n -> ScoresOf(t)]
  BY <1>1, InOrderIs
<1>3. ScoresOf(T) = ScoresOf(t)
  BY PopulationScores
<1>4. Points(t) = [j \in 1 .. n |-> Point(t, o[n + 1 - j])]
  BY DEF Points
<1>5. Points(T) = [j \in 1 .. n |-> Point(T, o[n + 1 - j])]
  <2> HIDE DEF T
  <2> QED BY <1>3 DEF Points
<1> HIDE DEF n, o
<1>6. \A j \in 1 .. n : o[n + 1 - j] \in Nat
  <2>1. \A j \in 1 .. n : n + 1 - j \in 1 .. n
    BY <1>2
  <2> QED BY <1>1, <1>2, <2>1
<1>7. \A j \in 1 .. n : Point(T, o[n + 1 - j]) = Scaled(Point(t, o[n + 1 - j]), w)
  BY <1>6, PopulationPoint
<1> HIDE DEF T
<1>8. DOMAIN Points(t) = 1 .. n /\ DOMAIN Points(T) = 1 .. n /\ Len(Points(t)) = n /\ Len(Points(T)) = n
  BY <1>2, <1>4, <1>5
<1>9. \A j \in 1 .. n : Points(T)[j] = Scaled(Points(t)[j], w)
  BY <1>4, <1>5, <1>7
<1> QED BY <1>8, <1>9 DEF T

LEMMA Cancel ==
  ASSUME NEW x \in Int, NEW y \in Int, NEW k \in Nat \ {0}
  PROVE  /\ x * k = y * k <=> x = y
         /\ x * k <= y * k <=> x <= y
<1>1. CASE x = y
  BY <1>1
<1>2. CASE x < y
  <2>1. (y - x) * k >= 1
    <3>1. y - x \in Nat \ {0}
      BY <1>2
    <3> QED BY <3>1
  <2>2. y * k = x * k + (y - x) * k
    OBVIOUS
  <2> QED BY <1>2, <2>1, <2>2
<1>3. CASE y < x
  <2>1. (x - y) * k >= 1
    <3>1. x - y \in Nat \ {0}
      BY <1>3
    <3> QED BY <3>1
  <2>2. x * k = y * k + (x - y) * k
    OBVIOUS
  <2> QED BY <1>3, <2>1, <2>2
<1> QED BY <1>1, <1>2, <1>3

LEMMA EvenGaps ==
  ASSUME NEW x \in Nat, NEW y \in Nat, NEW z \in Nat, NEW k \in Nat \ {0}
  PROVE  (y * k - x * k = z * k - y * k) <=> (y - x = z - y)
<1>1. y * k - x * k = (y - x) * k /\ z * k - y * k = (z - y) * k
  OBVIOUS
<1>2. (y - x) * k = (z - y) * k <=> y - x = z - y
  <2>1. y - x \in Int /\ z - y \in Int
    OBVIOUS
  <2> QED BY <2>1, Cancel
<1> QED BY <1>1, <1>2

LEMMA ScaledEvenly ==
  ASSUME NEW a, NEW b, NEW c, NEW w, Weighs(w),
         a.fp \in Nat, a.tp \in Nat, b.fp \in Nat, b.tp \in Nat, c.fp \in Nat, c.tp \in Nat
  PROVE  EvenlySpaced(Scaled(a, w), Scaled(b, w), Scaled(c, w)) <=> EvenlySpaced(a, b, c)
<1> DEFINE x == a.fp
           y == b.fp
           z == c.fp
           k == w[1]
           l == a.tp
           m == b.tp
           n == c.tp
           h == w[2]
<1>1. /\ x \in Nat /\ y \in Nat /\ z \in Nat /\ k \in Nat \ {0}
      /\ l \in Nat /\ m \in Nat /\ n \in Nat /\ h \in Nat \ {0}
  BY DEF Weighs
<1>2. /\ EvenlySpaced(a, b, c) <=> y - x = z - y /\ m - l = n - m
      /\ EvenlySpaced(Scaled(a, w), Scaled(b, w), Scaled(c, w)) <=>
           y * k - x * k = z * k - y * k /\ m * h - l * h = n * h - m * h
  BY DEF EvenlySpaced, Scaled
<1> HIDE DEF x, y, z, k, l, m, n, h
<1>3. (y * k - x * k = z * k - y * k) <=> (y - x = z - y)
  BY <1>1, EvenGaps
<1>4. (m * h - l * h = n * h - m * h) <=> (m - l = n - m)
  BY <1>1, EvenGaps
<1> QED BY <1>2, <1>3, <1>4

LEMMA PointFields ==
  ASSUME NEW t, Graded(t), NEW j \in DOMAIN Points(t)
  PROVE  Points(t)[j].fp \in Nat /\ Points(t)[j].tp \in Nat /\ Points(t)[j].thr \in Nat
<1>1. Points(t)[j].thr \in ScoresOf(t) /\ Points(t)[j] = Point(t, Points(t)[j].thr)
  BY PointsAre
<1>2. Points(t)[j].thr \in Nat
  BY <1>1, ScoresAre
<1>3. Alarms(t, Points(t)[j].thr) \in Nat /\ Caught(t, Points(t)[j].thr) \in Nat
  BY <1>2, CountsAre
<1> QED BY <1>1, <1>2, <1>3 DEF Point

(* The curve of the population is that of the table in its own units. *)
LEMMA PopulationCurve ==
  ASSUME NEW t, Graded(t), NEW w, Weighs(w)
  PROVE  RocCurve(Population(t, w)) = {Scaled(pt, w) : pt \in RocCurve(t)}
<1> DEFINE all == Points(t)
           new == Points(Population(t, w))
           n == Len(all)
           start == [thr |-> Above, fp |-> 0, tp |-> 0]
           kept(points) == {points[j] : j \in {k \in DOMAIN points : Kept(points, k)}}
<1>1. /\ Len(new) = n /\ DOMAIN new = DOMAIN all
      /\ \A j \in DOMAIN all : new[j] = Scaled(all[j], w)
  BY PopulationPoints
<1>2. n \in Nat /\ DOMAIN all = 1 .. n
  BY PointsAre
<1>3. \A j \in 1 .. n : all[j].fp \in Nat /\ all[j].tp \in Nat
  BY <1>2, PointFields
<1> HIDE DEF all, new, n
<1>4. ASSUME NEW k \in 1 .. n PROVE Kept(new, k) <=> Kept(all, k)
  <2>0. Len(new) = Len(all) /\ Len(all) = n
    BY <1>1 DEF n
  <2>1. CASE k \in {1, n}
    <3>1. k \in {1, Len(new)} /\ k \in {1, Len(all)}
      BY <2>0, <2>1
    <3> QED BY <3>1 DEF Kept
  <2>2. CASE k \notin {1, n}
    <3>1. k - 1 \in 1 .. n /\ k + 1 \in 1 .. n
      BY <1>2, <2>2
    <3>2. EvenlySpaced(new[k - 1], new[k], new[k + 1]) <=> EvenlySpaced(all[k - 1], all[k], all[k + 1])
      <4>1. /\ new[k - 1] = Scaled(all[k - 1], w) /\ new[k] = Scaled(all[k], w)
            /\ new[k + 1] = Scaled(all[k + 1], w)
        BY <1>1, <1>2, <3>1
      <4>2. /\ all[k - 1].fp \in Nat /\ all[k - 1].tp \in Nat /\ all[k].fp \in Nat /\ all[k].tp \in Nat
            /\ all[k + 1].fp \in Nat /\ all[k + 1].tp \in Nat
        BY <1>3, <3>1
      <4> QED BY <4>1, <4>2, ScaledEvenly
    <3>3. k \notin {1, Len(new)} /\ k \notin {1, Len(all)}
      BY <2>0, <2>2
    <3> QED BY <3>2, <3>3 DEF Kept
  <2> QED BY <2>1, <2>2
<1>5. Scaled(start, w) = start
  BY DEF Scaled, Weighs
<1>6. kept(new) = {Scaled(pt, w) : pt \in kept(all)}
  BY <1>1, <1>2, <1>4
<1>7. RocCurve(t) = {start} \cup kept(all) /\ RocCurve(Population(t, w)) = {start} \cup kept(new)
  BY DEF RocCurve, all, new
<1> HIDE DEF kept, start
<1> QED BY <1>5, <1>6, <1>7

LEMMA CurveFields ==
  ASSUME NEW t, Graded(t), NEW pt \in RocCurve(t)
  PROVE  /\ pt.fp \in Nat /\ pt.tp \in Nat /\ pt.thr \in Nat
         /\ pt.fp <= Negatives(t) /\ pt.tp <= Positives(t)
         /\ Positives(t) \in Nat /\ Negatives(t) \in Nat
<1>1. pt.thr \in Nat /\ pt.tp = Caught(t, pt.thr) /\ pt.fp = Alarms(t, pt.thr)
  BY CurveIs
<1> QED BY <1>1, CountsAre

(* The operating point of the population is that of the sample. *)
LEMMA PopulationOpAtFpr ==
  ASSUME NEW t, Graded(t), NEW w, Weighs(w), NEW target \in Targets
  PROVE  OpAtFpr(Population(t, w), target) = Scaled(OpAtFpr(t, target), w)
<1> DEFINE all == Population(t, w)
           Affordable(T) == {pt \in RocCurve(T) : pt.fp * target[2] <= target[1] * Negatives(T)}
           Q == Affordable(t)
           R == Affordable(all)
<1>1. target[1] \in Nat /\ target[2] \in Nat
  BY EvalAssumption
<1>2. Above \in Nat /\ Alarms(t, Above) = 0
  BY NoneAbove
<1>3. Negatives(all) = Negatives(t) * w[1] /\ Negatives(t) \in Nat
  BY <1>2, PopulationCounts, CountsAre
<1>4. RocCurve(all) = {Scaled(pt, w) : pt \in RocCurve(t)}
  BY PopulationCurve
<1>5. ASSUME NEW pt \in RocCurve(t)
      PROVE  pt \in Q <=> Scaled(pt, w) \in R
  <2>1. pt.fp \in Nat
    BY CurveFields
  <2>2. Scaled(pt, w).fp = pt.fp * w[1] /\ Scaled(pt, w) \in RocCurve(all)
    BY <1>4 DEF Scaled
  <2> DEFINE x == pt.fp * target[2]
             y == target[1] * Negatives(t)
  <2>3. x \in Int /\ y \in Int /\ w[1] \in Nat \ {0}
    BY <1>1, <1>3, <2>1 DEF Weighs
  <2>4. (pt.fp * w[1]) * target[2] = x * w[1] /\ target[1] * (Negatives(t) * w[1]) = y * w[1]
    BY <1>1, <1>3, <2>1, <2>3
  <2>5. x * w[1] <= y * w[1] <=> x <= y
    <3> HIDE DEF x, y
    <3> QED BY <2>3, Cancel
  <2> QED BY <1>3, <2>2, <2>4, <2>5
<1>6. R = {Scaled(pt, w) : pt \in Q}
  <2>1. \A pt \in Q : pt \in RocCurve(t)
    OBVIOUS
  <2>2. \A p \in R : \E pt \in RocCurve(t) : p = Scaled(pt, w)
    BY <1>4
  <2> HIDE DEF Q, R
  <2> QED BY <1>5, <2>1, <2>2
<1>7. Point(t, Above) \in Q
  <2>1. Point(t, Above).fp = 0 /\ Point(t, Above) \in RocCurve(t)
    BY <1>2, CurveIs DEF Point
  <2>2. 0 * target[2] <= target[1] * Negatives(t)
    BY <1>1, <1>3
  <2> QED BY <2>1, <2>2
<1>8. \A pt \in Q : pt.thr \in Nat /\ pt = Point(t, pt.thr)
  BY CurveIs
<1>9. OpAtFpr(t, target) = LowestOf(Q) /\ OpAtFpr(all, target) = LowestOf(R)
  <2> HIDE DEF all
  <2> QED BY DEF OpAtFpr
<1> HIDE DEF Q, R
<1> DEFINE o == LowestOf(Q)
           p == LowestOf(R)
<1>10. o \in Q /\ \A q \in Q : o.thr <= q.thr
  BY <1>7, <1>8, LowestIs
<1>11. \A q : Scaled(q, w).thr = q.thr
  BY DEF Scaled
<1>12. p \in R /\ \A q \in R : p.thr <= q.thr
  <2>1. R # {} /\ \A q \in R : q.thr \in Nat
    BY <1>6, <1>7, <1>8, <1>11
  <2> QED BY <2>1, LowestIs
<1> HIDE DEF o, p
<1>13. PICK q \in Q : p = Scaled(q, w)
  BY <1>6, <1>12
<1>14. o.thr <= q.thr /\ q.thr <= o.thr
  BY <1>6, <1>10, <1>11, <1>12, <1>13
<1>15. q.thr = o.thr
  BY <1>8, <1>10, <1>14
<1>16. q = o
  BY <1>8, <1>10, <1>15
<1> QED BY <1>9, <1>13, <1>16 DEF o, p

LEMMA OpIsOnCurve ==
  ASSUME NEW t, Graded(t), NEW target \in Targets
  PROVE  OpAtFpr(t, target) \in RocCurve(t)
<1> DEFINE Q == {pt \in RocCurve(t) : pt.fp * target[2] <= target[1] * Negatives(t)}
<1>1. target[1] \in Nat /\ target[2] \in Nat
  BY EvalAssumption
<1>2. Above \in Nat /\ Alarms(t, Above) = 0
  BY NoneAbove
<1>3. target[1] * Negatives(t) \in Nat /\ 0 * target[2] = 0
  <2>1. Negatives(t) \in Nat
    BY <1>2, CountsAre
  <2> QED BY <1>1, <2>1
<1>4. Point(t, Above) \in Q
  <2>1. Point(t, Above).fp = 0 /\ Point(t, Above) \in RocCurve(t)
    BY <1>2, CurveIs DEF Point
  <2> QED BY <1>3, <2>1
<1>5. \A pt \in Q : pt.thr \in Nat
  BY CurveIs
<1>6. OpAtFpr(t, target) = LowestOf(Q)
  BY DEF OpAtFpr
<1>7. \A pt \in Q : pt \in RocCurve(t)
  OBVIOUS
<1> HIDE DEF Q
<1>8. LowestOf(Q) \in Q
  BY <1>4, <1>5, LowestIs
<1> QED BY <1>6, <1>7, <1>8

LEMMA PopulationIs ==
  ASSUME NEW t, Graded(t), NEW w, Weighs(w)
  PROVE  LET all == Population(t, w)
         IN  /\ Positives(all) = Positives(t) * w[2] /\ Negatives(all) = Negatives(t) * w[1]
             /\ Positives(t) \in Nat /\ Negatives(t) \in Nat
             /\ w[1] \in Nat \ {0} /\ w[2] \in Nat \ {0}
<1>1. 0 \in Nat
  OBVIOUS
<1>2. Positives(t) \in Nat /\ Negatives(t) \in Nat
  BY <1>1, CountsAre
<1>3. LET all == Population(t, w)
      IN  Positives(all) = Positives(t) * w[2] /\ Negatives(all) = Negatives(t) * w[1]
  BY <1>1, PopulationCounts
<1> QED BY <1>2, <1>3 DEF Weighs

LEMMA PopulationBase ==
  ASSUME NEW t, Graded(t), NEW w, Weighs(w)
  PROVE  BaseRate(Population(t, w), Whole) = BaseRate(t, w)
<1> DEFINE all == Population(t, w)
           p == Positives(t) * w[2]
           n == Negatives(t) * w[1]
<1>1. Positives(all) = p /\ Negatives(all) = n /\ p \in Nat /\ n \in Nat
  BY PopulationIs
<1> HIDE DEF all, p, n
<1>2. BaseRate(all, Whole) = <<p, p + n>>
  BY <1>1 DEF BaseRate, Whole
<1> QED BY <1>2 DEF BaseRate, all, p, n

LEMMA PopulationPrecision ==
  ASSUME NEW w, Weighs(w), NEW pt, pt.tp \in Nat, pt.fp \in Nat
  PROVE  Precision(Scaled(pt, w), Whole) = Precision(pt, w)
<1> DEFINE a == pt.tp * w[2]
           b == pt.fp * w[1]
<1>1. w[1] \in Nat \ {0} /\ w[2] \in Nat \ {0}
  BY DEF Weighs
<1>2. a \in Nat /\ b \in Nat
  BY <1>1
<1>3. (a = 0 <=> pt.tp = 0) /\ (b = 0 <=> pt.fp = 0)
  <2>1. 0 * w[2] = 0 /\ 0 * w[1] = 0
    BY <1>1
  <2>2. pt.tp * w[2] = 0 * w[2] <=> pt.tp = 0
    BY <1>1, Cancel
  <2>3. pt.fp * w[1] = 0 * w[1] <=> pt.fp = 0
    BY <1>1, Cancel
  <2> QED BY <2>1, <2>2, <2>3
<1>4. Scaled(pt, w).tp = a /\ Scaled(pt, w).fp = b
  BY DEF Scaled
<1>5. Precision(pt, w) = IF pt.tp + pt.fp = 0 THEN <<1, 1>> ELSE <<a, a + b>>
  BY DEF Precision
<1> HIDE DEF a, b
<1>6. a + b = 0 <=> pt.tp + pt.fp = 0
  BY <1>2, <1>3
<1>7. Precision(Scaled(pt, w), Whole) = IF a + b = 0 THEN <<1, 1>> ELSE <<a, a + b>>
  BY <1>2, <1>4 DEF Precision, Whole
<1> QED BY <1>5, <1>6, <1>7

(* An entry of operating_points, of the sample and of the population. *)
LEMMA PopulationOperatingPoint ==
  ASSUME NEW t, Graded(t), NEW w, Weighs(w), NEW target \in Targets
  PROVE  LET o == OperatingPoint(t, w, target)
             p == OperatingPoint(Population(t, w), Whole, target)
         IN  /\ o.thr = p.thr /\ o.precision = p.precision /\ o.lift = p.lift
             /\ o.confusion = p.confusion
             /\ Same(o.recall, p.recall) /\ Same(o.fpr, p.fpr)
<1> DEFINE all == Population(t, w)
           pt == OpAtFpr(t, target)
           sp == OpAtFpr(all, target)
           P == Positives(t)
           N == Negatives(t)
           o == OperatingPoint(t, w, target)
           p == OperatingPoint(all, Whole, target)
<1>1. sp = Scaled(pt, w)
  BY PopulationOpAtFpr
<1>2. pt.tp \in Nat /\ pt.fp \in Nat /\ pt.tp <= P /\ pt.fp <= N /\ P \in Nat /\ N \in Nat
  <2>1. /\ pt.tp = Caught(t, pt.thr) /\ pt.fp = Alarms(t, pt.thr) /\ pt.thr \in Nat
    <3>1. pt \in RocCurve(t)
      BY OpIsOnCurve
    <3> QED BY <3>1, CurveIs
  <2> QED BY <2>1, CountsAre
<1>3. /\ Positives(all) = P * w[2] /\ Negatives(all) = N * w[1]
      /\ w[1] \in Nat \ {0} /\ w[2] \in Nat \ {0}
  BY PopulationIs
<1>4. sp.thr = pt.thr /\ sp.tp = pt.tp * w[2] /\ sp.fp = pt.fp * w[1]
  BY <1>1 DEF Scaled
<1>5. /\ o.thr = pt.thr /\ o.recall = <<pt.tp, P>> /\ o.fpr = <<pt.fp, N>>
      /\ o.precision = Precision(pt, w)
      /\ o.lift = <<Precision(pt, w)[1] * BaseRate(t, w)[2], Precision(pt, w)[2] * BaseRate(t, w)[1]>>
      /\ o.confusion = <<pt.tp * w[2], (P - pt.tp) * w[2], pt.fp * w[1], (N - pt.fp) * w[1]>>
  BY DEF OperatingPoint
<1>6. /\ p.thr = sp.thr /\ p.recall = <<sp.tp, Positives(all)>> /\ p.fpr = <<sp.fp, Negatives(all)>>
      /\ p.precision = Precision(sp, Whole)
      /\ p.lift = <<Precision(sp, Whole)[1] * BaseRate(all, Whole)[2],
                    Precision(sp, Whole)[2] * BaseRate(all, Whole)[1]>>
      /\ p.confusion = <<sp.tp * Whole[2], (Positives(all) - sp.tp) * Whole[2],
                         sp.fp * Whole[1], (Negatives(all) - sp.fp) * Whole[1]>>
  BY DEF OperatingPoint
<1>7. Precision(sp, Whole) = Precision(pt, w)
  BY <1>1, <1>2, PopulationPrecision
<1>8. BaseRate(all, Whole) = BaseRate(t, w)
  BY PopulationBase
<1> HIDE DEF all, pt, sp, P, N, o, p
<1>9. o.confusion = p.confusion
  <2>1. Whole[1] = 1 /\ Whole[2] = 1
    BY DEF Whole
  <2>2. \A x, y \in Nat, k \in Nat : (x - y) * k = (x * k - y * k) * 1 /\ x * k = (x * k) * 1
    OBVIOUS
  <2>3. /\ (P - pt.tp) * w[2] = (P * w[2] - pt.tp * w[2]) * 1 /\ pt.tp * w[2] = (pt.tp * w[2]) * 1
        /\ (N - pt.fp) * w[1] = (N * w[1] - pt.fp * w[1]) * 1 /\ pt.fp * w[1] = (pt.fp * w[1]) * 1
    BY <1>2, <1>3, <2>2
  <2> QED BY <1>3, <1>4, <1>5, <1>6, <2>1, <2>3
<1>10. Same(o.recall, p.recall) /\ Same(o.fpr, p.fpr)
  <2>1. \A x, y \in Nat, k \in Nat : x * (y * k) = (x * k) * y
    OBVIOUS
  <2>2. pt.tp * (P * w[2]) = (pt.tp * w[2]) * P /\ pt.fp * (N * w[1]) = (pt.fp * w[1]) * N
    BY <1>2, <1>3, <2>1
  <2>3. p.recall = <<pt.tp * w[2], P * w[2]>> /\ p.fpr = <<pt.fp * w[1], N * w[1]>>
    BY <1>3, <1>4, <1>6
  <2> QED BY <1>5, <2>2, <2>3 DEF Same
<1>11. o.thr = p.thr /\ o.precision = p.precision /\ o.lift = p.lift
  BY <1>4, <1>5, <1>6, <1>7, <1>8
<1> QED BY <1>9, <1>10, <1>11 DEF o, p, all

LEMMA PopulationSteps ==
  ASSUME NEW t, Graded(t), NEW w, Weighs(w)
  PROVE  SameSteps(AveragePrecision(t, w), AveragePrecision(Population(t, w), Whole))
<1> DEFINE all == Population(t, w)
           pts == Points(t)
           new == Points(all)
           P == Positives(t)
           a == AveragePrecision(t, w)
           b == AveragePrecision(all, Whole)
<1>1. DOMAIN new = DOMAIN pts /\ \A j \in DOMAIN pts : new[j] = Scaled(pts[j], w)
  BY PopulationPoints
<1>2. DOMAIN pts = 1 .. Len(pts) /\ Len(pts) \in Nat
  BY PointsAre
<1>3. \A j \in DOMAIN pts : pts[j].tp \in Nat /\ pts[j].fp \in Nat
  BY PointFields
<1>4. Positives(all) = P * w[2] /\ P \in Nat /\ w[2] \in Nat
  BY PopulationIs
<1>5. a = [j \in DOMAIN pts |-> <<<<Gained(pts, j), P>>, Precision(pts[j], w)>>]
  BY DEF AveragePrecision
<1>6. b = [j \in DOMAIN new |-> <<<<Gained(new, j), Positives(all)>>, Precision(new[j], Whole)>>]
  BY DEF AveragePrecision
<1> HIDE DEF all, pts, new, P, a, b
<1>7. ASSUME NEW j \in DOMAIN pts
      PROVE  Gained(pts, j) \in Int /\ Gained(new, j) = Gained(pts, j) * w[2]
  <2>1. \A i \in DOMAIN pts : new[i].tp = pts[i].tp * w[2]
    BY <1>1 DEF Scaled
  <2>2. CASE j = 1
    BY <1>3, <2>1, <2>2 DEF Gained
  <2>3. CASE j # 1
    <3>1. j - 1 \in DOMAIN pts
      BY <1>2, <2>3
    <3>2. /\ Gained(pts, j) = pts[j].tp - pts[j - 1].tp
          /\ Gained(new, j) = pts[j].tp * w[2] - pts[j - 1].tp * w[2]
      BY <2>1, <2>3, <3>1 DEF Gained
    <3>3. \A x, y, k \in Nat : x * k - y * k = (x - y) * k /\ x - y \in Int
      OBVIOUS
    <3>4. pts[j].tp \in Nat /\ pts[j - 1].tp \in Nat
      BY <1>3, <3>1
    <3> QED BY <1>4, <3>2, <3>3, <3>4
  <2> QED BY <2>2, <2>3
<1>8. ASSUME NEW j \in DOMAIN pts
      PROVE  Same(a[j][1], b[j][1]) /\ Same(a[j][2], b[j][2])
  <2>1. a[j][1] = <<Gained(pts, j), P>> /\ a[j][2] = Precision(pts[j], w)
    BY <1>5
  <2>2. b[j][1] = <<Gained(pts, j) * w[2], P * w[2]>> /\ b[j][2] = Precision(new[j], Whole)
    BY <1>1, <1>4, <1>6, <1>7
  <2>3. Precision(new[j], Whole) = Precision(pts[j], w)
    BY <1>1, <1>3, PopulationPrecision
  <2>4. \A x \in Int, y, k \in Nat : x * (y * k) = (x * k) * y
    OBVIOUS
  <2>5. Gained(pts, j) * (P * w[2]) = (Gained(pts, j) * w[2]) * P
    BY <1>4, <1>7, <2>4
  <2> QED BY <2>1, <2>2, <2>3, <2>5 DEF Same
<1>9. DOMAIN a = DOMAIN b /\ DOMAIN a = DOMAIN pts
  BY <1>1, <1>5, <1>6
<1>10. SameSteps(a, b)
  BY <1>8, <1>9 DEF SameSteps
<1> QED BY <1>10 DEF a, b, all

LEMMA PopulationKS ==
  ASSUME NEW t, Graded(t), NEW w, Weighs(w)
  PROVE  Same(KS(t), KS(Population(t, w)))
<1> DEFINE all == Population(t, w)
           P == Positives(t)
           N == Negatives(t)
           k == w[1] * w[2]
           seps == {Separation(t, pt) : pt \in RocCurve(t)}
           news == {Separation(all, pt) : pt \in RocCurve(all)}
<1>1. /\ Positives(all) = P * w[2] /\ Negatives(all) = N * w[1] /\ P \in Nat /\ N \in Nat
      /\ w[1] \in Nat \ {0} /\ w[2] \in Nat \ {0}
  BY PopulationIs
<1>2. RocCurve(all) = {Scaled(pt, w) : pt \in RocCurve(t)}
  BY PopulationCurve
<1>3. k \in Nat \ {0}
  BY <1>1
<1>4. ASSUME NEW pt \in RocCurve(t)
      PROVE  /\ Separation(all, Scaled(pt, w)) = Separation(t, pt) * k
             /\ Separation(t, pt) \in Int /\ Separation(t, pt) <= P * N
  <2>1. pt.tp \in Nat /\ pt.fp \in Nat
    BY CurveFields
  <2>2. Separation(all, Scaled(pt, w)) = (pt.tp * w[2]) * (N * w[1]) - (pt.fp * w[1]) * (P * w[2])
    BY <1>1 DEF Separation, Scaled
  <2>3. Separation(t, pt) = pt.tp * N - pt.fp * P
    BY DEF Separation
  <2>4. \A x, y, p, n, u, v \in Nat : (x * v) * (n * u) - (y * u) * (p * v) = (x * n - y * p) * (u * v)
    OBVIOUS
  <2>5. Separation(t, pt) \in Int /\ Separation(t, pt) <= P * N
    BY CurveIs, SeparationIs
  <2> HIDE DEF P, N
  <2> QED BY <1>1, <2>1, <2>2, <2>3, <2>4, <2>5
<1>5. RocCurve(t) # {}
  BY CurveIs
<1>6. seps \in SUBSET Int /\ seps # {} /\ \A x \in seps : x <= P * N
  BY <1>4, <1>5
<1>7. news = {x * k : x \in seps}
  BY <1>2, <1>4
<1>8. KS(t) = <<Max(seps), P * N>> /\ KS(all) = <<Max(news), (P * w[2]) * (N * w[1])>>
  BY <1>1 DEF KS
<1>9. P * N \in Int
  BY <1>1
<1> HIDE DEF all, seps, news, P, N, k
<1>10. Max(seps) \in seps /\ \A x \in seps : x <= Max(seps)
  BY <1>6, <1>9, LargestOf
<1> DEFINE m == Max(seps)
<1>11. m \in Int
  BY <1>6, <1>10
<1>12. \A x \in seps : x \in Int /\ x * k \in Int /\ x * k <= m * k
  <2> SUFFICES ASSUME NEW x \in seps PROVE x \in Int /\ x * k \in Int /\ x * k <= m * k
    OBVIOUS
  <2>1. x \in Int /\ x <= m
    BY <1>6, <1>10
  <2> HIDE DEF m
  <2>2. x * k <= m * k
    BY <1>3, <1>11, <2>1, Cancel
  <2> QED BY <1>3, <2>1, <2>2
<1>13. m * k \in Int
  BY <1>3, <1>11
<1> HIDE DEF m
<1>14. Max(news) \in news /\ \A x \in news : x <= Max(news)
  <2>1. news \in SUBSET Int /\ news # {} /\ \A x \in news : x <= m * k
    BY <1>6, <1>7, <1>12
  <2> QED BY <1>13, <2>1, LargestOf
<1>15. Max(news) = m * k
  <2>1. m * k \in news
    BY <1>7, <1>10 DEF m
  <2>2. m * k <= Max(news)
    BY <1>14, <2>1
  <2>3. Max(news) <= m * k /\ Max(news) \in Int
    BY <1>7, <1>12, <1>14
  <2> QED BY <1>13, <2>2, <2>3
<1>16. m * ((P * w[2]) * (N * w[1])) = (m * k) * (P * N)
  <2>1. \A x \in Int, p, n, u, v \in Nat : x * ((p * v) * (n * u)) = (x * (u * v)) * (p * n)
    OBVIOUS
  <2>2. P \in Nat /\ N \in Nat /\ w[1] \in Nat /\ w[2] \in Nat
    BY <1>1
  <2> QED BY <1>11, <2>1, <2>2 DEF k
<1>17. Same(KS(t), KS(all))
  BY <1>8, <1>15, <1>16 DEF Same, m
<1> QED BY <1>17 DEF all

(* A sum over the population is one over the table, each row times what it *)
(* stands for.                                                             *)
LEMMA SumOfCopies ==
  ASSUME NEW t, Graded(t), NEW w, Weighs(w), NEW f, NEW g, NEW h,
         \A i \in DOMAIN t : f[i] \in Int /\ h[i] = Weight(t[i], w) * f[i],
         \A c \in CopiesOf(t, w) : g[c] = f[c[1]]
  PROVE  Sum(g, CopiesOf(t, w)) = Sum(h, DOMAIN t)
<1> DEFINE S == DOMAIN t
           D == CopiesOf(t, w)
           Over(s) == {c \in D : c[1] \in s}
           good == {s \in SUBSET S : Sum(g, Over(s)) = Sum(h, s)}
<1>1. IsFiniteSet(S) /\ IsFiniteSet(D)
  BY PopulationIsGraded DEF Graded
<1>2. \A c \in D : c = <<c[1], c[2]>> /\ c[1] \in S /\ c[2] \in 1 .. Weight(t[c[1]], w) /\ g[c] \in Int
  BY CopiesAre
<1>3. \A i \in S : Weight(t[i], w) \in Nat /\ h[i] \in Int
  BY WeightIs
<1>4. ASSUME NEW s \in SUBSET S,
             \A u \in SUBSET S : Cardinality(u) < Cardinality(s) => u \in good
      PROVE  s \in good
  <2>1. CASE s = {}
    <3>1. Over(s) = {}
      BY <2>1
    <3>2. Sum(g, Over(s)) = 0 /\ Sum(h, s) = 0
      BY <2>1, <3>1, SumEmpty
    <3> QED BY <3>2
  <2>2. CASE s # {}
    <3> DEFINE x == Chosen(s)
               u == s \ {x}
               X == {c \in D : c[1] \in {x}}
               k == Weight(t[x], w)
    <3>1. x \in s /\ x \in S /\ IsFiniteSet(s)
      BY <1>1, <2>2, ChosenIn, Parts
    <3>2. u \in SUBSET S /\ Cardinality(u) < Cardinality(s)
      <4>1. u \in SUBSET S /\ Cardinality(u) = Cardinality(s) - 1 /\ Cardinality(s) \in Nat
        BY <1>1, <3>1, Parts
      <4> QED BY <4>1
    <3> HIDE DEF x
    <3>3. Sum(g, Over(u)) = Sum(h, u)
      BY <1>4, <3>2
    <3>4. X \in SUBSET Over(s) /\ Over(s) \ X = Over(u) /\ Over(s) \in SUBSET D
      BY <3>1
    <3>5. IsFiniteSet(Over(s)) /\ IsFiniteSet(X)
      BY <1>1, <3>4, FS_Subset
    <3>6. Cardinality(X) = k
      <4>1. {x} \in SUBSET DOMAIN t /\ k \in Nat /\ \A i \in {x} : Weight(t[i], w) = k
        BY <1>3, <3>1
      <4>2. Cardinality(X) = Cardinality({x}) * k
        <5> HIDE DEF k
        <5> QED BY <4>1, CopiesCount
      <4>3. Cardinality({x}) = 1
        BY FS_Singleton
      <4> QED BY <4>1, <4>2, <4>3
    <3>7. Sum(g, X) = k * f[x]
      <4>1. \A c \in X : g[c] = f[x]
        BY <1>2
      <4>2. f[x] \in Int
        BY <3>1
      <4> HIDE DEF X
      <4> QED BY <3>5, <3>6, <4>1, <4>2, SumConstant
    <3>8. Sum(g, Over(s)) = Sum(g, X) + Sum(g, Over(u))
      <4>1. \A c \in Over(s) : g[c] \in Int
        BY <1>2
      <4> DEFINE B == Over(s)
      <4>2. IsFiniteSet(B) /\ X \in SUBSET B /\ (\A c \in B : g[c] \in Int) /\ B \ X = Over(u)
        BY <3>4, <3>5, <4>1
      <4> HIDE DEF B, X
      <4>3. Sum(g, B) = Sum(g, X) + Sum(g, B \ X)
        BY <4>2, SumSplit
      <4> QED BY <4>2, <4>3 DEF B
    <3>9. Sum(h, s) = h[x] + Sum(h, u)
      BY <1>3, <3>1, SumTake
    <3>10. h[x] = k * f[x]
      BY <3>1
    <3> QED BY <3>3, <3>7, <3>8, <3>9, <3>10
  <2> QED BY <2>1, <2>2
<1> HIDE DEF good
<1>5. S \in good
  <2>1. \A s \in SUBSET S : s \in good
    BY <1>1, <1>4, PartsInduction
  <2> QED BY <2>1
<1>6. Over(S) = D
  BY <1>2
<1> QED BY <1>5, <1>6 DEF good

LEMMA SumOverIs == ASSUME NEW f PROVE SumOver(f) = Sum(f, DOMAIN f)
BY DEF SumOver, Sum

LEMMA PopulationTotal ==
  ASSUME NEW t, Graded(t), NEW w, Weighs(w)
  PROVE  TotalWeight(Population(t, w), Whole) = TotalWeight(t, w)
<1> DEFINE all == Population(t, w)
           f == [i \in DOMAIN t |-> 1]
           h == [i \in DOMAIN t |-> Weight(t[i], w)]
           g == [c \in DOMAIN all |-> Weight(all[c], Whole)]
<1>1. DOMAIN all = CopiesOf(t, w) /\ \A c \in CopiesOf(t, w) : all[c] = t[c[1]] /\ c[1] \in DOMAIN t
  BY CopiesAre
<1>2. \A i \in DOMAIN t : Weight(t[i], Whole) = 1 /\ Weight(t[i], w) \in Nat
  BY WeightIs
<1>3. \A i \in DOMAIN t : f[i] \in Int /\ h[i] = Weight(t[i], w) * f[i]
  BY <1>2
<1>4. \A c \in CopiesOf(t, w) : g[c] = f[c[1]]
  <2> HIDE DEF all
  <2> QED BY <1>1, <1>2
<1>5. TotalWeight(all, Whole) = Sum(g, DOMAIN g) /\ DOMAIN g = CopiesOf(t, w)
  <2>1. TotalWeight(all, Whole) = SumOver(g)
    BY DEF TotalWeight
  <2> HIDE DEF all
  <2> QED BY <1>1, <2>1, SumOverIs
<1>6. TotalWeight(t, w) = Sum(h, DOMAIN h) /\ DOMAIN h = DOMAIN t
  <2>1. TotalWeight(t, w) = SumOver(h)
    BY DEF TotalWeight
  <2> QED BY <2>1, SumOverIs
<1> HIDE DEF all, f, g, h
<1>7. Sum(g, CopiesOf(t, w)) = Sum(h, DOMAIN t)
  BY <1>3, <1>4, SumOfCopies
<1> QED BY <1>5, <1>6, <1>7 DEF all

LEMMA PopulationBrier ==
  ASSUME NEW t, Graded(t), NEW w, Weighs(w)
  PROVE  Brier(Population(t, w), Whole) = Brier(t, w)
<1> DEFINE all == Population(t, w)
           f == [i \in DOMAIN t |-> Deviation2(t[i])]
           h == [i \in DOMAIN t |-> Weight(t[i], w) * Deviation2(t[i])]
           g == [c \in DOMAIN all |-> Weight(all[c], Whole) * Deviation2(all[c])]
<1>1. DOMAIN all = CopiesOf(t, w) /\ \A c \in CopiesOf(t, w) : all[c] = t[c[1]] /\ c[1] \in DOMAIN t
  BY CopiesAre
<1>2. \A i \in DOMAIN t : Weight(t[i], Whole) = 1 /\ Deviation2(t[i]) \in Int
  <2>1. Top \in Nat
    BY EvalAssumption
  <2>2. \A i \in DOMAIN t : t[i].s \in Nat /\ t[i].y \in Nat
    BY DEF Graded
  <2>3. \A x, y \in Nat : (x - y * Top) * (x - y * Top) \in Int
    BY <2>1
  <2> QED BY <2>2, <2>3, WeightIs DEF Deviation2
<1>3. \A i \in DOMAIN t : f[i] \in Int /\ h[i] = Weight(t[i], w) * f[i]
  BY <1>2
<1>4. \A c \in CopiesOf(t, w) : g[c] = f[c[1]]
  <2> HIDE DEF all
  <2>1. \A x \in Int : 1 * x = x
    OBVIOUS
  <2> QED BY <1>1, <1>2, <2>1
<1>5. SumOver(g) = Sum(g, CopiesOf(t, w)) /\ SumOver(h) = Sum(h, DOMAIN t)
  <2> HIDE DEF all
  <2> QED BY <1>1, SumOverIs
<1>6. /\ Brier(all, Whole) = <<SumOver(g), TotalWeight(all, Whole) * Top * Top>>
      /\ Brier(t, w) = <<SumOver(h), TotalWeight(t, w) * Top * Top>>
  BY DEF Brier
<1>7. TotalWeight(all, Whole) = TotalWeight(t, w)
  BY PopulationTotal
<1> HIDE DEF all, f, g, h
<1>8. Sum(g, CopiesOf(t, w)) = Sum(h, DOMAIN t)
  BY <1>3, <1>4, SumOfCopies
<1> QED BY <1>5, <1>6, <1>7, <1>8 DEF all

LEMMA BeatenIs ==
  ASSUME NEW t, Graded(t), NEW w, Weighs(w), NEW s \in Nat
  PROVE  /\ Beaten(t, s) \in Int
         /\ Beaten(Population(t, w), s) = Beaten(t, s) * w[1]
<1> DEFINE all == Population(t, w)
           n == Negatives(t)
           a == Alarms(t, s)
           b == Alarms(t, s + 1)
<1>1. s + 1 \in Nat
  OBVIOUS
<1>2. n \in Nat /\ a \in Nat /\ b \in Nat
  BY <1>1, CountsAre
<1>3. Negatives(all) = n * w[1] /\ Alarms(all, s) = a * w[1] /\ Alarms(all, s + 1) = b * w[1]
  BY <1>1, PopulationCounts
<1>4. w[1] \in Nat
  BY DEF Weighs
<1>5. Beaten(t, s) = 2 * n - a - b /\ Beaten(all, s) = 2 * (n * w[1]) - a * w[1] - b * w[1]
  <2> HIDE DEF all
  <2> QED BY <1>3 DEF Beaten
<1> HIDE DEF n, a, b, all
<1>6. \A x, y, z, k \in Nat : 2 * (x * k) - y * k - z * k = (2 * x - y - z) * k /\ 2 * x - y - z \in Int
  OBVIOUS
<1> QED BY <1>2, <1>4, <1>5, <1>6 DEF all

LEMMA PopulationAuc ==
  ASSUME NEW t, Graded(t), NEW w, Weighs(w)
  PROVE  Same(RocAuc(t), RocAuc(Population(t, w)))
<1> DEFINE all == Population(t, w)
           e == [i \in DOMAIN t |-> t[i].y * Beaten(t, t[i].s)]
           f == [i \in DOMAIN t |-> t[i].y * Beaten(all, t[i].s)]
           h == [i \in DOMAIN t |-> Weight(t[i], w) * f[i]]
           g == [c \in DOMAIN all |-> all[c].y * Beaten(all, all[c].s)]
           P == Positives(t)
           N == Negatives(t)
           k == w[1] * w[2]
<1>1. DOMAIN all = CopiesOf(t, w) /\ \A c \in CopiesOf(t, w) : all[c] = t[c[1]] /\ c[1] \in DOMAIN t
  BY CopiesAre
<1>2. /\ Positives(all) = P * w[2] /\ Negatives(all) = N * w[1] /\ P \in Nat /\ N \in Nat
      /\ w[1] \in Nat \ {0} /\ w[2] \in Nat \ {0}
  BY PopulationIs
<1>3. k \in Int
  BY <1>2
<1>4. \A i \in DOMAIN t : /\ t[i].y \in {0, 1} /\ Beaten(t, t[i].s) \in Int
                          /\ Beaten(all, t[i].s) = Beaten(t, t[i].s) * w[1]
  BY BeatenIs DEF Graded
<1> HIDE DEF all
<1>5. ASSUME NEW i \in DOMAIN t PROVE e[i] \in Int /\ f[i] \in Int /\ h[i] = e[i] * k
  <2>1. CASE t[i].y = 0
    <3>1. e[i] = 0 /\ f[i] = 0
      BY <1>2, <1>4, <2>1
    <3>2. Weight(t[i], w) \in Int
      BY WeightIs
    <3>3. h[i] = Weight(t[i], w) * f[i]
      OBVIOUS
    <3> HIDE DEF e, f, h
    <3> QED BY <1>3, <3>1, <3>2, <3>3
  <2>2. CASE t[i].y = 1
    <3>1. e[i] = Beaten(t, t[i].s) /\ f[i] = Beaten(t, t[i].s) * w[1] /\ e[i] \in Int /\ f[i] \in Int
      BY <1>2, <1>4, <2>2
    <3>2. Weight(t[i], w) = w[2] /\ h[i] = Weight(t[i], w) * f[i]
      BY <2>2, WeightIs
    <3> HIDE DEF e, f, h
    <3>3. \A x \in Int, u, v \in Nat : v * (x * u) = x * (u * v)
      OBVIOUS
    <3> QED BY <1>2, <3>1, <3>2, <3>3
  <2> QED BY <1>4, <2>1, <2>2
<1>6. \A c \in CopiesOf(t, w) : g[c] = f[c[1]]
  BY <1>1
<1>7. /\ RocAuc(t) = <<Sum(e, DOMAIN t), 2 * P * N>>
      /\ RocAuc(all) = <<Sum(g, CopiesOf(t, w)), 2 * Positives(all) * Negatives(all)>>
  <2>1. SumOver(e) = Sum(e, DOMAIN t) /\ SumOver(g) = Sum(g, CopiesOf(t, w))
    BY <1>1, SumOverIs
  <2> QED BY <2>1 DEF RocAuc
<1>8. \A i \in DOMAIN t : h[i] = Weight(t[i], w) * f[i]
  OBVIOUS
<1> HIDE DEF e, f, g, h
<1>9. Sum(g, CopiesOf(t, w)) = Sum(h, DOMAIN t)
  BY <1>5, <1>6, <1>8, SumOfCopies
<1>10. IsFiniteSet(DOMAIN t)
  BY DEF Graded
<1>11. Sum(h, DOMAIN t) = Sum(e, DOMAIN t) * k /\ Sum(e, DOMAIN t) \in Int
  BY <1>3, <1>5, <1>10, SumTimes, SumIsInt
<1> DEFINE S == Sum(e, DOMAIN t)
<1> HIDE DEF S, P, N
<1>12. \A x \in Int, p, n, u, v \in Nat : x * (2 * (p * v) * (n * u)) = (x * (u * v)) * (2 * p * n)
  OBVIOUS
<1>13. S * (2 * (P * w[2]) * (N * w[1])) = (S * k) * (2 * P * N)
  BY <1>2, <1>11, <1>12 DEF S
<1>14. Same(RocAuc(t), RocAuc(all))
  BY <1>2, <1>7, <1>9, <1>11, <1>13 DEF S, Same
<1> QED BY <1>14 DEF all

(* What a calibration bin holds of the population and of the table. *)
LEMMA PopulationBin ==
  ASSUME NEW t, Graded(t), NEW w, Weighs(w), NEW b, NEW x, NEW z,
         \A i \in DOMAIN t : x[i] \in Int, \A c \in CopiesOf(t, w) : z[c] = x[c[1]]
  PROVE  InBin(Population(t, w), Whole, b, z) = InBin(t, w, b, x)
<1> DEFINE all == Population(t, w)
           f == [i \in DOMAIN t |-> IF BinOf(t[i].s) = b THEN x[i] ELSE 0]
           h == [i \in DOMAIN t |-> IF BinOf(t[i].s) = b THEN Weight(t[i], w) * x[i] ELSE 0]
           g == [c \in DOMAIN all |-> IF BinOf(all[c].s) = b THEN Weight(all[c], Whole) * z[c] ELSE 0]
<1>1. DOMAIN all = CopiesOf(t, w) /\ \A c \in CopiesOf(t, w) : all[c] = t[c[1]] /\ c[1] \in DOMAIN t
  BY CopiesAre
<1>2. \A i \in DOMAIN t : Weight(t[i], Whole) = 1 /\ Weight(t[i], w) \in Nat
  BY WeightIs
<1>3. \A i \in DOMAIN t : f[i] \in Int /\ h[i] = Weight(t[i], w) * f[i]
  BY <1>2
<1> HIDE DEF all
<1>4. \A c \in CopiesOf(t, w) : g[c] = f[c[1]]
  BY <1>1, <1>2
<1>5. SumOver(g) = Sum(g, CopiesOf(t, w)) /\ SumOver(h) = Sum(h, DOMAIN t)
  BY <1>1, SumOverIs
<1>6. InBin(all, Whole, b, z) = SumOver(g) /\ InBin(t, w, b, x) = SumOver(h)
  BY DEF InBin
<1> HIDE DEF f, g, h
<1>7. Sum(g, CopiesOf(t, w)) = Sum(h, DOMAIN t)
  BY <1>3, <1>4, SumOfCopies
<1> QED BY <1>5, <1>6, <1>7 DEF all

LEMMA PopulationECE ==
  ASSUME NEW t, Graded(t), NEW w, Weighs(w)
  PROVE  ECE(Population(t, w), Whole) = ECE(t, w)
<1> DEFINE all == Population(t, w)
           x == [i \in DOMAIN t |-> t[i].y * Top]
           y == [i \in DOMAIN t |-> t[i].s]
           u == [c \in DOMAIN all |-> all[c].y * Top]
           v == [c \in DOMAIN all |-> all[c].s]
<1>1. DOMAIN all = CopiesOf(t, w) /\ \A c \in CopiesOf(t, w) : all[c] = t[c[1]] /\ c[1] \in DOMAIN t
  BY CopiesAre
<1>2. \A i \in DOMAIN t : x[i] \in Int /\ y[i] \in Int
  BY EvalAssumption DEF Graded
<1> HIDE DEF all
<1>3. \A c \in CopiesOf(t, w) : u[c] = x[c[1]] /\ v[c] = y[c[1]]
  BY <1>1
<1>4. ASSUME NEW b \in 0 .. Bins - 1 PROVE Miscalibrated(all, Whole, b) = Miscalibrated(t, w, b)
  <2>1. /\ Miscalibrated(all, Whole, b) = Gap(InBin(all, Whole, b, u), InBin(all, Whole, b, v))
        /\ Miscalibrated(t, w, b) = Gap(InBin(t, w, b, x), InBin(t, w, b, y))
    BY DEF Miscalibrated
  <2> HIDE DEF x, y, u, v
  <2>2. InBin(all, Whole, b, u) = InBin(t, w, b, x)
    BY <1>2, <1>3, PopulationBin DEF all
  <2>3. InBin(all, Whole, b, v) = InBin(t, w, b, y)
    BY <1>2, <1>3, PopulationBin DEF all
  <2> QED BY <2>1, <2>2, <2>3
<1>5. [b \in 0 .. Bins - 1 |-> Miscalibrated(all, Whole, b)] = [b \in 0 .. Bins - 1 |-> Miscalibrated(t, w, b)]
  BY <1>4
<1>6. TotalWeight(all, Whole) = TotalWeight(t, w)
  BY PopulationTotal DEF all
<1>7. ECE(all, Whole) = ECE(t, w)
  BY <1>5, <1>6 DEF ECE
<1> QED BY <1>7 DEF all

(* What a report says of its table, with the weight it gives its rows. *)
PointsStated(r) ==
  \A target \in Targets :
    LET o == r.ops[target]
        p == OperatingPoint(r.of, r.weight, target)
    IN  /\ o.thr = p.thr /\ o.recall = p.recall /\ o.fpr = p.fpr
        /\ o.precision = p.precision /\ o.lift = p.lift
        /\ r.by \in {"full_suite", "bootstrap"} => o.confusion = p.confusion

Stated(r) ==
  /\ Graded(r.of) /\ Weighs(r.weight)
  /\ "ops" \in DOMAIN r => PointsStated(r)
  /\ "auc" \in DOMAIN r => r.auc = RocAuc(r.of)
  /\ "ap" \in DOMAIN r => r.ap = AveragePrecision(r.of, r.weight)
  /\ "recall" \in DOMAIN r => \A target \in Targets :
       r.recall[target] = OperatingPoint(r.of, r.weight, target).recall
  /\ "free" \in DOMAIN r => r.free = ThresholdFree(r.of, r.weight) /\ r.base = BaseRate(r.of, r.weight)
  /\ "calibration" \in DOMAIN r =>
       r.calibration \in {<<>>, <<Brier(r.of, r.weight), ECE(r.of, r.weight)>>}

Resampled(r, t, w) ==
  r.by = "bootstrap" => Same(<<Negatives(r.of) * r.weight[1], r.weight[2]>>, <<Negatives(t) * w[1], w[2]>>)

StatedInv == EvalInv /\ (report # NoReport => Stated(report)) /\ Resampled(report, table, rate)

LEMMA StatedOfPopulation == StatedInv => PopulationMetrics
<1> SUFFICES ASSUME StatedInv PROVE PopulationMetrics
  OBVIOUS
<1>1. CASE report = NoReport
  <2>1. DOMAIN report = {"by"} /\ report.by = "nobody"
    BY <1>1 DEF NoReport
  <2> QED BY <2>1 DEF PopulationMetrics, Has
<1>2. CASE report # NoReport
  <2> DEFINE t == report.of
             w == report.weight
             all == Population(t, w)
  <2>1. Stated(report) /\ Graded(t) /\ Weighs(w)
    BY <1>2 DEF StatedInv, Stated
  <2> HIDE DEF all
  <2>2. ASSUME Has("ops"), NEW target \in Targets
        PROVE  LET o == report.ops[target]
                   p == OperatingPoint(all, Whole, target)
               IN  /\ o.thr = p.thr
                   /\ \A ratio \in {"recall", "fpr", "precision", "lift"} : Same(o[ratio], p[ratio])
                   /\ report.by \in {"full_suite", "bootstrap"} => o.confusion = p.confusion
    <3> DEFINE o == report.ops[target]
               m == OperatingPoint(t, w, target)
               p == OperatingPoint(all, Whole, target)
    <3>1. /\ o.thr = m.thr /\ o.recall = m.recall /\ o.fpr = m.fpr
          /\ o.precision = m.precision /\ o.lift = m.lift
          /\ report.by \in {"full_suite", "bootstrap"} => o.confusion = m.confusion
      BY <2>1, <2>2 DEF Stated, PointsStated, Has
    <3>2. /\ m.thr = p.thr /\ m.precision = p.precision /\ m.lift = p.lift
          /\ m.confusion = p.confusion
          /\ Same(m.recall, p.recall) /\ Same(m.fpr, p.fpr)
      BY <2>1, <2>2, PopulationOperatingPoint DEF all
    <3>3. \A x, y : x = y => Same(x, y)
      BY DEF Same
    <3> HIDE DEF m, p
    <3>4. Same(o.recall, p.recall) /\ Same(o.fpr, p.fpr) /\ Same(o.precision, p.precision) /\ Same(o.lift, p.lift)
      BY <3>1, <3>2, <3>3
    <3>5. \A ratio \in {"recall", "fpr", "precision", "lift"} : Same(o[ratio], p[ratio])
      BY <3>4
    <3> QED BY <3>1, <3>2, <3>5 DEF p
  <2>3. Has("auc") => Same(report.auc, RocAuc(all))
    BY <2>1, PopulationAuc DEF Has, Stated, all
  <2>4. Has("ap") => SameSteps(report.ap, AveragePrecision(all, Whole))
    BY <2>1, PopulationSteps DEF Has, Stated, all
  <2>5. ASSUME Has("recall"), NEW target \in Targets
        PROVE  Same(report.recall[target], OperatingPoint(all, Whole, target).recall)
    <3>1. report.recall[target] = OperatingPoint(t, w, target).recall
      BY <2>1, <2>5 DEF Has, Stated
    <3>2. Same(OperatingPoint(t, w, target).recall, OperatingPoint(all, Whole, target).recall)
      BY <2>1, <2>5, PopulationOperatingPoint DEF all
    <3> QED BY <3>1, <3>2
  <2>6. ASSUME Has("free")
        PROVE  /\ Same(report.free.auc, RocAuc(all)) /\ Same(report.free.ks, KS(all))
               /\ SameSteps(report.free.ap, AveragePrecision(all, Whole))
               /\ Same(report.base, BaseRate(all, Whole))
    <3>1. /\ report.free.auc = RocAuc(t) /\ report.free.ks = KS(t)
          /\ report.free.ap = AveragePrecision(t, w) /\ report.base = BaseRate(t, w)
      BY <2>1, <2>6 DEF Has, Stated, ThresholdFree
    <3>2. Same(RocAuc(t), RocAuc(all)) /\ Same(KS(t), KS(all))
      BY <2>1, PopulationAuc, PopulationKS DEF all
    <3>3. SameSteps(AveragePrecision(t, w), AveragePrecision(all, Whole))
      BY <2>1, PopulationSteps DEF all
    <3>4. Same(BaseRate(t, w), BaseRate(all, Whole))
      <4>1. BaseRate(all, Whole) = BaseRate(t, w)
        BY <2>1, PopulationBase DEF all
      <4>2. \A x : Same(x, x)
        BY DEF Same
      <4> QED BY <4>1, <4>2
    <3> QED BY <3>1, <3>2, <3>3, <3>4
  <2>7. ASSUME Has("calibration"), report.calibration # <<>>
        PROVE  /\ Same(report.calibration[1], Brier(all, Whole))
               /\ Same(report.calibration[2], ECE(all, Whole))
    <3> DEFINE x == Brier(t, w)
               y == ECE(t, w)
    <3>1. report.calibration = <<x, y>>
      BY <2>1, <2>7 DEF Has, Stated
    <3>2. Brier(all, Whole) = x /\ ECE(all, Whole) = y
      BY <2>1, PopulationBrier, PopulationECE DEF all
    <3>3. \A z : Same(z, z)
      BY DEF Same
    <3> HIDE DEF x, y
    <3>4. report.calibration[1] = x /\ report.calibration[2] = y
      BY <3>1
    <3> QED BY <3>2, <3>3, <3>4
  <2>8. report.by = "bootstrap" => Same(<<Negatives(t) * report.weight[1], report.weight[2]>>,
                                        <<Negatives(table) * rate[1], rate[2]>>)
    BY DEF StatedInv, Resampled
  <2> QED BY <2>2, <2>3, <2>4, <2>5, <2>6, <2>7, <2>8 DEF PopulationMetrics, all
<1> QED BY <1>1, <1>2

LEMMA RateWeighs == ASSUME EvalInv PROVE Weighs(rate) /\ Ranked(table) /\ Graded(table)
BY EvalAssumption, TableIs DEF EvalInv, Weighs, Ranked

LEMMA StatedKeeps ==
  ASSUME StatedInv, EvalInv', NEW r, Report(r), Stated(r), Resampled(r, table, rate)
  PROVE  StatedInv'
BY DEF StatedInv, Report

LEMMA FullSuiteStated ==
  ASSUME NEW t, Graded(t), NEW w, Weighs(w), NEW lossKnown \in BOOLEAN, NEW proba \in BOOLEAN
  PROVE  /\ Stated(FullSuite(t, w, lossKnown, proba))
         /\ FullSuite(t, w, lossKnown, proba).by = "full_suite"
         /\ LET q == [FullSuite(t, w, lossKnown, proba) EXCEPT !.sweep = BudgetSweep(t)]
            IN  Stated(q) /\ q.by = "full_suite"
<1> DEFINE r == FullSuite(t, w, lossKnown, proba)
           q == [r EXCEPT !.sweep = BudgetSweep(t)]
<1>1. /\ r.of = t /\ r.weight = w /\ r.ops = OperatingPoints(t, w) /\ r.free = ThresholdFree(t, w)
      /\ r.base = BaseRate(t, w) /\ r.by = "full_suite"
      /\ r.calibration = IF proba THEN <<Brier(t, w), ECE(t, w)>> ELSE <<>>
  BY DEF FullSuite
<1>2. DOMAIN r = {"by", "of", "weight", "ops", "base", "free", "calibration", "cost", "sweep"}
  BY DEF FullSuite
<1>3. /\ DOMAIN q = DOMAIN r /\ q.of = r.of /\ q.ops = r.ops /\ q.free = r.free /\ q.by = r.by
      /\ q.base = r.base /\ q.weight = r.weight /\ q.calibration = r.calibration
  BY DEF FullSuite
<1> HIDE DEF r, q
<1>4. PointsStated(r)
  <2>1. \A target \in Targets : r.ops[target] = OperatingPoint(t, w, target)
    BY <1>1 DEF OperatingPoints
  <2> QED BY <1>1, <2>1 DEF PointsStated
<1>5. PointsStated(q)
  BY <1>3, <1>4 DEF PointsStated
<1>6. r.calibration \in {<<>>, <<Brier(t, w), ECE(t, w)>>}
  BY <1>1
<1>7. Stated(r)
  BY <1>1, <1>2, <1>4, <1>6 DEF Stated
<1>8. Stated(q)
  BY <1>1, <1>2, <1>3, <1>5, <1>6 DEF Stated
<1> QED BY <1>1, <1>3, <1>7, <1>8 DEF r, q

LEMMA EvaluateStated ==
  ASSUME NEW by, by # "full_suite", by # "bootstrap", NEW t, Graded(t), NEW w, Weighs(w)
  PROVE  /\ Stated(Evaluate(by, t, w)) /\ Evaluate(by, t, w).by = by
         /\ LET q == [Evaluate(by, t, w) EXCEPT !.sweep = BudgetSweep(t)]
            IN  Stated(q) /\ q.by = by
<1> DEFINE r == Evaluate(by, t, w)
           q == [r EXCEPT !.sweep = BudgetSweep(t)]
<1>1. /\ r.of = t /\ r.weight = w /\ r.by = by /\ r.auc = RocAuc(t)
      /\ DOMAIN r = {"by", "of", "weight", "ops", "auc", "sweep"}
      /\ \A target \in Targets : r.ops[target] =
           [OperatingPoint(t, w, target) EXCEPT !.confusion = OperatingPoint(t, Whole, target).confusion]
  BY DEF Evaluate
<1>2. \A target \in Targets :
        LET p == OperatingPoint(t, w, target)
            o == [p EXCEPT !.confusion = OperatingPoint(t, Whole, target).confusion]
        IN  /\ o.thr = p.thr /\ o.recall = p.recall /\ o.fpr = p.fpr
            /\ o.precision = p.precision /\ o.lift = p.lift
  BY DEF OperatingPoint
<1>3. /\ DOMAIN q = DOMAIN r /\ q.of = r.of /\ q.ops = r.ops /\ q.by = r.by
      /\ q.weight = r.weight /\ q.auc = r.auc
  BY DEF Evaluate
<1> HIDE DEF r, q
<1>4. PointsStated(r)
  BY <1>1, <1>2 DEF PointsStated
<1>5. PointsStated(q)
  BY <1>3, <1>4 DEF PointsStated
<1>6. Stated(r)
  BY <1>1, <1>4 DEF Stated
<1>7. Stated(q)
  BY <1>1, <1>3, <1>5 DEF Stated
<1> QED BY <1>1, <1>3, <1>6, <1>7 DEF r, q

LEMMA EqualErrorStated ==
  ASSUME NEW t, Graded(t), NEW w, Weighs(w)
  PROVE  LET q == [by |-> "run_cmu", of |-> t, weight |-> w, eer |-> EqualError(t), auc |-> RocAuc(t)]
             r == [by |-> "eval_cmu", of |-> t, weight |-> w, eer |-> EqualError(t)]
         IN  Stated(q) /\ q.by = "run_cmu" /\ Stated(r) /\ r.by = "eval_cmu"
<1> DEFINE q == [by |-> "run_cmu", of |-> t, weight |-> w, eer |-> EqualError(t), auc |-> RocAuc(t)]
           r == [by |-> "eval_cmu", of |-> t, weight |-> w, eer |-> EqualError(t)]
<1>1. /\ DOMAIN q = {"by", "of", "weight", "eer", "auc"} /\ DOMAIN r = {"by", "of", "weight", "eer"}
      /\ q.of = t /\ q.weight = w /\ q.auc = RocAuc(t) /\ q.by = "run_cmu"
      /\ r.of = t /\ r.weight = w /\ r.by = "eval_cmu"
  OBVIOUS
<1> HIDE DEF q, r
<1>2. Stated(q) /\ Stated(r)
  BY <1>1 DEF Stated
<1> QED BY <1>1, <1>2 DEF q, r

LEMMA KeyMetricsStated ==
  ASSUME NEW t, Graded(t), NEW w, Weighs(w)
  PROVE  LET q == [by |-> "key_metrics", of |-> t, weight |-> w, auc |-> RocAuc(t),
                   ap |-> AveragePrecision(t, w),
                   recall |-> [target \in Targets |-> <<OpAtFpr(t, target).tp, Positives(t)>>]]
         IN  Stated(q) /\ q.by = "key_metrics"
<1> DEFINE recall == [target \in Targets |-> <<OpAtFpr(t, target).tp, Positives(t)>>]
           q == [by |-> "key_metrics", of |-> t, weight |-> w, auc |-> RocAuc(t),
                 ap |-> AveragePrecision(t, w), recall |-> recall]
<1>1. \A target \in Targets : recall[target] = OperatingPoint(t, w, target).recall
  BY DEF OperatingPoint
<1> HIDE DEF recall
<1>2. /\ DOMAIN q = {"by", "of", "weight", "auc", "ap", "recall"}
      /\ q.of = t /\ q.weight = w /\ q.auc = RocAuc(t) /\ q.by = "key_metrics"
      /\ q.ap = AveragePrecision(t, w) /\ q.recall = recall
  OBVIOUS
<1> HIDE DEF q
<1>3. Stated(q)
  BY <1>1, <1>2 DEF Stated
<1> QED BY <1>2, <1>3 DEF q, recall

LEMMA BootstrapStated ==
  ASSUME NEW d, Graded(d), NEW w, Weighs(w)
  PROVE  LET q == [by |-> "bootstrap", of |-> d, weight |-> w, ops |-> OperatingPoints(d, w),
                   auc |-> RocAuc(d), ap |-> AveragePrecision(d, w)]
         IN  Stated(q) /\ q.of = d /\ q.weight = w
<1> DEFINE q == [by |-> "bootstrap", of |-> d, weight |-> w, ops |-> OperatingPoints(d, w),
                 auc |-> RocAuc(d), ap |-> AveragePrecision(d, w)]
<1>1. /\ DOMAIN q = {"by", "of", "weight", "ops", "auc", "ap"}
      /\ q.of = d /\ q.weight = w /\ q.ops = OperatingPoints(d, w)
      /\ q.auc = RocAuc(d) /\ q.ap = AveragePrecision(d, w)
  OBVIOUS
<1> HIDE DEF q
<1>2. PointsStated(q)
  <2>1. \A target \in Targets : q.ops[target] = OperatingPoint(d, w, target)
    BY <1>1 DEF OperatingPoints
  <2> QED BY <1>1, <2>1 DEF PointsStated
<1>3. Stated(q)
  BY <1>1, <1>2 DEF Stated
<1> QED BY <1>1, <1>3 DEF q

LEMMA StatedByRunners == StatedInv /\ Runners => StatedInv'
<1> SUFFICES ASSUME StatedInv, Runners PROVE StatedInv'
  OBVIOUS
<1>1. EvalInv /\ EvalInv' /\ Weighs(rate) /\ Graded(table)
  BY RunnersKeep, RateWeighs DEF StatedInv
<1>2. ASSUME NEW r, Report(r), Stated(r), r.by # "bootstrap" PROVE StatedInv'
  BY <1>1, <1>2, StatedKeeps DEF Resampled
<1>3. ASSUME NEW lossKnown \in BOOLEAN, Report(FullSuite(table, rate, lossKnown, TRUE)) PROVE StatedInv'
  BY <1>1, <1>2, <1>3, FullSuiteStated
<1>4. CASE RunPaysim
  BY <1>3, <1>4 DEF RunPaysim
<1>5. CASE RunIeee(TRUE) \/ RunIeee(FALSE)
  BY <1>3, <1>5 DEF RunIeee
<1>6. CASE RunRba
  BY <1>3, <1>6 DEF RunRba
<1>7. CASE RunCert
  <2> DEFINE q == [FullSuite(table, rate, FALSE, FALSE) EXCEPT !.sweep = BudgetSweep(table)]
  <2>1. Report(q)
    BY <1>7 DEF RunCert
  <2>2. Stated(q) /\ q.by = "full_suite"
    BY <1>1, FullSuiteStated
  <2> HIDE DEF q
  <2> QED BY <1>2, <2>1, <2>2
<1>8. CASE RunCmu
  <2> DEFINE q == [by |-> "run_cmu", of |-> table, weight |-> rate,
                   eer |-> EqualError(table), auc |-> RocAuc(table)]
  <2>1. Report(q)
    BY <1>8 DEF RunCmu
  <2>2. Stated(q) /\ q.by = "run_cmu"
    BY <1>1, EqualErrorStated
  <2> HIDE DEF q
  <2> QED BY <1>2, <2>1, <2>2
<1> QED BY <1>4, <1>5, <1>6, <1>7, <1>8 DEF Runners

LEMMA StatedByEvaluators == StatedInv /\ Evaluators => StatedInv'
<1> SUFFICES ASSUME StatedInv, Evaluators PROVE StatedInv'
  OBVIOUS
<1>1. EvalInv /\ EvalInv' /\ Weighs(rate) /\ Graded(table)
  BY EvaluatorsKeep, RateWeighs DEF StatedInv
<1>2. ASSUME NEW r, Report(r), Stated(r), r.by # "bootstrap" PROVE StatedInv'
  BY <1>1, <1>2, StatedKeeps DEF Resampled
<1>3. ASSUME NEW by, by # "full_suite", by # "bootstrap", Report(Evaluate(by, table, rate)) PROVE StatedInv'
  BY <1>1, <1>2, <1>3, EvaluateStated
<1>4. CASE EvalPaysim
  BY <1>3, <1>4 DEF EvalPaysim
<1>5. CASE EvalIeee
  BY <1>3, <1>5 DEF EvalIeee
<1>6. CASE EvalRba
  BY <1>3, <1>6 DEF EvalRba
<1>7. CASE EvalCmu
  <2> DEFINE q == [by |-> "eval_cmu", of |-> table, weight |-> rate, eer |-> EqualError(table)]
  <2>1. Report(q)
    BY <1>7 DEF EvalCmu
  <2>2. Stated(q) /\ q.by = "eval_cmu"
    BY <1>1, EqualErrorStated
  <2> HIDE DEF q
  <2> QED BY <1>2, <2>1, <2>2
<1>8. CASE EvalCert
  <2> DEFINE q == [Evaluate("eval_cert", table, rate) EXCEPT !.sweep = BudgetSweep(table)]
  <2>1. Report(q)
    BY <1>8 DEF EvalCert
  <2>2. Stated(q) /\ q.by = "eval_cert"
    BY <1>1, EvaluateStated
  <2> HIDE DEF q
  <2> QED BY <1>2, <2>1, <2>2
<1> QED BY <1>4, <1>5, <1>6, <1>7, <1>8 DEF Evaluators

LEMMA StatedByKeyMetrics == StatedInv /\ KeyMetrics => StatedInv'
<1> SUFFICES ASSUME StatedInv, KeyMetrics PROVE StatedInv'
  OBVIOUS
<1>1. EvalInv /\ EvalInv' /\ Weighs(rate) /\ Graded(table)
  BY KeyMetricsKeep, RateWeighs DEF StatedInv
<1> DEFINE q == [by |-> "key_metrics", of |-> table, weight |-> rate, auc |-> RocAuc(table),
                 ap |-> AveragePrecision(table, rate),
                 recall |-> [target \in Targets |-> <<OpAtFpr(table, target).tp, Positives(table)>>]]
<1>2. Report(q)
  BY DEF KeyMetrics
<1>3. Stated(q) /\ q.by = "key_metrics"
  BY <1>1, KeyMetricsStated
<1> HIDE DEF q
<1>4. Resampled(q, table, rate)
  BY <1>3 DEF Resampled
<1> QED BY <1>1, <1>2, <1>3, <1>4, StatedKeeps

(* The draws weigh as much as the table they are drawn from. *)
LEMMA StatedByBootstrap == StatedInv /\ Bootstrap => StatedInv'
<1> SUFFICES ASSUME StatedInv, Bootstrap PROVE StatedInv'
  OBVIOUS
<1>1. EvalInv /\ EvalInv' /\ Weighs(rate) /\ Graded(table)
  BY BootstrapKeeps, RateWeighs DEF StatedInv
<1> DEFINE n == Negatives(table)
           m == IF n > NegCap THEN NegCap ELSE n
           w == IF n > NegCap THEN <<rate[1] * n, rate[2] * NegCap>> ELSE rate
           q(d) == [by |-> "bootstrap", of |-> d, weight |-> w,
                    ops |-> OperatingPoints(d, w), auc |-> RocAuc(d), ap |-> AveragePrecision(d, w)]
<1>2. PICK d \in Draws(table, m) : Report(q(d))
  BY DEF Bootstrap
<1>3. n \in Nat /\ Positives(table) \in Nat /\ NegCap \in Nat \ {0}
  <2>1. 0 \in Nat
    OBVIOUS
  <2> QED BY <1>1, <2>1, CountsAre, EvalAssumption
<1>4. Graded(d) /\ Negatives(d) = m
  <2>1. Positives(table) + m \in Int
    BY <1>3
  <2> HIDE DEF m
  <2>2. Graded(d)
    BY <1>1, <2>1, DrawIsGraded
  <2>3. Negatives(d) = m
    BY DEF Draws
  <2> QED BY <2>2, <2>3
<1>5. rate[1] \in Nat \ {0} /\ rate[2] \in Nat \ {0}
  BY <1>1 DEF Weighs
<1> HIDE DEF n
<1>6. Weighs(w) /\ m * w[1] * rate[2] = n * rate[1] * w[2]
  <2>1. CASE n > NegCap
    <3>1. w[1] = rate[1] * n /\ w[2] = rate[2] * NegCap /\ m = NegCap
      BY <2>1
    <3>2. n \in Nat \ {0}
      BY <1>3, <2>1
    <3>3. \A x, y \in Nat \ {0} : x * y \in Nat \ {0}
      <4> SUFFICES ASSUME NEW x \in Nat \ {0}, NEW y \in Nat \ {0} PROVE x * y \in Nat \ {0}
        OBVIOUS
      <4>1. x * y = y + (x - 1) * y /\ (x - 1) * y \in Nat
        <5>1. x - 1 \in Nat
          OBVIOUS
        <5> QED BY <5>1
      <4> QED BY <4>1
    <3> HIDE DEF w, m
    <3>4. Weighs(w)
      BY <1>3, <1>5, <3>1, <3>2, <3>3 DEF Weighs
    <3>5. \A c, r, s, k \in Nat : c * (r * k) * s = k * r * (s * c)
      OBVIOUS
    <3> QED BY <1>3, <1>5, <3>1, <3>4, <3>5
  <2>2. CASE ~(n > NegCap)
    <3>1. w = rate /\ m = n
      BY <2>2
    <3> QED BY <1>1, <3>1
  <2> QED BY <2>1, <2>2
<1> HIDE DEF w, m
<1> DEFINE r == q(d)
<1>7. Stated(r) /\ r.of = d /\ r.weight = w
  BY <1>4, <1>6, BootstrapStated
<1> HIDE DEF q, r
<1>8. Resampled(r, table, rate)
  <2>1. m \in Int /\ w[1] \in Int /\ w[2] \in Int
    BY <1>3, <1>6 DEF m, Weighs
  <2>2. (m * w[1]) * rate[2] = (n * rate[1]) * w[2]
    BY <1>6
  <2>3. Negatives(r.of) = m /\ r.weight = w
    BY <1>4, <1>7
  <2> QED BY <2>2, <2>3 DEF Resampled, Same, n
<1>9. Report(r)
  BY <1>2 DEF r
<1> QED BY <1>1, <1>7, <1>8, <1>9, StatedKeeps

(* eval_full.py:76 "subsampled negatives represent the full population":   *)
(* whatever the sample and its rate, every metric reported is that of the  *)
(* population the sample stands for, and a draw of the bootstrap weighs as *)
(* much as the table.                                                      *)
THEOREM MetricsOfPopulation == EvalSpec => []PopulationMetrics
<1>1. EvalInit => StatedInv
  <2> SUFFICES ASSUME EvalInit PROVE StatedInv
    OBVIOUS
  <2>1. EvalInv
    BY InitEval
  <2>2. report = NoReport /\ report.by = "nobody"
    BY DEF EvalInit, NoReport
  <2> QED BY <2>1, <2>2 DEF StatedInv, Resampled
<1>2. StatedInv /\ [EvalNext]_evalVars => StatedInv'
  <2> SUFFICES ASSUME StatedInv, [EvalNext]_evalVars PROVE StatedInv'
    OBVIOUS
  <2>1. ASSUME NEW kind \in RowKinds, NEW s \in TableScores, AddRow(Row(kind, s)) PROVE StatedInv'
    <3>1. EvalInv'
      BY <2>1, AddRowKeeps DEF StatedInv
    <3>2. report = NoReport /\ report' = report
      BY <2>1 DEF AddRow
    <3>3. report.by = "nobody"
      BY <3>2 DEF NoReport
    <3> QED BY <3>1, <3>2, <3>3 DEF StatedInv, Resampled
  <2>2. CASE UNCHANGED evalVars
    BY <2>2 DEF evalVars, StatedInv, EvalInv
  <2> QED BY <2>1, <2>2, StatedByRunners, StatedByEvaluators, StatedByKeyMetrics, StatedByBootstrap
          DEF EvalNext
<1>3. StatedInv => PopulationMetrics
  BY StatedOfPopulation
<1> QED BY <1>1, <1>2, <1>3, PTL DEF EvalSpec
=============================================================================
