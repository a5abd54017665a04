------------------------------ MODULE Download ------------------------------
(***************************************************************************)
(* download_data.get_one: a data set is fetched into a .part file, which   *)
(* is renamed, checked against its digest and unpacked.  A run of the      *)
(* script can end anywhere and be started again.                           *)
(*                                                                         *)
(* The content of a file is whole, or Partial, a part of it.               *)
(***************************************************************************)

CONSTANT
  DataSets      \* entries of DATASETS: whether pinned, zipped, from kaggle

VARIABLES
  spec,             \* the data set that is fetched
  raw, part, data,  \* its file, the .part file, what is unpacked of it
  fetch             \* where the download is

dataset == <<spec, raw, part, data, fetch>>

(* The registry of today, as far as it tells files apart: rba, paysim and  *)
(* the logs of cert_insider, ieee_cis, the other files of cert_insider.    *)
Entry(pinned, zipped, kaggle) == [pinned |-> pinned, zipped |-> zipped, kaggle |-> kaggle]
DATASETS == {Entry(TRUE, TRUE, FALSE), Entry(TRUE, FALSE, FALSE), Entry(TRUE, TRUE, TRUE),
             Entry(FALSE, FALSE, FALSE)}

Absent == "absent"
Partial == "partial"

FetchInit ==
  /\ spec \in DataSets /\ raw = Absent /\ part = Absent /\ data = Absent
  /\ fetch = "new"

-----------------------------------------------------------------------------
FetchTo(from, to) ==
  fetch = from /\ fetch' = to /\ UNCHANGED spec

(* Variant: a file that is already there is taken as it is. *)
PresentUnverified == FetchTo("new", "verified") /\ raw # Absent /\ UNCHANGED <<raw, part, data>>

Present == FetchTo("new", "verify") /\ raw # Absent /\ UNCHANGED <<raw, part, data>>

(* open(tmp, "wb"): what an earlier run left in it is gone. *)
Request ==
  FetchTo("new", "read") /\ raw = Absent /\ ~spec.kaggle /\ part' = Partial /\ UNCHANGED <<raw, data>>

(* An early end of the response is an end of the file for r.read. *)
Received == FetchTo("read", "rename") /\ part' \in {"whole", Partial} /\ UNCHANGED <<raw, data>>

Rename == FetchTo("rename", "verify") /\ raw' = part /\ part' = Absent /\ UNCHANGED data

(* The kaggle client (external) writes under the final name, or another. *)
FetchKaggle ==
  /\ FetchTo("new", "verify") /\ raw = Absent /\ spec.kaggle
  /\ raw' \in {"whole", Partial, Absent} /\ UNCHANGED <<part, data>>

(* A mismatch ends the script and leaves the file; no file is no mismatch. *)
Verify ==
  /\ FetchTo("verify", IF raw = Absent THEN "done"
                       ELSE IF spec.pinned /\ raw # "whole" THEN "mismatch" ELSE "verified")
  /\ UNCHANGED <<raw, part, data>>

(* extractall raises for a torn archive. *)
Unpack ==
  /\ FetchTo("verified", IF ~spec.zipped THEN "done" ELSE IF raw = "whole" THEN "unpack" ELSE "raised")
  /\ data' = IF spec.zipped THEN Partial ELSE data
  /\ UNCHANGED <<raw, part>>

Unpacked == FetchTo("unpack", "done") /\ data' = raw /\ UNCHANGED <<raw, part>>

(* The script is killed, or has ended, and is run again. *)
FetchAgain == fetch # "new" /\ FetchTo(fetch, "new") /\ UNCHANGED <<raw, part, data>>

Fetch == Present \/ Request \/ Received \/ Rename \/ FetchKaggle \/ Verify \/ Unpack \/ Unpacked
         \/ FetchAgain

FetchSpec == FetchInit /\ [][Fetch]_dataset

-----------------------------------------------------------------------------
(* download_data.py:33 "Checksums are verified when known": a download of  *)
(* a pinned data set that ends well has left nothing at all (the kaggle    *)
(* client chose another name) or the whole file, and all of it unpacked,   *)
(* whatever earlier runs that were killed or cut off left behind.          *)
FetchedWhole ==
  fetch = "done" /\ spec.pinned /\ raw # Absent =>
    raw = "whole" /\ (spec.zipped => data = "whole")
=============================================================================
