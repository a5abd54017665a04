------------------------------ MODULE MCOffline ------------------------------
(* The offline side: what is fetched (Download), exported and served       *)
(* (ModelSupply), what a detector learns from (Training), and how its      *)
(* scores are reported (Evaluation).  The four have no state in common: a  *)
(* run takes steps of one of them while the others rest.                   *)
(*                                                                         *)
(* x2 was built from an older checkout.  Environments: complete ones,      *)
(* without a pin and with one; demo mode with nothing set; and complete    *)
(* ones but for one variable.                                              *)
EXTENDS Download, ModelSupply, Training, Evaluation, TLC

CONSTANTS x1, x2

SchemaOfExports == [x \in Exports |-> IF x = x2 THEN "older" ELSE "v11"]

AllGood == [v \in REQUIRED_PROD |-> "good"]
Env(mode, pin, vars) == [mode |-> mode, pin |-> pin, vars |-> vars]

Environments ==
  {Env("prod", pin, AllGood) : pin \in {Nothing, x1}}
    \cup {Env("demo_synthetic", Nothing, [v \in REQUIRED_PROD |-> "unset"])}
    \cup {Env("prod", Nothing, "PRAMAAN_STEPUP_PUBKEY" :> value @@ AllGood) : value \in {"bad", "empty"}}
    \cup {Env("prod", Nothing, "PRAMAAN_CORS_ORIGINS" :> "bad" @@ AllGood)}
    \cup {Env("demo_synthetic", Nothing, "PRAMAAN_API_KEYS" :> "empty" @@ AllGood)}

(* An account with a missing value, the same with another key, another with *)
(* the value of that.                                                     *)
ContentGrid == {<<"a", "k", Blank>>, <<"a", "l", 1>>, <<"b", "k", 1>>}

(* A genuine row, and an attack of each of two users on two days. *)
KindGrid == {<<0, 0, 1, "a">>, <<1, 20, 1, "b">>, <<1, 90, 2, "c">>}
TargetGrid == {<<1, 3>>, <<1, 2>>}
RateGrid == {<<1, 1>>, <<3, 1>>}

FetchRests == FetchInit /\ spec = CHOOSE d \in DataSets : TRUE
EvalRests == EvalInit /\ rate = Whole

OfflineInit == FetchInit /\ Init /\ TrainInit /\ EvalInit

OfflineNext ==
  \/ Fetch /\ Init /\ TrainInit /\ EvalRests /\ UNCHANGED <<supply, trainVars, evalVars>>
  \/ Next /\ FetchRests /\ TrainInit /\ EvalRests /\ UNCHANGED <<dataset, trainVars, evalVars>>
  \/ TrainNext /\ FetchRests /\ Init /\ EvalRests /\ UNCHANGED <<dataset, supply, evalVars>>
  \/ EvalNext /\ FetchRests /\ Init /\ TrainInit /\ UNCHANGED <<dataset, supply, trainVars>>

OfflineSpec == OfflineInit /\ [][OfflineNext]_<<dataset, supply, trainVars, evalVars>>
=============================================================================
