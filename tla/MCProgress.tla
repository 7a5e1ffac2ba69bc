----------------------------- MODULE MCProgress -----------------------------
(***************************************************************************)
(* One run for two components that keep no state in common: the publish    *)
(* state machine and the in-process jobs with their event streams.  A      *)
(* behaviour is one of one of them: part says which, and the other stays   *)
(* in its initial state, where nothing that is fair can happen.            *)
(***************************************************************************)
EXTENDS PublishState, LocalJobs

VARIABLE part

ProgressInit == part \in {"publish", "jobs"} /\ Init /\ LocalInit
ProgressNext ==
    /\ UNCHANGED part
    /\ \/ part = "publish" /\ Next /\ UNCHANGED localVars
       \/ part = "jobs" /\ LocalNext /\ UNCHANGED vars
ProgressSpec == /\ ProgressInit /\ [][ProgressNext]_<<part, vars, localVars>>
                /\ Fairness /\ LocalFairness
=============================================================================
