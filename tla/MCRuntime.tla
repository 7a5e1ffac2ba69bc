----------------------------- MODULE MCRuntime ------------------------------
(***************************************************************************)
(* One run for two components that keep no state in common: metric         *)
(* synchronisation and the back-pressure on requests.  A behaviour is one  *)
(* of one of them: part says which, and the other stays in its initial     *)
(* state, where nothing that is fair can happen.                           *)
(***************************************************************************)
EXTENDS PostPublishSync, Backpressure

VARIABLE part

OneProvider == <<"p1">>
NestedWorkload == {<<"r1", "t1", "rewrite">>, <<"r2", "t1", "search">>, <<"r2", "t2", "rewrite">>}

RuntimeInit == part \in {"sync", "pressure"} /\ SyncInit /\ PressureInit
RuntimeNext ==
    /\ UNCHANGED part
    /\ \/ part = "sync" /\ SyncNext /\ UNCHANGED pressureVars
       \/ part = "pressure" /\ PressureNext /\ UNCHANGED syncVars
RuntimeSpec == /\ RuntimeInit /\ [][RuntimeNext]_<<part, syncVars, pressureVars>>
               /\ SyncFairness /\ PressureFairness
=============================================================================
