------------------------------ MODULE MCSafety ------------------------------
(***************************************************************************)
(* One run for five components that keep no state in common in the models: *)
(* the publish state machine, the page of an account, the back-pressure on *)
(* requests, the deployment with its account lock, and the feedback from   *)
(* published notes.  A behaviour is one of one of them: part says which,   *)
(* and the others stay in their initial states.                            *)
(***************************************************************************)
EXTENDS PublishState, MCAccountPage, Backpressure, Deployment, Feedback, TLC

VARIABLE part

OneProvider == <<"p1">>
MixedWorkload == {<<"r1", "t1", "generate">>, <<"r2", "t1", "search">>,
                  <<"r2", "t2", "rewrite">>, <<"r3", "t1", "plain">>}

\* A profile with two days and no pillars; topics that a client brings or
\* leaves out, so that the advice or nothing takes their place.
Weekend == {<<5, 6>>}
NoPillars == <<>>
TwoTopicsOrNone == {<<>>, <<"a", "b">>}
FallingOrSingle == {<<2, 1>>, <<1>>}

\* Every combination of Redis and the locks, what the validators refuse, and
\* the whole of a strict enterprise deployment.
Sound(flags) == flags \cup {"secured", "database"}
FlagChoices ==
    {Sound(flags) : flags \in {{}, {"locks"}, {"redis", "locks"}, Flags}}
    \cup {{"locks"}, {"secured", "strict"}, {"secured", "postgres"}, {"secured", "scheduling"}}
PlainSettings ==
    [production |-> FALSE, profile |-> "personal", workers |-> 1,
     adapter |-> "creator_studio", on |-> Sound({})]
ServedBy == [u \in LockUsers |-> IF u = "u3" THEN 2 ELSE 1]

\* The calendar keeps its pace from any day on, for some profiles and topics.
ASSUME CalendarKeepsPace ==
    \A first \in 0..6, horizon \in 7..15, pace \in 1..7,
       profile \in {<<>>, <<0, 6>>, <<5>>, <<1, 3, 2>>}, topics \in {<<"a">>, <<"a", "b">>} :
       PaceKept(first, horizon, profile, pace, topics)

\* Schedules and workers are interchangeable.
Symmetry == Permutations(Schedules) \cup Permutations(Workers)

SafetyInit ==
    /\ part \in {"publish", "page", "pressure", "deployment", "feedback"}
    /\ Init /\ PageInit /\ PressureInit /\ DeployInit /\ FeedbackInit
    /\ part # "page" => cookies = "absent" /\ op["b"].kind = "preview"
    /\ part # "deployment" => settings = PlainSettings
    /\ part # "feedback" => ~durable
OthersStay ==
    /\ part # "publish" => UNCHANGED vars
    /\ part # "page" => UNCHANGED pageVars
    /\ part # "pressure" => UNCHANGED pressureVars
    /\ part # "deployment" => UNCHANGED deployVars
    /\ part # "feedback" => UNCHANGED feedbackVars
SafetyNext ==
    /\ UNCHANGED part
    /\ OthersStay
    /\ \/ part = "publish" /\ Next
       \/ part = "page" /\ PageNext /\ LapsesAreSeen /\ FirstIsA
       \/ part = "pressure" /\ PressureNext
       \/ part = "deployment" /\ DeployNext
       \/ part = "feedback" /\ FeedbackNext
SafetySpec == SafetyInit /\
    [][SafetyNext]_<<part, vars, pageVars, pressureVars, deployVars, feedbackVars>>
=============================================================================
