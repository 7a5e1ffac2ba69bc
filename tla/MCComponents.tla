---------------------------- MODULE MCComponents ----------------------------
(***************************************************************************)
(* One run for components that keep no state in common in the models: the  *)
(* publication service (in one process, and distributed), the parts of the *)
(* enterprise layer, the operations loop (experiments, bandit, assets,     *)
(* account analytics), the way of a note, the doors of the agents, and the *)
(* job queue under late workers and lost replies.  A behaviour is one of   *)
(* one of them: part says which, and the others stay in their initial      *)
(* states.  What follows a disturbed pool or a stale write is cut off: the *)
(* properties say nothing of it.                                           *)
(***************************************************************************)
EXTENDS PublishService, Governance, CostLedger, PoolSharing, Identity, Experiments,
        Bandit, Assets, AccountInsight, NoteDelivery, Gateways

CONSTANTS
    SharedDrafts,       \* drafts of the distributed service, with one content
    SharedContents,
    SharedSchedules,
    Jobs, Slots, MaxRetries, Capacity,             \* of JobQueue
    FaultKinds, MaxEntries, MaxDrops

ASSUME SharedAssumption ==
    /\ SharedContents # {}
    /\ Callers \cap SharedSchedules = {}
    /\ None \notin Callers \cup SharedSchedules \cup SharedDrafts
ASSUME QueueAssumption ==
    MaxRetries \in Nat /\ Capacity \in Nat \ {0} /\ MaxEntries \in Nat /\ MaxDrops \in Nat

VARIABLES
    part,
    record, cancelKey, stream, dead,               \* of JobQueue
    submitter, canceller, exec, drops, faults

queueVars == <<record, cancelKey, stream, dead, submitter, canceller, exec, drops, faults>>

-----------------------------------------------------------------------------
(* Values of the constants.                                                *)

SameContent(d) == CHOOSE c \in SharedContents : TRUE
\* Drafts that name no content of their own share one.
OwnOrShared(d) == IF d \in Contents THEN d ELSE CHOOSE c \in Contents : TRUE

\* Two callers, requests or senders in one process, one in another.
TwoAndOne(actors) == [c \in actors |-> IF c \in {"c3", "t3"} THEN "h2" ELSE "h1"]
ProcessOfAsker == TwoAndOne(Askers)
ProcessOfSender == TwoAndOne(Senders)
PodOfTask == TwoAndOne(Tasks)

\* Two shares that put the second subject on either side of the cut, and a
\* plan that is refused.
SubjectPoints == [s \in Subjects |-> IF s = "s1" THEN 2 ELSE 0]
Variant(id, weight) == [id |-> id, weight |-> weight]
EvenOrSkewed == {<<Variant("a", 1), Variant("b", 1)>>, <<Variant("a", 3), Variant("b", 1)>>,
                 <<Variant("a", 1)>>}

\* One tenant, which lists its models and demands phishing-resistant MFA, and
\* two of its principals, each with its door and the tool it asks for.
Creator ==
    [tenant |-> "t1", scopes |-> {"a2a_invoke", "content_generate"},
     roles |-> {"creator"}, level |-> 1, strong |-> FALSE]
Publisher ==
    [tenant |-> "t1", scopes |-> {"mcp_invoke", "publish_execute"},
     roles |-> {"publisher"}, level |-> 2, strong |-> TRUE]
NoteAndPublication == {<<Creator, "generate_xhs_note">>, <<Publisher, "publish_note">>}
OneModel == [t1 |-> {"m1"}]

-----------------------------------------------------------------------------
DistributedService == INSTANCE PublishService WITH
    Distributed <- TRUE, DailyLimit <- 1, Drafts <- SharedDrafts,
    Contents <- SharedContents, Schedules <- SharedSchedules, ContentOf <- SameContent

Queue == INSTANCE JobQueue WITH store <- record

OthersRest ==
    /\ part \notin {"service", "distributed"} => UNCHANGED vars
    /\ part # "governance" => UNCHANGED governanceVars
    /\ part # "costs" => UNCHANGED ledgerVars
    /\ part # "pool" => UNCHANGED poolVars
    /\ part # "identity" => UNCHANGED identityVars
    /\ part # "experiments" => UNCHANGED expVars
    /\ part # "bandit" => UNCHANGED banditVars
    /\ part # "assets" => UNCHANGED assetVars
    /\ part # "insight" => UNCHANGED insightVars
    /\ part # "note" => UNCHANGED noteVars
    /\ part # "gateways" => UNCHANGED gatewayVars
    /\ part # "queue" => UNCHANGED queueVars

\* The two processes are alike, and so are u1 and u2 (u3 alone is phishable): it
\* is enough that the workflow is created in w1, and not by u2.
CreatedByOneOfAKind ==
    workflow.state = "NONE" => workflow'.by # "u2" /\ process'["w2"] = process["w2"]

\* The two keys are alike, and one of them stays on offer.
SecondKeyStays == published'["k2"] = "offered"

ComponentsInit ==
    /\ part \in {"service", "distributed", "governance", "costs", "pool", "identity",
                 "experiments", "bandit", "assets", "insight", "note", "gateways", "queue"}
    /\ IF part = "distributed" THEN DistributedService!Init ELSE Init
    /\ GovernanceInit /\ LedgerInit /\ PoolInit /\ IdentityInit
    /\ ExpInit /\ BanditInit /\ AssetInit /\ InsightInit
    /\ NoteInit /\ GatewayInit /\ Queue!Init
    /\ part # "governance" => policy = [quorum |-> 2, separate |-> TRUE]
    /\ part # "experiments" => ~shared
    /\ part # "bandit" => ~postgres
ComponentsNext ==
    /\ UNCHANGED part
    /\ OthersRest
    /\ \/ part = "service" /\ Next
       \/ part = "distributed" /\ DistributedService!Next
       \/ part = "governance" /\ GovernanceNext /\ CreatedByOneOfAKind
       \/ part = "costs" /\ LedgerNext
       \/ part = "pool" /\ ~disturbed /\ PoolNext
       \/ part = "identity" /\ ~staleWrite /\ IdentityNext /\ SecondKeyStays
       \/ part = "experiments" /\ ExpNext
       \/ part = "bandit" /\ BanditNext
       \/ part = "assets" /\ AssetNext
       \/ part = "insight" /\ InsightNext
       \/ part = "note" /\ NoteNext
       \/ part = "gateways" /\ GatewayNext
       \/ part = "queue" /\ Queue!Next
ComponentsSpec == ComponentsInit /\
    [][ComponentsNext]_<<part, vars, governanceVars, ledgerVars, poolVars, identityVars,
                         expVars, banditVars, assetVars, insightVars, noteVars,
                         gatewayVars, queueVars>>

-----------------------------------------------------------------------------
\* In the distributed service an approval bound to a schedule names the row of
\* its own content, also after crashes and lost races between bookings.
BoundToItsRowWhenDistributed == part = "distributed" => DistributedService!BoundToItsRow

\* In the service of one process an approval is good for one submission,
\* whatever is published directly and by the scheduler at the same time.
ApprovalConsumedOnceLocally == part = "service" => ApprovalConsumedOnce

\* Once the cancel key of a job is set, no execution of it completes it.
CancelBarsCompletion == Queue!CancelBarsCompletion
=============================================================================
