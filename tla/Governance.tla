----------------------------- MODULE Governance ------------------------------
(***************************************************************************)
(* Enterprise approvals (enterprise/approvals.py) on the JSON repository   *)
(* (enterprise/repository.py) and the audit ledger (enterprise/audit.py),  *)
(* as several worker processes use them.  A process runs a decision        *)
(* without an await, but nothing keeps two processes apart between the     *)
(* read of a workflow and its write; the audit ledger takes a lock on a    *)
(* file around its read of the last line and its append, and a write may   *)
(* fail, or its process die, at any point of the line.                     *)
(***************************************************************************)
EXTENDS Naturals, Sequences, FiniteSets

CONSTANTS
    Processes,    \* worker processes
    Actors,       \* principals with the scope publish:approve
    Phishable,    \* those whose session is not phishing resistant
    Quorums,      \* what a tenant's policy may ask for
    StrictMfa,    \* require_phishing_resistant_mfa_for_publish
    MaxLines,     \* bound: decisions end when the audit file has this many records
    NoProcess, NoActor

ASSUME GovernanceAssumption ==
    /\ Quorums \subseteq Nat \ {0}
    /\ Phishable \subseteq Actors
    /\ StrictMfa \in BOOLEAN /\ MaxLines \in Nat
    /\ NoProcess \notin Processes /\ NoActor \notin Actors

VARIABLES
    policy,     \* quorum and separation of duties of the tenant
    workflow,   \* the approval workflow on file
    process,    \* what every worker process does
    trail,      \* the records of the audit file, in order
    trailLock,  \* who holds the lock of the audit file
    overtaken,  \* a decision was saved over one that it had not read
    released    \* the publication that required the approval went ahead

governanceVars == <<policy, workflow, process, trail, trailLock, overtaken, released>>

NoWorkflow == [state |-> "NONE", by |-> NoActor, quorum |-> 1, separate |-> TRUE,
               votes |-> <<>>, expired |-> FALSE]
Resting == [at |-> "idle", actor |-> NoActor, vote |-> "none", copy |-> NoWorkflow, last |-> 0]

\* How much of a record reached the file: all of it, all but its newline, or not
\* enough for it to be parsed.
LineEnds == {"whole", "open", "cut"}
Line(p, end) == [prev |-> process[p].last, actor |-> process[p].actor,
                 vote |-> process[p].vote, end |-> end]

Voters(a, v) == {a.votes[i].by : i \in {k \in DOMAIN a.votes : a.votes[k].vote = v}}
VotersAll(a) == {a.votes[i].by : i \in DOMAIN a.votes}

GovernanceInit ==
    /\ policy \in [quorum : Quorums, separate : BOOLEAN]
    /\ workflow = NoWorkflow
    /\ process = [p \in Processes |-> Resting]
    /\ trail = <<>> /\ trailLock = NoProcess
    /\ overtaken = FALSE /\ released = FALSE
-----------------------------------------------------------------------------
(* Approvals. *)

\* PATCH /tenant: approvals made before keep the policy they were made under.
UpdatePolicy ==
    /\ policy' \in [quorum : Quorums, separate : BOOLEAN]
    /\ policy' # policy
    /\ UNCHANGED <<workflow, process, trail, trailLock, overtaken, released>>

\* create, up to its audit record.
Create(p, u) ==
    /\ process[p].at = "idle" /\ workflow.state = "NONE" /\ Len(trail) < MaxLines
    /\ workflow' = [NoWorkflow EXCEPT !.state = "PENDING", !.by = u,
                       !.quorum = policy.quorum, !.separate = policy.separate]
    /\ process' = [process EXCEPT ![p] =
                     [Resting EXCEPT !.at = "auditing", !.actor = u, !.vote = "CREATE"]]
    /\ UNCHANGED <<policy, trail, trailLock, overtaken, released>>

\* decide begins: a workflow that is not pending is refused at once.
LoadApproval(p) ==
    /\ process[p].at = "idle" /\ workflow.state = "PENDING" /\ Len(trail) < MaxLines
    /\ process' = [process EXCEPT ![p] = [Resting EXCEPT !.at = "deciding", !.copy = workflow]]
    /\ UNCHANGED <<policy, workflow, trail, trailLock, overtaken, released>>

\* The objections of decide to a vote of u on a copy.
RefusedExceptSelf(a, u) ==
    \/ u \in VotersAll(a)
    \/ StrictMfa /\ u \in Phishable
Refused(a, u) ==
    \/ a.separate /\ u = a.by
    \/ u \in VotersAll(a)
    \/ StrictMfa /\ u \in Phishable

\* The state a vote leads to.
VerdictByCount(a, v) ==
    CASE v = "REJECT" -> "REJECTED"
      [] v = "APPROVE" /\ Len(a.votes) >= a.quorum -> "APPROVED"
      [] OTHER -> "PENDING"
VerdictOn(a, v) ==
    CASE v = "REJECT" -> "REJECTED"
      [] v = "APPROVE" /\ Cardinality(Voters(a, "APPROVE")) >= a.quorum -> "APPROVED"
      [] OTHER -> "PENDING"

\* save_approval replaces the workflow by the copy, whatever it is by now; the
\* faulty variant writes the state without the votes.
SaveCopyState(p, a) ==
    /\ workflow' = [workflow EXCEPT !.state = a.state]
    /\ UNCHANGED overtaken
SaveCopy(p, a) ==
    /\ workflow' = [a EXCEPT !.expired = workflow.expired]
    /\ overtaken' = (overtaken \/ workflow.votes # process[p].copy.votes
                               \/ workflow.state # process[p].copy.state)

\* decide goes on with its copy, for actor u and vote v; a vote that is refused
\* changes nothing.
DecideWorkflow(p, u, v) ==
    LET a == process[p].copy
        voted == [a EXCEPT !.votes = Append(@, [by |-> u, vote |-> v])]
    IN
    /\ process[p].at = "deciding"
    /\ CASE workflow.expired ->
               /\ SaveCopy(p, [a EXCEPT !.state = "EXPIRED"])
               /\ process' = [process EXCEPT ![p] = Resting]
         [] ~workflow.expired /\ Refused(a, u) ->
               /\ process' = [process EXCEPT ![p] = Resting]
               /\ UNCHANGED <<workflow, overtaken>>
         [] OTHER ->
               /\ SaveCopy(p, [voted EXCEPT !.state = VerdictOn(voted, v)])
               /\ process' = [process EXCEPT ![p] =
                                [Resting EXCEPT !.at = "auditing", !.actor = u, !.vote = v]]
    /\ UNCHANGED <<policy, trail, trailLock, released>>

\* The clock passes expires_at.
ApprovalExpires ==
    /\ workflow.state # "NONE" /\ ~workflow.expired
    /\ workflow' = [workflow EXCEPT !.expired = TRUE]
    /\ UNCHANGED <<policy, process, trail, trailLock, overtaken, released>>

\* require_approved, on behalf of a publication.
Require ==
    /\ workflow.state = "APPROVED" /\ ~workflow.expired /\ ~released
    /\ released' = TRUE
    /\ UNCHANGED <<policy, workflow, process, trail, trailLock, overtaken>>
-----------------------------------------------------------------------------
(* The audit ledger. *)

\* The record before lost its newline: this one is on the same line of the file.
SharesLine(i) == i > 1 /\ trail[i - 1].end = "open"

\* _last cannot parse a record that was cut off, nor two records in one line,
\* and raises; a record that lost only its newline it takes for a whole one.
NeverUnreadable == FALSE
UnreadableLast ==
    trail # <<>> /\ (trail[Len(trail)].end = "cut" \/ SharesLine(Len(trail)))

\* append takes the lock of the file and reads the last line.
LockTrail(p) ==
    /\ process[p].at = "auditing" /\ trailLock = NoProcess
    /\ IF UnreadableLast
       THEN process' = [process EXCEPT ![p] = Resting] /\ UNCHANGED trailLock
       ELSE /\ process' = [process EXCEPT ![p].at = "writing", ![p].last = Len(trail)]
            /\ trailLock' = p
    /\ UNCHANGED <<policy, workflow, trail, overtaken, released>>

\* What a write leaves in the file when it succeeds, fails for want of space, or
\* its process dies.
Written(p) == {trail} \cup {Append(trail, Line(p, end)) : end \in LineEnds}

\* append writes the line and replicates it to the sink, or raises: a sink that
\* fails leaves the line.
WriteLine(p) ==
    /\ process[p].at = "writing"
    /\ trail' \in Written(p)
    /\ trailLock' = NoProcess
    /\ process' = [process EXCEPT ![p] = Resting]
    /\ UNCHANGED <<policy, workflow, overtaken, released>>

\* The process dies; the kernel gives its lock back.
Die(p) ==
    /\ process[p].at # "idle"
    /\ trail' \in IF process[p].at = "writing" THEN Written(p) ELSE {trail}
    /\ trailLock' = IF trailLock = p THEN NoProcess ELSE trailLock
    /\ process' = [process EXCEPT ![p] = Resting]
    /\ UNCHANGED <<policy, workflow, overtaken, released>>

GovernanceNext ==
    \/ UpdatePolicy \/ ApprovalExpires \/ Require
    \/ \E p \in Processes :
          \/ LoadApproval(p) \/ LockTrail(p) \/ WriteLine(p) \/ Die(p)
          \/ \E u \in Actors : Create(p, u) \/ \E v \in {"APPROVE", "REJECT"} : DecideWorkflow(p, u, v)

GovernanceSpec == GovernanceInit /\ [][GovernanceNext]_governanceVars
-----------------------------------------------------------------------------
(* Properties. *)

\* An approved workflow has the quorum of distinct approvers it was created
\* with, no rejection among them and none of them its requester when duties
\* are separate, also when one process saved its vote over another's.
ApprovedByQuorum ==
    workflow.state = "APPROVED" =>
        /\ Cardinality(Voters(workflow, "APPROVE")) >= workflow.quorum
        /\ Voters(workflow, "REJECT") = {}
        /\ workflow.separate => workflow.by \notin VotersAll(workflow)

\* A vote that the audit ledger records is in the workflow, and a publication
\* went ahead only on a workflow that still says APPROVED or has expired, as
\* long as no process saved a stale copy.
VotesStand ==
    ~overtaken =>
        /\ \A i \in DOMAIN trail :
              trail[i].vote \in {"APPROVE", "REJECT"} /\ trail[i].end # "cut" =>
                  trail[i].actor \in Voters(workflow, trail[i].vote)
        /\ released => workflow.state = "APPROVED"

\* All lines of the audit file but the last verify, wherever writers died or
\* their writes failed: every record follows the one before it, nothing follows
\* a record that was cut off, and one that lost its newline has at most one
\* record after it.  The last line does not verify then, whether it was cut off
\* or holds two records, and nothing is appended any more (_last raises).
AllButLastLineVerifies ==
    \A i \in DOMAIN trail :
        /\ trail[i].prev = i - 1
        /\ trail[i].end = "cut" => i = Len(trail)
        /\ trail[i].end = "open" => i >= Len(trail) - 1
=============================================================================
