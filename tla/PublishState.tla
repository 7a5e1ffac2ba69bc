---------------------------- MODULE PublishState ----------------------------
(***************************************************************************)
(* The distributed publish state machine: rows of enterprise_publish_state *)
(* in PostgreSQL (enterprise/postgres.py) and the scheduler workers of     *)
(* several Pods that claim due rows under a lease, cross an irreversible   *)
(* submission boundary and record a verdict (publishing/distributed.py).   *)
(*                                                                         *)
(* One SQL transaction is one atomic step.  Between two steps of a worker  *)
(* anything may happen: its lease lapses, another Pod claims the row, the  *)
(* user cancels, a call fails, a reply is lost after its commit, the task  *)
(* is cancelled by a shutdown, the process dies.                           *)
(*                                                                         *)
(* A row is identified by its publish fingerprint: the table has a unique  *)
(* constraint on it, so a second schedule of the same content finds the    *)
(* existing row.  Wall-clock time is abstracted: a lease is live until it  *)
(* lapses, and a SCHEDULED row may be due at any moment.                   *)
(***************************************************************************)
EXTENDS Naturals, FiniteSets

CONSTANTS
  Schedules,    \* publish fingerprints, each one row of the table
  Workers,      \* scheduler worker processes, one run_worker loop each
  NoWorker,     \* lease_owner NULL
  BatchSize,    \* scheduler_claim_batch_size, the LIMIT of the claim query
  MaxLeases,    \* bound: lease tokens issued per row
  MaxCancels    \* bound: cancellation requests accepted per row

ASSUME NoWorkerAssumption == NoWorker \notin Workers
ASSUME BoundsAssumption ==
  /\ BatchSize \in Nat \ {0}
  /\ MaxLeases \in Nat
  /\ MaxCancels \in Nat

VARIABLES
  row,       \* the table
  issued,    \* lease tokens issued so far, per row (md5(random()) is fresh)
  task,      \* task[w][s]: the _execute_state call of worker w on row s
  submits,   \* history: calls of publisher.submit, per row
  notes      \* history: notes the platform accepted, per row

vars == <<row, issued, task, submits, notes>>

-----------------------------------------------------------------------------
(* Rows *)

Verdicts == {"VERIFIED", "SUBMITTED_UNVERIFIED", "FAILED", "CANCELLED"}

States ==
  {"ABSENT", "SCHEDULED", "CLAIMED", "RUNNING", "SUBMITTING",
   "CANCEL_REQUESTED", "RECONCILIATION_REQUIRED"} \cup Verdicts

Rows ==
  [state : States, owner : Workers \cup {NoWorker}, token : Nat,
   lease : {"null", "live", "lapsed"}, epoch : Nat, cancelRequested : BOOLEAN]

AbsentRow ==
  [state |-> "ABSENT", owner |-> NoWorker, token |-> 0, lease |-> "null",
   epoch |-> 0, cancelRequested |-> FALSE]

\* The row with its lease columns set to NULL and its final state.
Settled(r, final) ==
  [r EXCEPT !.state = final, !.owner = NoWorker, !.token = 0, !.lease = "null"]

-----------------------------------------------------------------------------
(* Executions.  The pc names the step _execute_state takes next.           *)

\* The steps inside the try block: an exception there is caught.
TryBlock ==
  {"checkCancel", "preparing", "recheckCancel", "marking", "submitting",
   "syncing", "finishing", "reconciling"}

Handlers == {"cancelling", "failing", "reconcilingFailure"}

\* The heartbeat task exists from the try statement to its finally clause.
Beating == TryBlock \cup Handlers

Active == {"claimed", "started", "expired"} \cup Beating

Tasks ==
  [pc : Active \cup {"idle"}, token : Nat, seen : Nat,
   result : {"none", "VERIFIED", "SUBMITTED_UNVERIFIED"}]

IdleTask == [pc |-> "idle", token |-> 0, seen |-> 0, result |-> "none"]

OnErrorFallsThrough(p) == IF p \in TryBlock THEN "finishing" ELSE "idle"

\* Where an exception, or an asyncio.CancelledError, takes a task at step p.
OnError(p) == IF p \in TryBlock THEN "failing" ELSE "idle"
OnInterrupt(p) == IF p \in TryBlock THEN "cancelling" ELSE "idle"

Goto(w, s, p) ==
  task' = [task EXCEPT ![w][s] = IF p = "idle" THEN IdleTask
                                 ELSE [@ EXCEPT !.pc = p]]

At(w, s, p) == task[w][s].pc = p

-----------------------------------------------------------------------------
(* The WHERE clauses.  Each faulty variant next to a guard is a bug the    *)
(* properties below are meant to notice; none is part of the model.        *)

\* lease_owner=$3 AND lease_token=$4
Holds(w, s) == row[s].owner = w /\ row[s].token = task[w][s].token

ClaimableSubmitting(s) ==
  /\ ~row[s].cancelRequested
  /\ \/ row[s].state = "SCHEDULED" /\ row[s].lease # "live"
     \/ row[s].state \in {"CLAIMED", "RUNNING", "SUBMITTING"} /\ row[s].lease = "lapsed"
ClaimableAnyState(s) ==
  row[s].state # "ABSENT" /\ ~row[s].cancelRequested /\ row[s].lease # "live"
ClaimableScheduledOnly(s) ==
  row[s].state = "SCHEDULED" /\ ~row[s].cancelRequested /\ row[s].lease # "live"

\* claim_due_schedules: due, not cancelled, and free or abandoned.
Claimable(s) ==
  /\ ~row[s].cancelRequested
  /\ \/ row[s].state = "SCHEDULED" /\ row[s].lease # "live"
     \/ row[s].state \in {"CLAIMED", "RUNNING"} /\ row[s].lease = "lapsed"

\* start_claimed_publish
MayStart(w, s) ==
  Holds(w, s) /\ row[s].state = "CLAIMED" /\ ~row[s].cancelRequested

MaySubmitFenceOnly(w, s) == Holds(w, s)

\* mark_publish_submitting
MaySubmit(w, s) ==
  /\ Holds(w, s)
  /\ row[s].state = "RUNNING"
  /\ row[s].epoch = task[w][s].seen
  /\ ~row[s].cancelRequested

MayFinishAnyEpoch(w, s) ==
  Holds(w, s) /\ row[s].state \in {"CLAIMED", "RUNNING", "SUBMITTING"}
MayFinishUnfenced(w, s) ==
  /\ row[s].epoch = task[w][s].seen
  /\ row[s].state \in {"CLAIMED", "RUNNING", "SUBMITTING"}
MayFinishLiveLease(w, s) ==
  /\ Holds(w, s) /\ row[s].lease = "live"
  /\ row[s].epoch = task[w][s].seen
  /\ row[s].state \in {"CLAIMED", "RUNNING", "SUBMITTING"}

\* finish_claimed_publish
MayFinish(w, s) ==
  /\ Holds(w, s)
  /\ row[s].epoch = task[w][s].seen
  /\ row[s].state \in {"CLAIMED", "RUNNING", "SUBMITTING"}

\* mark_publish_reconciliation
MayReconcile(w, s) == Holds(w, s) /\ row[s].state = "SUBMITTING"

CancelledStateSubmitting(state) ==
  IF state \in {"SCHEDULED", "CLAIMED", "RUNNING", "SUBMITTING"}
  THEN "CANCEL_REQUESTED" ELSE state

\* The CASE expression of request_publish_cancel.
CancelledState(state) ==
  IF state \in {"SCHEDULED", "CLAIMED", "RUNNING"} THEN "CANCEL_REQUESTED" ELSE state

-----------------------------------------------------------------------------
Init ==
  /\ row = [s \in Schedules |-> AbsentRow]
  /\ issued = [s \in Schedules |-> 0]
  /\ task = [w \in Workers |-> [s \in Schedules |-> IdleTask]]
  /\ submits = [s \in Schedules |-> 0]
  /\ notes = [s \in Schedules |-> 0]

\* PostgresPublishCoordinator.schedule and create_publish_state.  When the
\* fingerprint is taken, ON CONFLICT leaves the existing row as it is.
Schedule(s) ==
  /\ row[s].state = "ABSENT"
  /\ row' = [row EXCEPT ![s].state = "SCHEDULED"]
  /\ UNCHANGED <<issued, task, submits, notes>>

\* PostgresPublishCoordinator.cancel and request_publish_cancel.
RequestCancel(s) ==
  /\ row[s].state \notin {"ABSENT", "VERIFIED", "FAILED", "CANCELLED"}
  /\ row[s].epoch < MaxCancels
  /\ row' = [row EXCEPT ![s].epoch = @ + 1,
                        ![s].cancelRequested = TRUE,
                        ![s].state = CancelledState(@)]
  /\ UNCHANGED <<issued, task, submits, notes>>

\* now() passes lease_expires_at.
LeaseLapse(s) ==
  /\ row[s].lease = "live"
  /\ row' = [row EXCEPT ![s].lease = "lapsed"]
  /\ UNCHANGED <<issued, task, submits, notes>>

\* run_worker claims a batch once every execution of the last one is over.
\* LIMIT and SKIP LOCKED may leave out any of the due rows.
Claim(w, batch) ==
  /\ \A s \in Schedules : At(w, s, "idle")
  /\ batch # {} /\ Cardinality(batch) <= BatchSize
  /\ \A s \in batch : Claimable(s) /\ issued[s] < MaxLeases
  /\ issued' = [s \in Schedules |-> IF s \in batch THEN issued[s] + 1 ELSE issued[s]]
  /\ row' = [s \in Schedules |->
       IF s \in batch
       THEN [row[s] EXCEPT !.state = "CLAIMED", !.owner = w,
                           !.token = issued'[s], !.lease = "live"]
       ELSE row[s]]
  /\ task' = [task EXCEPT ![w] = [s \in Schedules |->
       IF s \in batch
       THEN [pc |-> "claimed", token |-> issued'[s],
             seen |-> row[s].epoch, result |-> "none"]
       ELSE IdleTask]]
  /\ UNCHANGED <<submits, notes>>

-----------------------------------------------------------------------------
(* _execute_state *)

\* A committed write whose reply arrives (next), is lost to an error, or
\* meets the cancellation of the task.
Write(w, s, new, next) ==
  LET p == task[w][s].pc IN
  /\ row' = [row EXCEPT ![s] = new]
  /\ \E after \in {next, OnError(p), OnInterrupt(p)} : Goto(w, s, after)
  /\ UNCHANGED <<issued, submits, notes>>

\* A step that leaves the database alone.
Step(w, s, next) ==
  Goto(w, s, next) /\ UNCHANGED <<row, issued, submits, notes>>

Start(w, s) ==
  /\ At(w, s, "claimed")
  /\ \/ MayStart(w, s) /\ Write(w, s, [row[s] EXCEPT !.state = "RUNNING"], "started")
     \/ ~MayStart(w, s) /\ Step(w, s, "idle")

\* approval.expires_at <= now
CheckApproval(w, s) ==
  At(w, s, "started") /\ \E next \in {"expired", "checkCancel"} : Step(w, s, next)

FinishExpired(w, s) ==
  /\ At(w, s, "expired")
  /\ \/ MayFinish(w, s) /\ Write(w, s, Settled(row[s], "FAILED"), "idle")
     \/ ~MayFinish(w, s) /\ Step(w, s, "idle")

\* The two reads of cancellation_epoch, around _preflight and prepare.
CheckCancel(w, s) ==
  \E hop \in {<<"checkCancel", "preparing">>, <<"recheckCancel", "marking">>} :
    /\ At(w, s, hop[1])
    /\ Step(w, s, IF row[s].epoch = task[w][s].seen THEN hop[2] ELSE "cancelling")

Prepare(w, s) == At(w, s, "preparing") /\ Step(w, s, "recheckCancel")

\* A refusal raises PublishBlockedError.
MarkSubmitting(w, s) ==
  /\ At(w, s, "marking")
  /\ \/ MaySubmit(w, s) /\ Write(w, s, [row[s] EXCEPT !.state = "SUBMITTING"], "submitting")
     \/ ~MaySubmit(w, s) /\ Step(w, s, "failing")

\* What the platform call may come to: whether the note exists, the next step
\* and the result.  A raise, and a cancellation of the task, may come before or after the
\* platform took the note; "verified" is reported with the note's id in hand.
SubmitOutcomes ==
  [note : {TRUE}, next : {"syncing"}, result : {"VERIFIED"}]
  \cup [note : BOOLEAN, next : {"finishing"}, result : {"SUBMITTED_UNVERIFIED"}]
  \cup [note : BOOLEAN, next : {"failing", "cancelling"}, result : {"none"}]

Submit(w, s) ==
  /\ At(w, s, "submitting")
  /\ submits' = [submits EXCEPT ![s] = @ + 1]
  /\ \E o \in SubmitOutcomes :
       /\ notes' = [notes EXCEPT ![s] = IF o.note THEN @ + 1 ELSE @]
       /\ task' = [task EXCEPT ![w][s] = [@ EXCEPT !.pc = o.next, !.result = o.result]]
  /\ UNCHANGED <<row, issued>>

\* post_publish_sync.enqueue_for_result, for a verified note only.
EnqueueSync(w, s) == At(w, s, "syncing") /\ Step(w, s, "finishing")

Finish(w, s) ==
  /\ At(w, s, "finishing")
  /\ \/ MayFinish(w, s) /\ Write(w, s, Settled(row[s], task[w][s].result), "idle")
     \/ ~MayFinish(w, s) /\ Step(w, s, "reconciling")

\* except Exception
FinishFailed(w, s) ==
  /\ At(w, s, "failing")
  /\ \/ MayFinish(w, s) /\ Write(w, s, Settled(row[s], "FAILED"), "idle")
     \/ ~MayFinish(w, s) /\ Step(w, s, "reconcilingFailure")

\* except asyncio.CancelledError
FinishCancelled(w, s) ==
  /\ At(w, s, "cancelling")
  /\ \/ MayFinish(w, s) /\ Write(w, s, Settled(row[s], "CANCELLED"), "idle")
     \/ ~MayFinish(w, s) /\ Step(w, s, "idle")

Reconcile(w, s) ==
  /\ task[w][s].pc \in {"reconciling", "reconcilingFailure"}
  /\ \/ /\ MayReconcile(w, s)
        /\ Write(w, s, Settled(row[s], "RECONCILIATION_REQUIRED"), "idle")
     \/ ~MayReconcile(w, s) /\ Step(w, s, "idle")

\* heartbeat_publish_lease; renewing a lease that is still live changes nothing.
Heartbeat(w, s) ==
  /\ task[w][s].pc \in Beating
  /\ Holds(w, s)
  /\ row[s].state \in {"CLAIMED", "RUNNING", "SUBMITTING"}
  /\ row[s].lease = "lapsed"
  /\ row' = [row EXCEPT ![s].lease = "live"]
  /\ UNCHANGED <<issued, task, submits, notes>>

-----------------------------------------------------------------------------
(* Failures *)

\* The call at hand raises before it had an effect.
CallFails(w, s) ==
  /\ task[w][s].pc \in Active
  /\ Step(w, s, OnError(task[w][s].pc))

\* asyncio cancels the task: an interrupt of the scheduler-worker command
\* cancels run_worker, and with it the executions it gathers.
Interrupt(w, s) ==
  /\ task[w][s].pc \in Active
  /\ Step(w, s, OnInterrupt(task[w][s].pc))

\* The process dies and is replaced; its rows keep their lease columns.
Crash(w) ==
  /\ \E s \in Schedules : task[w][s].pc \in Active
  /\ task' = [task EXCEPT ![w] = [s \in Schedules |-> IdleTask]]
  /\ UNCHANGED <<row, issued, submits, notes>>

-----------------------------------------------------------------------------
Execute(w, s) ==
  \/ Start(w, s) \/ CheckApproval(w, s) \/ FinishExpired(w, s)
  \/ CheckCancel(w, s) \/ Prepare(w, s) \/ MarkSubmitting(w, s)
  \/ Submit(w, s) \/ EnqueueSync(w, s) \/ Finish(w, s)
  \/ FinishFailed(w, s) \/ FinishCancelled(w, s) \/ Reconcile(w, s)

Next ==
  \/ \E s \in Schedules : Schedule(s) \/ RequestCancel(s) \/ LeaseLapse(s)
  \/ \E w \in Workers, s \in Schedules :
       Execute(w, s) \/ Heartbeat(w, s) \/ CallFails(w, s) \/ Interrupt(w, s)
  \/ \E w \in Workers : Crash(w) \/ \E batch \in SUBSET Schedules : Claim(w, batch)

Spec == Init /\ [][Next]_vars

\* No live execution renews the lease of s.
Abandoned(s) == ~\E w \in Workers : task[w][s].pc \in Active /\ Holds(w, s)

\* Calls return or raise, the clock passes the expiry of a lease nobody
\* renews, and the worker loops keep polling for due rows.
Fairness ==
  /\ \A w \in Workers, s \in Schedules : WF_vars(Execute(w, s))
  /\ \A s \in Schedules :
       /\ WF_vars(Abandoned(s) /\ LeaseLapse(s))
       /\ SF_vars(\E w \in Workers, batch \in SUBSET Schedules :
                    s \in batch /\ Claim(w, batch))

FairSpec == Spec /\ Fairness

-----------------------------------------------------------------------------
(* Properties *)

\* Every variable has its type; in particular the state column only ever holds
\* one of the ten known states.
TypeOK ==
  /\ row \in [Schedules -> Rows]
  /\ issued \in [Schedules -> Nat]
  /\ task \in [Workers -> [Schedules -> Tasks]]
  /\ submits \in [Schedules -> Nat]
  /\ notes \in [Schedules -> Nat]

\* The external submission of a schedule is attempted at most once, whatever
\* leases lapse, workers die, replies are lost or claims are repeated.
AtMostOneSubmit == \A s \in Schedules : submits[s] <= 1

\* A worker that is about to call publisher.submit still owns the row, and the
\* row already says SUBMITTING: nobody can claim, cancel or settle it meanwhile.
SubmitterOwnsRow ==
  \A w \in Workers, s \in Schedules :
    At(w, s, "submitting") => Holds(w, s) /\ row[s].state = "SUBMITTING"

\* Once the platform was called, the row never looks as if nothing had been
\* sent: it is not claimable and not an accepted cancellation.
SubmittedNeverLooksUnsent ==
  \A s \in Schedules : submits[s] > 0 =>
    row[s].state \notin {"ABSENT", "SCHEDULED", "CLAIMED", "RUNNING", "CANCEL_REQUESTED"}

\* RECONCILIATION_REQUIRED, the state that asks a human to look, is written
\* only for a row whose cancellation was accepted after the boundary.
ReconciliationOnlyAfterCancel ==
  \A s \in Schedules : row[s].state = "RECONCILIATION_REQUIRED" => row[s].epoch > 0

\* A worker that holds an old lease token may go on with its own steps but
\* none of them changes the row.
FencedWrites ==
  [][\A w \in Workers, s \in Schedules :
       (/\ task[w][s].pc \in Active
        /\ ~Holds(w, s)
        /\ task'[w][s] # task[w][s]) => row'[s] = row[s]]_vars

\* A final state is final.
FinalStates == Verdicts \cup {"RECONCILIATION_REQUIRED"}
FinalIsFinal ==
  [][\A s \in Schedules :
       row[s].state \in FinalStates => row'[s].state = row[s].state]_vars

\* From the moment request_publish_cancel answers with an epoch, no worker
\* writes a verdict: the row ends as CANCEL_REQUESTED or for reconciliation.
AcceptedCancelBarsVerdict ==
  [][\A s \in Schedules :
       (row[s].epoch > 0 /\ row'[s].state \in Verdicts)
         => row[s].state = row'[s].state]_vars

\* Nothing is forgotten: a schedule leaves the states a worker has to act on
\* (SUBMITTING is left to an operator once its worker is gone), as long as
\* the model still has a lease token to give.
EveryScheduleMovesOn ==
  \A s \in Schedules :
    row[s].state \in {"SCHEDULED", "CLAIMED", "RUNNING"} ~>
      \/ row[s].state \notin {"SCHEDULED", "CLAIMED", "RUNNING"}
      \/ issued[s] = MaxLeases

\* The abstract specification: one submission, decided at one point.
PhaseOf(state) ==
  CASE state \in {"ABSENT", "SCHEDULED", "CLAIMED", "RUNNING"} -> "open"
    [] state = "SUBMITTING" -> "committed"
    [] OTHER -> "closed"

Phase == [s \in Schedules |-> PhaseOf(row[s].state)]

Once == INSTANCE PublishOnce WITH phase <- Phase, sent <- submits

ImplementsPublishOnce == Once!Spec

-----------------------------------------------------------------------------
(* A statement of the repository that the code does not keep *)

\* A row that says FAILED has no note behind it: an uncertain outcome is to be
\* kept for reconciliation (postgres.py:454, distributed.py:222).
FailedMeansNotPublished ==
  \A s \in Schedules : row[s].state = "FAILED" => notes[s] = 0
=============================================================================
