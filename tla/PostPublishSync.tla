-------------------------- MODULE PostPublishSync --------------------------
(***************************************************************************)
(* The synchronisation of the metrics of published notes: one row per task *)
(* and worker loops that claim a batch of due rows under one lease and     *)
(* work it off one task after the other (operations/post_publish.py).      *)
(*                                                                         *)
(* A deployment keeps the rows in PostgreSQL (enterprise/postgres.py),     *)
(* where the write that ends a task is fenced by lease_owner, or in SQLite *)
(* (operations/repository.py), where it is not.  A transaction is one      *)
(* step.  A loop takes a new worker id for every batch; as it works on one *)
(* batch at a time, the loop itself stands for the id.                     *)
(***************************************************************************)
EXTENDS Naturals, FiniteSets

CONSTANTS
  Tasks,        \* ids of the tasks
  Workers,      \* worker loops
  NoWorker,     \* no worker
  BatchSize,    \* the limit of one claim (20 in the code)
  MaxAttempts   \* post_publish_sync_max_attempts

ASSUME NumbersAssumption == BatchSize \in Nat \ {0} /\ MaxAttempts \in Nat \ {0}
ASSUME SyncAssumption == NoWorker \notin Workers
ASSUME TasksAssumption == Tasks # {}

VARIABLES
  postgres,   \* the deployment keeps its rows in PostgreSQL; never changes
  taskRow,    \* the row of each task
  batch,      \* for each worker: claimed tasks it has not ended, with the copy
              \* of attempts that the claim returned
  step,       \* for each worker: what it does with its current task
  current,    \* for each worker: the task it works on
  metrics,    \* history: tasks whose metrics were saved
  claims,     \* history: how often each task was claimed
  overtaken   \* history: tasks claimed while another worker still had them

syncVars == <<postgres, taskRow, batch, step, current, metrics, claims, overtaken>>

-----------------------------------------------------------------------------
TaskStatuses == {"ABSENT", "PENDING", "RUNNING", "RETRY", "COMPLETED", "DEAD"}

\* due: due_at has passed; lapsed: lease_expires_at has passed.
Rows ==
  [status : TaskStatuses, attempts : 0 .. MaxAttempts, owner : Workers \cup {NoWorker},
   due : BOOLEAN, lapsed : BOOLEAN]

AbsentRow ==
  [status |-> "ABSENT", attempts |-> 0, owner |-> NoWorker, due |-> FALSE, lapsed |-> FALSE]

SyncSteps == {"idle", "syncing", "saving", "completing", "failing"}

\* A batch maps its tasks to the copies of their attempts.
Batches == UNION {[ts -> 1 .. MaxAttempts] : ts \in SUBSET Tasks}
EmptyBatch == [t \in {} |-> 1]

Has(w, t) == t \in DOMAIN batch[w]

-----------------------------------------------------------------------------
(* Conditions of the code, each after the faulty variants that the         *)
(* properties below are meant to notice.                                   *)

ClaimableForever(t) ==
  /\ taskRow[t].due
  /\ \/ taskRow[t].status \in {"PENDING", "RETRY"}
     \/ taskRow[t].status = "RUNNING" /\ taskRow[t].lapsed

ClaimableWaiting(t) ==
  /\ taskRow[t].due /\ taskRow[t].attempts < MaxAttempts
  /\ taskRow[t].status \in {"PENDING", "RETRY"}

\* The WHERE clause of claim_post_publish_sync, of both stores.
Claimable(t) ==
  /\ taskRow[t].due /\ taskRow[t].attempts < MaxAttempts
  /\ \/ taskRow[t].status \in {"PENDING", "RETRY"}
     \/ taskRow[t].status = "RUNNING" /\ taskRow[t].lapsed

MayEndAnyOwner(w, t) == TRUE
\* Whether finish_post_publish_sync finds the row: PostgreSQL asks for the owner.
MayEnd(w, t) == postgres => taskRow[t].owner = w

KnownAttemptsBeforeClaim(w, t) == IF postgres THEN taskRow[t].attempts ELSE batch[w][t] - 1
\* PostgreSQL reads the row again, SQLite writes the copy of the claim.
KnownAttempts(w, t) == IF postgres THEN taskRow[t].attempts ELSE batch[w][t]

StatusAfterFailureLate(n) == IF n <= MaxAttempts THEN "RETRY" ELSE "DEAD"
StatusAfterFailure(n) == IF n < MaxAttempts THEN "RETRY" ELSE "DEAD"

-----------------------------------------------------------------------------
SyncInit ==
  /\ postgres \in BOOLEAN
  /\ taskRow = [t \in Tasks |-> AbsentRow]
  /\ batch = [w \in Workers |-> EmptyBatch]
  /\ step = [w \in Workers |-> "idle"]
  /\ current = [w \in Workers |-> CHOOSE t \in Tasks : TRUE]
  /\ metrics = {}
  /\ claims = [t \in Tasks |-> 0]
  /\ overtaken = {}

\* enqueue_for_result: a task becomes due some minutes after the publication.
Enqueue(t) ==
  /\ taskRow[t].status = "ABSENT"
  /\ taskRow' = [taskRow EXCEPT ![t].status = "PENDING"]
  /\ UNCHANGED <<postgres, batch, step, current, metrics, claims, overtaken>>

\* Time passes.
BecomeDue(t) ==
  /\ taskRow[t].status \in {"PENDING", "RETRY"} /\ ~taskRow[t].due
  /\ taskRow' = [taskRow EXCEPT ![t].due = TRUE]
  /\ UNCHANGED <<postgres, batch, step, current, metrics, claims, overtaken>>

LeaseLapse(t) ==
  /\ taskRow[t].status = "RUNNING" /\ ~taskRow[t].lapsed
  /\ taskRow' = [taskRow EXCEPT ![t].lapsed = TRUE]
  /\ UNCHANGED <<postgres, batch, step, current, metrics, claims, overtaken>>

-----------------------------------------------------------------------------
(* run_once *)

\* Start the first task of what is left, or end the batch.
Continue(w, left) ==
  /\ batch' = [batch EXCEPT ![w] = left]
  /\ IF DOMAIN left = {}
     THEN step' = [step EXCEPT ![w] = "idle"] /\ UNCHANGED current
     ELSE /\ step' = [step EXCEPT ![w] = "syncing"]
          /\ \E t \in DOMAIN left : current' = [current EXCEPT ![w] = t]

\* claim_post_publish_sync: as many of the due tasks as the limit allows.
Claim(w) ==
  /\ step[w] = "idle"
  /\ \E ts \in SUBSET {t \in Tasks : Claimable(t)} :
       /\ ts # {}
       /\ Cardinality(ts) <= BatchSize
       /\ Cardinality(ts) < BatchSize => ts = {t \in Tasks : Claimable(t)}
       /\ taskRow' = [t \in Tasks |->
            IF t \in ts
            THEN [taskRow[t] EXCEPT !.status = "RUNNING", !.attempts = @ + 1,
                                !.owner = w, !.lapsed = FALSE]
            ELSE taskRow[t]]
       /\ Continue(w, [t \in ts |-> taskRow[t].attempts + 1])
       /\ claims' = [t \in Tasks |-> IF t \in ts THEN claims[t] + 1 ELSE claims[t]]
       /\ overtaken' = overtaken \cup {t \in ts : \E v \in Workers : Has(v, t)}
  /\ UNCHANGED <<postgres, metrics>>

SyncGoto(w, s) ==
  step' = [step EXCEPT ![w] = s] /\ UNCHANGED <<batch, current>>

\* adapter.sync returns the metrics of the note or raises.
ReadMetrics(w) ==
  /\ step[w] = "syncing"
  /\ \E s \in {"saving", "failing"} : SyncGoto(w, s)
  /\ UNCHANGED <<postgres, taskRow, metrics, claims, overtaken>>

SaveUnheeded(w) ==
  /\ step[w] = "saving"
  /\ metrics' \in {metrics, metrics \cup {current[w]}}
  /\ SyncGoto(w, "completing")
  /\ UNCHANGED <<postgres, taskRow, claims, overtaken>>

\* save_published_metrics or save_metrics; the reply of PostgreSQL's commit may
\* be lost.
Save(w) ==
  /\ step[w] = "saving"
  /\ \/ metrics' = metrics \cup {current[w]} /\ SyncGoto(w, "completing")
     \/ postgres /\ metrics' = metrics \cup {current[w]} /\ SyncGoto(w, "failing")
     \/ UNCHANGED metrics /\ SyncGoto(w, "failing")
  /\ UNCHANGED <<postgres, taskRow, claims, overtaken>>

\* finish_post_publish_sync; retry_at moves due_at into the future.
SyncEnd(w, status) ==
  LET t == current[w] IN
  taskRow' = IF MayEnd(w, t)
         THEN [taskRow EXCEPT ![t] =
                 [status |-> status, attempts |-> KnownAttempts(w, t), owner |-> NoWorker,
                  due |-> status = "COMPLETED", lapsed |-> FALSE]]
         ELSE taskRow

Rest(w) == [t \in DOMAIN batch[w] \ {current[w]} |-> batch[w][t]]

\* The successful end.  The reply of PostgreSQL's commit may be lost, and then
\* the except clause calls finish once more.
Complete(w) ==
  /\ step[w] = "completing"
  /\ \/ SyncEnd(w, "COMPLETED") /\ Continue(w, Rest(w))
     \/ postgres /\ SyncEnd(w, "COMPLETED") /\ SyncGoto(w, "failing")
     \/ UNCHANGED taskRow /\ SyncGoto(w, "failing")
  /\ UNCHANGED <<postgres, metrics, claims, overtaken>>

\* The except clause.
Fail(w) ==
  /\ step[w] = "failing"
  /\ SyncEnd(w, StatusAfterFailure(KnownAttempts(w, current[w])))
  /\ Continue(w, Rest(w))
  /\ UNCHANGED <<postgres, metrics, claims, overtaken>>

\* The process dies, the loop is cancelled, or the write of the except clause
\* raises (with or without effect) and ends the loop; a new one starts.  The
\* batch is left behind.
SyncCrash(w) ==
  /\ step[w] # "idle"
  /\ \/ UNCHANGED taskRow
     \/ /\ step[w] = "failing"
        /\ SyncEnd(w, StatusAfterFailure(KnownAttempts(w, current[w])))
  /\ Continue(w, EmptyBatch)
  /\ UNCHANGED <<postgres, metrics, claims, overtaken>>

-----------------------------------------------------------------------------
SyncWork(w) == ReadMetrics(w) \/ Save(w) \/ Complete(w) \/ Fail(w)

SyncNext ==
  \/ \E t \in Tasks : Enqueue(t) \/ BecomeDue(t) \/ LeaseLapse(t)
  \/ \E w \in Workers : Claim(w) \/ SyncWork(w) \/ SyncCrash(w)

SyncSpec == SyncInit /\ [][SyncNext]_syncVars

\* Calls return or raise, the loops keep claiming, and time passes.
SyncFairness ==
  /\ \A w \in Workers : WF_syncVars(SyncWork(w))
  /\ \A t \in Tasks :
       /\ WF_syncVars(BecomeDue(t)) /\ WF_syncVars(LeaseLapse(t))
       /\ SF_syncVars(\E w \in Workers : Claim(w) /\ taskRow'[t].attempts > taskRow[t].attempts)

SyncFairSpec == SyncSpec /\ SyncFairness

-----------------------------------------------------------------------------
(* Properties *)

\* Every variable has its type: no row counts more than MaxAttempts attempts.
SyncTypeOK ==
  /\ postgres \in BOOLEAN
  /\ taskRow \in [Tasks -> Rows]
  /\ batch \in [Workers -> Batches]
  /\ step \in [Workers -> SyncSteps]
  /\ current \in [Workers -> Tasks]
  /\ metrics \in SUBSET Tasks
  /\ claims \in [Tasks -> Nat]
  /\ overtaken \in SUBSET Tasks

\* Tasks of which the store can be trusted: PostgreSQL fences, SQLite relies on
\* batches that end within their lease.
Sound(t) == postgres \/ t \notin overtaken

\* A task is synchronised at most MaxAttempts times, whatever crashes, lapses
\* or is overtaken; in SQLite an overtaken worker may write its stale copy of
\* attempts and so grant another one.
AttemptsCountClaims == \A t \in Tasks : Sound(t) => claims[t] = taskRow[t].attempts

\* A task that is COMPLETED or DEAD stays so: neither an overtaken worker nor
\* the handler of a lost reply takes it back.
EndIsFinal ==
  [][\A t \in Tasks :
       (Sound(t) /\ taskRow[t].status \in {"COMPLETED", "DEAD"})
         => taskRow'[t].status = taskRow[t].status]_syncVars

\* COMPLETED means that the metrics were saved, even if the worker that says so
\* is not the one that has the lease.
CompletedHasMetrics ==
  \A t \in Tasks : taskRow[t].status = "COMPLETED" => t \in metrics

\* A task that was given up used all its attempts, and one that waits for a
\* retry is within reach of the claim, also after the writes of stale copies.
DeadIsExhausted ==
  \A t \in Tasks :
    /\ taskRow[t].status = "DEAD" => taskRow[t].attempts = MaxAttempts
    /\ taskRow[t].status = "RETRY" => taskRow[t].attempts < MaxAttempts

\* Every task is completed or given up in the end, whichever workers die,
\* unless its last attempt ended without an answer: such a row stays RUNNING
\* and no claim returns it.
EveryTaskSettles ==
  \A t \in Tasks :
    <>[](\/ taskRow[t].status \in {"ABSENT", "COMPLETED", "DEAD"}
         \/ taskRow[t].status = "RUNNING" /\ taskRow[t].attempts = MaxAttempts
         \/ ~Sound(t))
=============================================================================
