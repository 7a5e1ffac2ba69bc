------------------------------ MODULE LocalJobs ------------------------------
(***************************************************************************)
(* The single-process mode of JobService (jobs/service.py) with the        *)
(* in-memory job repository and the in-memory event broker                 *)
(* (streaming/broker.py) it publishes to: submissions wait for room in a   *)
(* bounded queue, a fixed pool of workers runs the jobs, a client cancels  *)
(* them, SSE followers replay and wait for events, and the process shuts   *)
(* down.  Everything runs on one event loop and every lock in these paths  *)
(* is free when it is asked for, so a step is the code between two awaits  *)
(* that really suspend: the put on a full queue, the get on an empty one,  *)
(* the await of a job's task, a yield to a follower, a sleep.              *)
(***************************************************************************)
EXTENDS Naturals, Sequences, FiniteSets

CONSTANTS
    LocalIds,        \* jobs a client may submit
    LocalWorkers,    \* job_worker_concurrency workers
    Followers,       \* SSE connections
    QueueCapacity,   \* job_queue_capacity
    Retention,       \* sse_retention_events
    NoJob            \* no job

ASSUME LocalAssumption ==
    /\ QueueCapacity \in Nat \ {0}
    /\ Retention \in Nat \ {0}
    /\ NoJob \notin LocalIds

VARIABLES
    record,     \* InMemoryJobRepository: the status of every job
    queue,      \* asyncio.Queue of job ids
    putting,    \* submissions that wait for room in the queue
    runners,    \* _runners: jobs whose runner nobody took yet
    flagged,    \* _cancelled
    worker,     \* what every worker task does
    phase,      \* of the service: open, draining, gathering, down
    promised,   \* jobs for which cancel returned True
    log,        \* the broker's retained events of every job
    seqNo,      \* the broker's last event id of every job
    age,        \* of a job's terminal event: none, fresh, old (past the TTL)
    follower    \* every SSE connection

localVars == <<record, queue, putting, runners, flagged, worker, phase,
               promised, log, seqNo, age, follower>>

Ends == {"completed", "failed", "cancelled"}
LocalStatuses == {"ABSENT", "PENDING", "RUNNING", "COMPLETED", "FAILED", "CANCELLED"}
Idle == [job |-> NoJob, task |-> "none"]
NotFollowing == [job |-> NoJob, cursor |-> 0, batch |-> <<>>]
-----------------------------------------------------------------------------
(* The broker. *)

\* _cleanup: what is left of a log, a counter or an age when cleaning takes
\* place: finished jobs past the TTL that nobody follows are forgotten.
Forgotten(f) == {j \in LocalIds : /\ age[j] = "old"
                                  /\ \A g \in Followers : f[g].job # j}
Clean(f) ==
    /\ log' = [j \in LocalIds |-> IF j \in Forgotten(f) THEN <<>> ELSE log[j]]
    /\ seqNo' = [j \in LocalIds |-> IF j \in Forgotten(f) THEN 0 ELSE seqNo[j]]
    /\ age' = [j \in LocalIds |-> IF j \in Forgotten(f) THEN "none" ELSE age[j]]

\* The retained part of a log, after a faulty variant that keeps its head.
Newest(s) == SubSeq(s, Len(s) - Retention + 1, Len(s))
TrimTail(s) == IF Len(s) > Retention THEN SubSeq(s, 1, Retention) ELSE s
Trim(s) == IF Len(s) > Retention THEN Newest(s) ELSE s

\* publish appends to the log of its job; only every hundredth call cleans
\* up, which LazyClean leaves to chance as a step of its own.
Publish(j, type) ==
    /\ seqNo' = [seqNo EXCEPT ![j] = @ + 1]
    /\ log' = [log EXCEPT ![j] = Trim(Append(@, [id |-> seqNo[j] + 1, type |-> type]))]
    /\ age' = IF type \in Ends THEN [age EXCEPT ![j] = "fresh"] ELSE age
    /\ UNCHANGED follower

Replay(j, after) == SelectSeq(log[j], LAMBDA e : e.id > after)

jobState == <<record, queue, putting, runners, flagged, worker, phase, promised>>
brokerState == <<log, seqNo, age, follower>>

LazyClean ==
    /\ Forgotten(follower) # {}
    /\ Clean(follower)
    /\ UNCHANGED <<jobState, follower>>

\* redis_event_ttl_seconds pass after the terminal event of j.
Expire(j) ==
    /\ age[j] = "fresh"
    /\ j \notin putting
    /\ age' = [age EXCEPT ![j] = "old"]
    /\ UNCHANGED <<jobState, log, seqNo, follower>>

\* GET /v1/jobs/{id}/events of an existing job, with a Last-Event-ID that an
\* earlier connection was given.
Follow(f, j, cursor) ==
    /\ follower[f] = NotFollowing
    /\ record[j] # "ABSENT"
    /\ follower' = [follower EXCEPT ![f] = [job |-> j, cursor |-> cursor, batch |-> <<>>]]
    /\ UNCHANGED <<jobState, log, seqNo, age>>

\* The generator finds events after its cursor and takes the whole list.
Wake(f) ==
    LET me == follower[f]  events == Replay(me.job, me.cursor) IN
    /\ me.job # NoJob /\ me.batch = <<>> /\ events # <<>>
    /\ follower' = [follower EXCEPT ![f].batch = events]
    /\ UNCHANGED <<jobState, log, seqNo, age>>

\* The generator ends, at a terminal event or with its client: its finally
\* clause cleans up.
Leave(f) ==
    LET rest == [follower EXCEPT ![f] = NotFollowing] IN
    /\ follower' = rest
    /\ Clean(rest)
    /\ UNCHANGED jobState

Deliver(f) ==
    LET me == follower[f] IN
    /\ me.batch # <<>>
    /\ IF Head(me.batch).type \in Ends
       THEN Leave(f)
       ELSE /\ follower' = [follower EXCEPT ![f].cursor = Head(me.batch).id,
                                            ![f].batch = Tail(@)]
            /\ UNCHANGED <<jobState, log, seqNo, age>>

Disconnect(f) == follower[f] # NotFollowing /\ Leave(f)
-----------------------------------------------------------------------------
(* The service. *)

LocalInit ==
    /\ record = [j \in LocalIds |-> "ABSENT"]
    /\ queue = <<>> /\ putting = {} /\ runners = {} /\ flagged = {}
    /\ worker = [w \in LocalWorkers |-> Idle]
    /\ phase = "open" /\ promised = {}
    /\ log = [j \in LocalIds |-> <<>>]
    /\ seqNo = [j \in LocalIds |-> 0]
    /\ age = [j \in LocalIds |-> "none"]
    /\ follower = [f \in Followers |-> NotFollowing]

QueueFull == Len(queue) >= QueueCapacity

\* submit: the put takes place at once when there is room and waits otherwise.
SubmitJob(j) ==
    /\ phase = "open" /\ record[j] = "ABSENT"
    /\ record' = [record EXCEPT ![j] = "PENDING"]
    /\ runners' = runners \cup {j}
    /\ Publish(j, "accepted")
    /\ IF QueueFull THEN putting' = putting \cup {j} /\ UNCHANGED queue
               ELSE queue' = Append(queue, j) /\ UNCHANGED putting
    /\ UNCHANGED <<flagged, worker, phase, promised>>

PutLater(j) ==
    /\ j \in putting /\ ~QueueFull
    /\ queue' = Append(queue, j)
    /\ putting' = putting \ {j}
    /\ UNCHANGED <<record, runners, flagged, worker, phase, promised, brokerState>>

\* job_enqueue_timeout_seconds pass: FAILED, whatever the record says now.
PutTimesOut(j) ==
    /\ j \in putting
    /\ putting' = putting \ {j}
    /\ runners' = runners \ {j}
    /\ record' = [record EXCEPT ![j] = "FAILED"]
    /\ Publish(j, "failed")
    /\ UNCHANGED <<queue, flagged, worker, phase, promised>>

\* _worker: an entry that was cancelled, or that has lost its runner, is dropped.
Drop(w) ==
    /\ worker[w] = Idle /\ queue # <<>>
    /\ Head(queue) \in flagged \/ Head(queue) \notin runners
    /\ queue' = Tail(queue)
    /\ flagged' = flagged \ {Head(queue)}
    /\ UNCHANGED <<record, putting, runners, worker, phase, promised, brokerState>>

\* _worker and the head of _execute, up to the await of the job's task.
StartJob(w) ==
    LET j == Head(queue) IN
    /\ worker[w] = Idle /\ queue # <<>>
    /\ j \notin flagged /\ j \in runners
    /\ queue' = Tail(queue)
    /\ runners' = runners \ {j}
    /\ record' = [record EXCEPT ![j] = "RUNNING"]
    /\ Publish(j, "started")
    /\ worker' = [worker EXCEPT ![w] = [job |-> j, task |-> "live"]]
    /\ UNCHANGED <<putting, flagged, phase, promised>>

\* The job's task ends; a task that was told to stop ends cancelled.
TaskEnds(w) ==
    /\ \E end \in Ends :
          /\ worker[w].task = "live" => end # "cancelled"
          /\ worker[w].task = "cancelling" => end = "cancelled"
          /\ worker' = [worker EXCEPT ![w].task = end]
    /\ worker[w].task \in {"live", "cancelling"}
    /\ UNCHANGED <<record, queue, putting, runners, flagged, phase, promised, brokerState>>

Verdict(end) == CASE end = "completed" -> "COMPLETED"
                  [] end = "failed" -> "FAILED"
                  [] end = "cancelled" -> "CANCELLED"

\* The worker resumes after the await, writes the verdict and asks for more.
Settle(w) ==
    LET j == worker[w].job  end == worker[w].task IN
    /\ end \in Ends
    /\ record' = [record EXCEPT ![j] = Verdict(end)]
    /\ Publish(j, end)
    /\ worker' = [worker EXCEPT ![w] = Idle]
    /\ UNCHANGED <<queue, putting, runners, flagged, phase, promised>>

\* cancel of a job whose task runs.
CancelRunning(j) ==
    \E w \in LocalWorkers :
        /\ worker[w].job = j /\ worker[w].task \in {"live", "cancelling"}
        /\ worker' = [worker EXCEPT ![w].task = "cancelling"]
        /\ promised' = promised \cup {j}
        /\ UNCHANGED <<record, queue, putting, runners, flagged, phase, brokerState>>

\* cancel of a job that waits, in the queue or for a place in it; after a
\* faulty variant that leaves the runner and the flag as they are.
CancelPendingByRecord(j) ==
    /\ record[j] = "PENDING" /\ j \in runners
    /\ record' = [record EXCEPT ![j] = "CANCELLED"]
    /\ promised' = promised \cup {j}
    /\ Publish(j, "cancelled")
    /\ UNCHANGED <<queue, putting, runners, flagged, worker, phase>>
CancelPending(j) ==
    /\ record[j] = "PENDING" /\ j \in runners
    /\ flagged' = flagged \cup {j}
    /\ runners' = runners \ {j}
    /\ record' = [record EXCEPT ![j] = "CANCELLED"]
    /\ promised' = promised \cup {j}
    /\ Publish(j, "cancelled")
    /\ UNCHANGED <<queue, putting, worker, phase>>

Shutdown ==
    /\ phase = "open"
    /\ phase' = "draining"
    /\ UNCHANGED <<record, queue, putting, runners, flagged, worker, promised, brokerState>>

\* The queue is joined or graceful_shutdown_seconds pass; then the tasks and
\* the workers are cancelled.  The cancellation of a worker that awaits a task
\* goes to the task, and the except clause of _execute swallows it: only idle
\* workers end.
StopWorkers ==
    /\ phase = "draining"
    /\ phase' = "gathering"
    /\ worker' = [w \in LocalWorkers |->
                    CASE worker[w].task = "none" -> [job |-> NoJob, task |-> "gone"]
                      [] worker[w].task = "live" -> [worker[w] EXCEPT !.task = "cancelling"]
                      [] worker[w].task \in Ends -> [worker[w] EXCEPT !.task = "cancelled"]
                      [] OTHER -> worker[w]]
    /\ UNCHANGED <<record, queue, putting, runners, flagged, promised, brokerState>>

ShutdownEnds ==
    /\ phase = "gathering"
    /\ \A w \in LocalWorkers : worker[w].task = "gone"
    /\ phase' = "down"
    /\ UNCHANGED <<record, queue, putting, runners, flagged, worker, promised, brokerState>>

LocalNext ==
    \/ LazyClean \/ Shutdown \/ StopWorkers \/ ShutdownEnds
    \/ \E j \in LocalIds :
          SubmitJob(j) \/ PutLater(j) \/ PutTimesOut(j) \/ CancelRunning(j)
          \/ CancelPending(j) \/ Expire(j)
    \/ \E w \in LocalWorkers : Drop(w) \/ StartJob(w) \/ TaskEnds(w) \/ Settle(w)
    \/ \E f \in Followers : Wake(f) \/ Deliver(f) \/ Disconnect(f)
    \/ \E f \in Followers, j \in LocalIds : \E c \in 0 .. seqNo[j] : Follow(f, j, c)

LocalSpec == LocalInit /\ [][LocalNext]_localVars

\* The event loop runs every task that can go on; handlers end.
WorkerStep(w) == Drop(w) \/ StartJob(w) \/ TaskEnds(w) \/ Settle(w)
FollowerStep(f) == Wake(f) \/ Deliver(f)
PutStep(j) == PutLater(j) \/ PutTimesOut(j)
LocalFairness ==
    /\ \A w \in LocalWorkers : WF_localVars(WorkerStep(w))
    /\ \A f \in Followers : WF_localVars(FollowerStep(f))
    /\ \A j \in LocalIds : WF_localVars(PutStep(j))
-----------------------------------------------------------------------------
LocalTypeOK ==
    /\ record \in [LocalIds -> LocalStatuses]
    /\ queue \in Seq(LocalIds) /\ Len(queue) <= QueueCapacity
    /\ putting \subseteq LocalIds /\ runners \subseteq LocalIds
    /\ flagged \subseteq LocalIds /\ promised \subseteq LocalIds
    /\ worker \in [LocalWorkers ->
          [job : LocalIds \cup {NoJob}, task : {"none", "live", "cancelling", "gone"} \cup Ends]]
    /\ phase \in {"open", "draining", "gathering", "down"}

\* A client that was told its job is cancelled (cancel returned True, the HTTP
\* route answered 200) never sees it run to a result: whatever worker, queue
\* entry or waiting put the cancellation raced with, the job ends CANCELLED,
\* or FAILED when the put it was waiting in times out, and until then it is
\* a worker's task that has been told to stop.
PromiseKept ==
    \A j \in promised :
        \/ record[j] \in {"CANCELLED", "FAILED"}
        \/ \E w \in LocalWorkers : /\ worker[w].job = j
                                   /\ worker[w].task \in {"cancelling", "cancelled"}

\* An SSE connection that has been given nothing yet of a job with a log is
\* served until the job's end closes it, in spite of the log's limit and of
\* the cleaning of finished jobs, unless the service is shut down first.
FollowerSeesEnd ==
    \A f \in Followers :
        /\ follower[f].job # NoJob
        /\ follower[f].cursor = 0
        /\ log[follower[f].job] # <<>>
        ~> follower[f].job = NoJob \/ phase # "open"
=============================================================================
