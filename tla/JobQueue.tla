------------------------------ MODULE JobQueue ------------------------------
(***************************************************************************)
(* The distributed job queue: job records and cancel keys in Redis         *)
(* (jobs/repository.py), one Redis stream with a consumer group            *)
(* (jobs/distributed.py), the submitting and cancelling API                *)
(* (jobs/service.py) and the dead-letter stream (jobs/dlq.py).             *)
(*                                                                         *)
(* One Redis command, or one Lua script, is one atomic step.  A slot is    *)
(* one of the job_worker_concurrency places of one of the worker           *)
(* processes; XACK does not ask who consumed an entry, so the model need   *)
(* not know which process a slot belongs to.  Inputs, results, events and  *)
(* the expiry of keys after redis_job_ttl_seconds are left out.            *)
(***************************************************************************)
EXTENDS Naturals, FiniteSets, Sequences

CONSTANTS
  Jobs,         \* job ids
  Slots,        \* places for concurrent executions, in all worker processes
  MaxRetries,   \* job_max_retries
  Capacity,     \* job_queue_capacity
  FaultKinds,   \* bound: the kinds of faults that may happen, of "late" and "lost"
  MaxEntries,   \* bound: entries ever added to the stream
  MaxDrops      \* bound: executions that die and leave their entry behind

ASSUME NumbersAssumption ==
  /\ MaxRetries \in Nat
  /\ Capacity \in Nat \ {0}
  /\ MaxEntries \in Nat
  /\ MaxDrops \in Nat

VARIABLES
  store,      \* status of the job record
  cancelKey,  \* does the cancel key of the job exist?
  stream,     \* every entry ever added, by id; its state says whether it is still there
  dead,       \* dead letters, per job
  submitter,  \* JobService.submit, per job
  canceller,  \* JobService.cancel, per job
  exec,       \* _process, per slot
  drops,      \* executions dropped so far
  faults      \* history: "late", an entry was taken from an execution that had
              \* outlasted job_visibility_timeout_ms; "lost", the reply of a
              \* command that had its effect was lost

vars == <<store, cancelKey, stream, dead, submitter, canceller, exec, drops, faults>>

-----------------------------------------------------------------------------
Final == {"COMPLETED", "FAILED", "CANCELLED"}
Statuses == {"absent", "PENDING", "RUNNING"} \cup Final

\* "new": not delivered; "pending": delivered, not acknowledged; "gone":
\* acknowledged and deleted; "trimmed": cut off by the MAXLEN of a replay.
Entries ==
  [job : Jobs, attempt : 0 .. MaxRetries, replayed : BOOLEAN,
   state : {"new", "pending", "gone", "trimmed"}]

Live(i) == stream[i].state \in {"new", "pending"}
Depth == Cardinality({i \in DOMAIN stream : Live(i)})

\* The steps of _process.
Steps ==
  {"fetching", "checking", "starting", "announcing", "running", "rechecking",
   "completing", "marking", "announcingEnd", "finishing",
   "requeueing", "readding", "failing", "announcingFailure", "burying"}

\* guarded: an exception is caught by the except clause of _process.
Execs == [pc : Steps \cup {"idle"}, id : Nat, guarded : BOOLEAN]

IdleExec == [pc |-> "idle", id |-> 0, guarded |-> FALSE]

At(x, p) == exec[x].pc = p
Entry(x) == stream[exec[x].id]

-----------------------------------------------------------------------------
(* Conditions of the code, each after the faulty variants that the         *)
(* properties below are meant to notice.                                   *)

DiscardableOrRunning(status) == status \in {"absent", "RUNNING"} \cup Final
\* A job record in one of these states is not run (again).
Discardable(status) == status \in {"absent"} \cup Final

MayRetryOnceMore(attempt) == attempt <= MaxRetries
MayRetryOnceLess(attempt) == attempt + 1 < MaxRetries
MayRetry(attempt) == attempt < MaxRetries

HasRoomForOneMore(n) == n <= Capacity
\* The script of enqueue.
HasRoom(n) == n < Capacity

MayCompleteUnlessMarked(j) == store[j] \notin {"absent", "CANCELLED"}
\* The script of complete_if_not_cancelled.
MayComplete(j) == ~cancelKey[j] /\ store[j] \notin {"absent", "CANCELLED"}

UnderWay(i) == \E x \in Slots : exec[x].id = i

NeverReclaimable(i) == FALSE
\* XAUTOCLAIM takes entries idle for longer than the visibility timeout.
Reclaimable(i) == stream[i].state = "pending"

-----------------------------------------------------------------------------
(* Building blocks *)

Add(j, attempt, replayed) ==
  Append(stream, [job |-> j, attempt |-> attempt, replayed |-> replayed, state |-> "new"])

WithState(i, state) == [stream EXCEPT ![i].state = state]

\* _finish_message: acknowledge and delete, in one transaction.
Finished(i) == WithState(i, IF stream[i].state = "trimmed" THEN "trimmed" ELSE "gone")

\* Whether an execution that was guarded still is, at step p.
GuardedAt(p, guarded) == p = "running" \/ (guarded /\ p \notin {"requeueing", "failing"})

Goto(x, p) ==
  exec' = [exec EXCEPT ![x] =
    IF p = "idle" THEN IdleExec
    ELSE [pc |-> p, id |-> exec[x].id, guarded |-> GuardedAt(p, exec[x].guarded)]]

\* An exception: the except clause retries or fails the job, and where nothing
\* catches it the task ends and its entry stays pending.
Raise(x) ==
  IF exec[x].guarded
  THEN /\ Goto(x, IF MayRetry(Entry(x).attempt) THEN "requeueing" ELSE "failing")
       /\ UNCHANGED drops
  ELSE /\ drops < MaxDrops /\ drops' = drops + 1
       /\ Goto(x, "idle")

\* A command that had its effect: the reply arrives, or is lost.
Then(x, p) ==
  \/ Goto(x, p) /\ UNCHANGED <<drops, faults>>
  \/ "lost" \in FaultKinds /\ Raise(x) /\ faults' = faults \cup {"lost"}

-----------------------------------------------------------------------------
Init ==
  /\ store = [j \in Jobs |-> "absent"]
  /\ cancelKey = [j \in Jobs |-> FALSE]
  /\ stream = <<>>
  /\ dead = [j \in Jobs |-> 0]
  /\ submitter = [j \in Jobs |-> "none"]
  /\ canceller = [j \in Jobs |-> "idle"]
  /\ exec = [x \in Slots |-> IdleExec]
  /\ drops = 0
  /\ faults = {}

(* JobService.submit.  Any of its calls may raise; the client then gets no id. *)

Create(j) ==
  /\ submitter[j] = "none"
  /\ store' = [store EXCEPT ![j] = "PENDING"]
  /\ \E p \in {"created", "failed"} : submitter' = [submitter EXCEPT ![j] = p]
  /\ UNCHANGED <<cancelKey, stream, dead, canceller, exec, drops, faults>>

Enqueue(j) ==
  /\ submitter[j] = "created"
  /\ \/ /\ HasRoom(Depth)
        /\ Len(stream) < MaxEntries
        /\ stream' = Add(j, 0, FALSE)
        /\ \E p \in {"done", "failed"} : submitter' = [submitter EXCEPT ![j] = p]
     \/ /\ ~HasRoom(Depth)
        /\ submitter' = [submitter EXCEPT ![j] = "refused"]
        /\ UNCHANGED stream
  /\ UNCHANGED <<store, cancelKey, dead, canceller, exec, drops, faults>>

Refuse(j) ==
  /\ submitter[j] = "refused"
  /\ store' = [store EXCEPT ![j] = "FAILED"]
  /\ submitter' = [submitter EXCEPT ![j] = "failed"]
  /\ UNCHANGED <<cancelKey, stream, dead, canceller, exec, drops, faults>>

SubmitFails(j) ==
  /\ submitter[j] \in {"created", "refused"}
  /\ submitter' = [submitter EXCEPT ![j] = "failed"]
  /\ UNCHANGED <<store, cancelKey, stream, dead, canceller, exec, drops, faults>>

(* JobService.cancel: look, set the cancel key, then write the record.  A      *)
(* canceller that dies or fails once the key is set never takes its next step,  *)
(* "writing", which nothing is fair to; another cancellation would only set     *)
(* the key again and come to the same step.                                    *)

CancelLook(j) ==
  /\ canceller[j] = "idle" /\ submitter[j] = "done"
  /\ ~Discardable(store[j])
  /\ canceller' = [canceller EXCEPT ![j] = "keying"]
  /\ UNCHANGED <<store, cancelKey, stream, dead, submitter, exec, drops, faults>>

\* request_cancel; its reply may be lost.
CancelKey(j) ==
  /\ canceller[j] = "keying"
  /\ cancelKey' = [cancelKey EXCEPT ![j] = TRUE]
  /\ canceller' = [canceller EXCEPT ![j] = "writing"]
  /\ UNCHANGED <<store, stream, dead, submitter, exec, drops, faults>>

\* The script of RedisJobRepository.cancel.
CancelWrite(j) ==
  /\ canceller[j] = "writing"
  /\ IF Discardable(store[j]) THEN UNCHANGED <<store, cancelKey>>
     ELSE /\ store' = [store EXCEPT ![j] = "CANCELLED"]
          /\ cancelKey' = [cancelKey EXCEPT ![j] = TRUE]
  /\ canceller' = [canceller EXCEPT ![j] = "idle"]
  /\ UNCHANGED <<stream, dead, submitter, exec, drops, faults>>

\* request_cancel raises without an effect.
CancelFails(j) ==
  /\ canceller[j] = "keying"
  /\ canceller' = [canceller EXCEPT ![j] = "idle"]
  /\ UNCHANGED <<store, cancelKey, stream, dead, submitter, exec, drops, faults>>

-----------------------------------------------------------------------------
(* run_worker *)

Start(x, i) ==
  /\ At(x, "idle")
  /\ stream' = WithState(i, "pending")
  /\ exec' = [exec EXCEPT ![x] = [pc |-> "fetching", id |-> i, guarded |-> FALSE]]
  /\ UNCHANGED <<store, cancelKey, dead, submitter, canceller, drops>>

\* XREADGROUP with id ">": the oldest entry nobody was given.
Deliver(x, i) ==
  /\ stream[i].state = "new"
  /\ \A k \in 1 .. (i - 1) : stream[k].state # "new"
  /\ Start(x, i)
  /\ UNCHANGED faults

\* _claim_stale: the entry of an execution that died, or of one that is late.
Reclaim(x, i) ==
  /\ Reclaimable(i)
  /\ Start(x, i)
  /\ \/ ~UnderWay(i) /\ UNCHANGED faults
     \/ UnderWay(i) /\ "late" \in FaultKinds /\ faults' = faults \cup {"late"}

(* _process *)

\* A step that only reads, or only publishes an event.
Look(x, from, to) ==
  /\ At(x, from)
  /\ Goto(x, to)
  /\ UNCHANGED <<store, cancelKey, stream, dead, submitter, canceller, drops, faults>>

Fetch(x) ==
  Look(x, "fetching", IF Discardable(store[Entry(x).job]) THEN "finishing" ELSE "checking")

Check(x) == Look(x, "checking", IF cancelKey[Entry(x).job] THEN "marking" ELSE "starting")

Announce(x) ==
  \E hop \in {<<"announcing", "running">>, <<"announcingEnd", "finishing">>,
              <<"announcingFailure", "burying">>} : Look(x, hop[1], hop[2])

\* The handler returns, or the poll of the cancel key stops it.
Run(x) ==
  \/ Look(x, "running", "rechecking")
  \/ Look(x, "running", "marking") /\ cancelKey[Entry(x).job]

Recheck(x) == Look(x, "rechecking", IF cancelKey[Entry(x).job] THEN "marking" ELSE "completing")

\* repository.update: a SET of the whole record, whatever it held.
Update(x, from, status, to) ==
  /\ At(x, from)
  /\ store' = [store EXCEPT ![Entry(x).job] = status]
  /\ Then(x, to)
  /\ UNCHANGED <<cancelKey, stream, dead, submitter, canceller>>

MarkRunning(x) == Update(x, "starting", "RUNNING", "announcing")
MarkCancelled(x) == Update(x, "marking", "CANCELLED", "announcingEnd")
MarkPending(x) == Update(x, "requeueing", "PENDING", "readding")
MarkFailed(x) == Update(x, "failing", "FAILED", "announcingFailure")

\* complete_if_not_cancelled; a refusal is announced as job.cancelled.
Complete(x) ==
  /\ At(x, "completing")
  /\ store' = IF MayComplete(Entry(x).job)
              THEN [store EXCEPT ![Entry(x).job] = "COMPLETED"] ELSE store
  /\ Then(x, "announcingEnd")
  /\ UNCHANGED <<cancelKey, stream, dead, submitter, canceller>>

\* The retry is added before its predecessor is acknowledged.
Readd(x) ==
  /\ At(x, "readding")
  /\ Len(stream) < MaxEntries
  /\ stream' = Add(Entry(x).job, Entry(x).attempt + 1, FALSE)
  /\ Then(x, "finishing")
  /\ UNCHANGED <<store, cancelKey, dead, submitter, canceller>>

Bury(x) ==
  /\ At(x, "burying")
  /\ dead' = [dead EXCEPT ![Entry(x).job] = @ + 1]
  /\ Then(x, "finishing")
  /\ UNCHANGED <<store, cancelKey, stream, submitter, canceller>>

Finish(x) ==
  /\ At(x, "finishing")
  /\ stream' = Finished(exec[x].id)
  /\ Then(x, "idle")
  /\ UNCHANGED <<store, cancelKey, dead, submitter, canceller>>

\* The call at hand, or the handler, raises without an effect.
CallFails(x) ==
  /\ ~At(x, "idle")
  /\ Raise(x)
  /\ UNCHANGED <<store, cancelKey, stream, dead, submitter, canceller, faults>>

\* The process dies, or asyncio cancels the task.
Crash(x) ==
  /\ ~At(x, "idle")
  /\ drops < MaxDrops /\ drops' = drops + 1
  /\ Goto(x, "idle")
  /\ UNCHANGED <<store, cancelKey, stream, dead, submitter, canceller, faults>>

-----------------------------------------------------------------------------
(* RedisDeadLetterQueue *)

\* XADD with an approximate MAXLEN, which may cut off the oldest entries but
\* leaves at least Capacity; the XDEL that follows may be lost.
Replay(j) ==
  /\ dead[j] > 0
  /\ Len(stream) < MaxEntries
  /\ \E keepFrom \in 1 .. Len(stream) + 1 :
       LET cut == {i \in 1 .. keepFrom - 1 : Live(i)} IN
       /\ cut # {} => Depth + 1 - Cardinality(cut) >= Capacity
       /\ stream' = [i \in 1 .. Len(stream) + 1 |->
            IF i \in cut THEN [stream[i] EXCEPT !.state = "trimmed"]
            ELSE Add(j, 0, TRUE)[i]]
  /\ \E n \in {dead[j] - 1, dead[j]} : dead' = [dead EXCEPT ![j] = n]
  /\ UNCHANGED <<store, cancelKey, submitter, canceller, exec, drops, faults>>

\* delete and purge
DeleteDeadLetter(j) ==
  /\ dead[j] > 0
  /\ dead' = [dead EXCEPT ![j] = @ - 1]
  /\ UNCHANGED <<store, cancelKey, stream, submitter, canceller, exec, drops, faults>>

-----------------------------------------------------------------------------
Client(j) ==
  \/ Create(j) \/ Enqueue(j) \/ Refuse(j) \/ SubmitFails(j)
  \/ CancelLook(j) \/ CancelKey(j) \/ CancelWrite(j) \/ CancelFails(j)
  \/ Replay(j) \/ DeleteDeadLetter(j)

Process(x) ==
  \/ Fetch(x) \/ Check(x) \/ Announce(x) \/ Run(x) \/ Recheck(x)
  \/ MarkRunning(x) \/ MarkCancelled(x) \/ MarkPending(x) \/ MarkFailed(x)
  \/ Complete(x) \/ Readd(x) \/ Bury(x) \/ Finish(x)

Next ==
  \/ \E j \in Jobs : Client(j)
  \/ \E x \in Slots : Process(x) \/ CallFails(x) \/ Crash(x)
  \/ \E x \in Slots, i \in DOMAIN stream : Deliver(x, i) \/ Reclaim(x, i)

Spec == Init /\ [][Next]_vars

\* Calls and handlers return or raise, and the worker loops keep polling: a
\* loop looks for stale entries after every batch and on every twelfth poll.
Fairness ==
  /\ \A x \in Slots : WF_vars(Process(x))
  /\ \A i \in 1 .. MaxEntries :
       SF_vars(\E x \in Slots : i \in DOMAIN stream /\ (Deliver(x, i) \/ Reclaim(x, i)))

FairSpec == Spec /\ Fairness

-----------------------------------------------------------------------------
(* Properties *)

\* Every variable has its type: in particular no attempt number goes beyond
\* job_max_retries, and an execution has an entry to work on.
TypeOK ==
  /\ store \in [Jobs -> Statuses]
  /\ cancelKey \in [Jobs -> BOOLEAN]
  /\ stream \in Seq(Entries)
  /\ dead \in [Jobs -> Nat]
  /\ submitter \in [Jobs -> {"none", "created", "refused", "done", "failed"}]
  /\ canceller \in [Jobs -> {"idle", "keying", "writing"}]
  /\ exec \in [Slots -> Execs]
  /\ \A x \in Slots : ~At(x, "idle") => exec[x].id \in DOMAIN stream
  /\ drops \in Nat
  /\ faults \in SUBSET {"late", "lost"}

Enqueued(j) == \E i \in DOMAIN stream : stream[i].job = j

\* While executions stay within the visibility timeout and replies arrive, a
\* job that was put into the queue and has no final status is still in the
\* queue, whichever workers die, unless the MAXLEN of a replay cut it off or its
\* cancellation was begun.
NoJobForgotten ==
  \A j \in Jobs :
    (/\ faults = {}
     /\ Enqueued(j)
     /\ store[j] \in {"PENDING", "RUNNING"}
     /\ ~cancelKey[j]) =>
       \E i \in DOMAIN stream : stream[i].job = j /\ stream[i].state # "gone"

\* A dead letter is written only after every attempt had its entry.
DeadLetterAfterAllAttempts ==
  \A j \in Jobs : dead[j] > 0 =>
    \A a \in 0 .. MaxRetries :
      \E i \in DOMAIN stream : stream[i].job = j /\ stream[i].attempt = a

\* Once the cancel key is set, a job does not become COMPLETED, however many
\* executions of it are under way and wherever they are.
CancelBarsCompletion ==
  [][\A j \in Jobs :
       (cancelKey[j] /\ store'[j] = "COMPLETED") => store[j] = "COMPLETED"]_vars

\* A completion that met the cancel key alone is refused, and its entry removed:
\* unless the canceller comes to write the record, it says RUNNING for ever
\* (jobs/repository.py:97, jobs/distributed.py:151-155).
LeftRunning(j) ==
  /\ cancelKey[j] /\ canceller[j] = "writing"
  /\ store[j] = "RUNNING"
  /\ \A i \in DOMAIN stream : stream[i].job = j => stream[i].state = "gone"

\* Every job in the queue gets a final status and keeps it, whatever calls
\* fail and whichever workers die.  The cancel key alone ends a job too, where
\* its canceller died before it wrote the record, but for the completion that
\* was past its last look at the key (LeftRunning).  Left out: jobs whose entry
\* a replay cut off, executions that outlasted the visibility timeout or lost a
\* reply, and an execution that waits for an entry id the model does not have.
EveryJobEnds ==
  <>[](\A j \in Jobs :
         \/ ~Enqueued(j)
         \/ store[j] \in Final
         \/ LeftRunning(j)
         \/ faults # {}
         \/ \E i \in DOMAIN stream : stream[i].job = j /\ stream[i].state = "trimmed"
         \/ Len(stream) = MaxEntries /\ \E x \in Slots : At(x, "readding"))

-----------------------------------------------------------------------------
(* A statement of the repository that the code does not keep *)

\* A replayed dead letter is run again, unless its job was completed or
\* cancelled meanwhile (mcp/tools.py:609).
ReplayedJobRuns ==
  [][\A x \in Slots :
       (At(x, "fetching") /\ Entry(x).replayed /\ exec'[x].pc = "finishing")
         => store[Entry(x).job] \in {"COMPLETED", "CANCELLED"}]_vars
=============================================================================
