----------------------- MODULE PostPublishSync_proofs -----------------------
(***************************************************************************)
(* TLAPS proofs about PostPublishSync, for any tasks, workers, batch size  *)
(* and number of attempts, and for both stores.                            *)
(***************************************************************************)
EXTENDS PostPublishSync, TLAPS

-----------------------------------------------------------------------------
(* The inductive invariant *)

\* A worker that is not idle has its current task in its batch.
Working ==
  \A w \in Workers :
    /\ step[w] = "idle" => DOMAIN batch[w] = {}
    /\ step[w] # "idle" => current[w] \in DOMAIN batch[w]

\* Only the claim of a task that somebody has makes two workers have it.
OneHolder ==
  \A t \in Tasks \ overtaken : \A v, w \in Workers : Has(v, t) /\ Has(w, t) => v = w

\* Until then the copy of the claim agrees with the row,
CopiesAreCurrent ==
  \A t \in Tasks \ overtaken : \A w \in Workers : Has(w, t) => batch[w][t] = taskRow[t].attempts

\* and in SQLite, where no reply is lost, the row is RUNNING.
HeldIsRunning ==
  \A t \in Tasks \ overtaken : \A w \in Workers :
    ~postgres /\ Has(w, t) => taskRow[t].status = "RUNNING"

\* Nobody owns a row that came to its end.
EndedIsUnowned ==
  \A t \in Tasks : taskRow[t].status \in {"COMPLETED", "DEAD"} => taskRow[t].owner = NoWorker

SavedBeforeCompleting ==
  \A w \in Workers : step[w] = "completing" => current[w] \in metrics

IInv ==
  /\ SyncTypeOK
  /\ Working
  /\ OneHolder
  /\ CopiesAreCurrent
  /\ HeldIsRunning
  /\ EndedIsUnowned
  /\ SavedBeforeCompleting
  /\ AttemptsCountClaims
  /\ CompletedHasMetrics
  /\ DeadIsExhausted

-----------------------------------------------------------------------------
(* How the building blocks act on their variables *)

\* What a batch is.
LEMMA BatchFacts ==
  /\ \A b \in Batches : DOMAIN b \in SUBSET Tasks /\ \A t \in DOMAIN b : b[t] \in 1 .. MaxAttempts
  /\ EmptyBatch \in Batches /\ DOMAIN EmptyBatch = {}
  <1>1. EmptyBatch \in [{} -> 1 .. MaxAttempts]
    BY DEF EmptyBatch
  <1> QED
    BY <1>1 DEF Batches, EmptyBatch

\* A function from some of the tasks to attempts is a batch.
LEMMA MakeBatch ==
  ASSUME NEW ts \in SUBSET Tasks, NEW b \in [ts -> 1 .. MaxAttempts]
  PROVE  b \in Batches
  BY DEF Batches

\* What is left of a batch without its current task.
LEMMA RestFacts ==
  ASSUME SyncTypeOK, NEW w \in Workers
  PROVE  /\ Rest(w) \in Batches
         /\ DOMAIN Rest(w) = DOMAIN batch[w] \ {current[w]}
         /\ \A t \in DOMAIN Rest(w) : Rest(w)[t] = batch[w][t]
  <1>1. batch[w] \in Batches
    BY DEF SyncTypeOK
  <1>2. Rest(w) \in [DOMAIN batch[w] \ {current[w]} -> 1 .. MaxAttempts]
    BY <1>1, BatchFacts DEF Rest
  <1>3. DOMAIN batch[w] \ {current[w]} \in SUBSET Tasks
    BY <1>1, BatchFacts
  <1>4. Rest(w) \in Batches
    BY <1>2, <1>3, MakeBatch
  <1> QED
    BY <1>4 DEF Rest

\* Continue replaces the batch of one worker and starts a task of it, if any.
LEMMA ContinueEffect ==
  ASSUME SyncTypeOK, NEW w \in Workers, NEW left \in Batches, Continue(w, left)
  PROVE  /\ batch' \in [Workers -> Batches] /\ batch'[w] = left
         /\ step' \in [Workers -> SyncSteps] /\ current' \in [Workers -> Tasks]
         /\ \A v \in Workers \ {w} :
              batch'[v] = batch[v] /\ step'[v] = step[v] /\ current'[v] = current[v]
         /\ \/ step'[w] = "idle" /\ DOMAIN left = {}
            \/ step'[w] = "syncing" /\ current'[w] \in DOMAIN left
  <1>1. /\ batch \in [Workers -> Batches] /\ step \in [Workers -> SyncSteps]
        /\ current \in [Workers -> Tasks]
    BY DEF SyncTypeOK
  <1>2. DOMAIN left \in SUBSET Tasks
    BY BatchFacts
  <1>3. "idle" \in SyncSteps /\ "syncing" \in SyncSteps
    BY DEF SyncSteps
  <1>4. CASE DOMAIN left = {}
    BY <1>1, <1>3, <1>4 DEF Continue
  <1>5. CASE DOMAIN left # {}
    <2>1. PICK t \in DOMAIN left : current' = [current EXCEPT ![w] = t]
      BY <1>5 DEF Continue
    <2>2. step' = [step EXCEPT ![w] = "syncing"] /\ batch' = [batch EXCEPT ![w] = left]
      BY <1>5 DEF Continue
    <2>3. t \in Tasks
      BY <1>2
    <2> QED
      BY <1>1, <1>3, <2>1, <2>2, <2>3
  <1> QED
    BY <1>4, <1>5

\* The write that ends a task changes at most its row, and there the status
\* together with the attempts that it is derived from.
LEMMA EndEffect ==
  ASSUME SyncTypeOK, NEW w \in Workers, current[w] \in DOMAIN batch[w],
         NEW status \in {"COMPLETED", "RETRY", "DEAD"}, SyncEnd(w, status)
  PROVE  /\ taskRow' \in [Tasks -> Rows]
         /\ \A t \in Tasks \ {current[w]} : taskRow'[t] = taskRow[t]
         /\ \/ taskRow' = taskRow
            \/ /\ MayEnd(w, current[w])
               /\ taskRow'[current[w]].status = status
               /\ taskRow'[current[w]].attempts = KnownAttempts(w, current[w])
               /\ taskRow'[current[w]].owner = NoWorker
         /\ KnownAttempts(w, current[w]) \in 0 .. MaxAttempts
  <1> DEFINE t == current[w]
             new == [status |-> status, attempts |-> KnownAttempts(w, t), owner |-> NoWorker,
                     due |-> status = "COMPLETED", lapsed |-> FALSE]
  <1>1. taskRow \in [Tasks -> Rows] /\ t \in Tasks /\ batch[w] \in Batches
    BY DEF SyncTypeOK
  <1>2. KnownAttempts(w, t) \in 0 .. MaxAttempts
    <2>1. batch[w][t] \in 1 .. MaxAttempts
      BY <1>1, BatchFacts
    <2>2. taskRow[t].attempts \in 0 .. MaxAttempts
      BY <1>1 DEF Rows
    <2> QED
      BY <2>1, <2>2, NumbersAssumption DEF KnownAttempts
  <1>3. new \in Rows
    <2>1. (status = "COMPLETED") \in BOOLEAN /\ status \in TaskStatuses
      BY DEF TaskStatuses
    <2> QED
      BY <1>2, <2>1 DEF Rows
  <1>4. new.status = status /\ new.attempts = KnownAttempts(w, t) /\ new.owner = NoWorker
    OBVIOUS
  <1>5. taskRow' = IF MayEnd(w, t) THEN [taskRow EXCEPT ![t] = new] ELSE taskRow
    BY DEF SyncEnd
  <1> HIDE DEF new
  <1>6. CASE MayEnd(w, t)
    BY <1>1, <1>2, <1>3, <1>4, <1>5, <1>6
  <1>7. CASE ~MayEnd(w, t)
    BY <1>1, <1>2, <1>5, <1>7
  <1> QED
    BY <1>6, <1>7
-----------------------------------------------------------------------------
(* Summaries of the steps *)

\* What a worker does with the row of its current task.
RowMove(w) ==
  /\ taskRow' \in [Tasks -> Rows]
  /\ \A t \in Tasks \ {current[w]} : taskRow'[t] = taskRow[t]
  /\ \/ taskRow' = taskRow
     \/ /\ MayEnd(w, current[w])
        /\ taskRow'[current[w]].attempts = KnownAttempts(w, current[w])
        /\ taskRow'[current[w]].owner = NoWorker
        /\ \/ taskRow'[current[w]].status = "COMPLETED" /\ current[w] \in metrics
           \/ taskRow'[current[w]].status = StatusAfterFailure(KnownAttempts(w, current[w]))
        /\ ~postgres => current[w] \notin DOMAIN batch'[w]

\* What becomes of its batch.
BatchMove(w) ==
  /\ batch' \in [Workers -> Batches] /\ step' \in [Workers -> SyncSteps]
  /\ current' \in [Workers -> Tasks]
  /\ \A v \in Workers \ {w} :
       batch'[v] = batch[v] /\ step'[v] = step[v] /\ current'[v] = current[v]
  /\ DOMAIN batch'[w] \subseteq DOMAIN batch[w]
  /\ \A t \in DOMAIN batch'[w] : batch'[w][t] = batch[w][t]
  /\ step'[w] = "idle" => DOMAIN batch'[w] = {}
  /\ step'[w] # "idle" => current'[w] \in DOMAIN batch'[w]
  /\ step'[w] = "completing" => current'[w] \in metrics'

WorkerMove(w) ==
  /\ step[w] # "idle" /\ current[w] \in DOMAIN batch[w] /\ current[w] \in Tasks
  /\ RowMove(w) /\ BatchMove(w)
  /\ metrics \subseteq metrics' /\ metrics' \in SUBSET Tasks
  /\ UNCHANGED <<postgres, claims, overtaken>>

\* A worker that goes to another step keeps its batch and its current task.
LEMMA GotoEffect ==
  ASSUME SyncTypeOK, Working, NEW w \in Workers, step[w] # "idle", NEW s \in SyncSteps \ {"idle"},
         SyncGoto(w, s), s = "completing" => current[w] \in metrics'
  PROVE  BatchMove(w) /\ batch' = batch
  <1>1. /\ batch \in [Workers -> Batches] /\ step \in [Workers -> SyncSteps]
        /\ current \in [Workers -> Tasks] /\ current[w] \in DOMAIN batch[w]
    BY DEF SyncTypeOK, Working
  <1>2. step' = [step EXCEPT ![w] = s] /\ batch' = batch /\ current' = current
    BY DEF SyncGoto
  <1> QED
    BY <1>1, <1>2 DEF BatchMove

\* A worker that goes on to the rest of its batch drops its current task.
LEMMA RestEffect ==
  ASSUME SyncTypeOK, NEW w \in Workers, NEW left \in {Rest(w), EmptyBatch}, Continue(w, left)
  PROVE  BatchMove(w) /\ current[w] \notin DOMAIN batch'[w]
  <1>1. /\ left \in Batches /\ DOMAIN left \subseteq DOMAIN batch[w]
        /\ current[w] \notin DOMAIN left
        /\ \A t \in DOMAIN left : left[t] = batch[w][t]
    BY RestFacts, BatchFacts
  <1> QED
    BY <1>1, ContinueEffect DEF BatchMove

\* Every step of a worker with a batch is such a move.
LEMMA WorkerSummary ==
  ASSUME SyncTypeOK, Working, SavedBeforeCompleting, NEW w \in Workers, SyncWork(w) \/ SyncCrash(w)
  PROVE  WorkerMove(w)
  <1>1. step[w] # "idle"
    BY DEF SyncWork, ReadMetrics, Save, Complete, Fail, SyncCrash
  <1>2. current[w] \in DOMAIN batch[w] /\ current[w] \in Tasks
    BY <1>1 DEF Working, SyncTypeOK
  <1>3. taskRow \in [Tasks -> Rows] /\ metrics \in SUBSET Tasks
    BY DEF SyncTypeOK
  <1>4. taskRow' = taskRow => RowMove(w)
    BY <1>3 DEF RowMove
  <1>5. CASE ReadMetrics(w)
    <2>1. PICK s \in {"saving", "failing"} : SyncGoto(w, s)
      BY <1>5 DEF ReadMetrics
    <2>2. s \in SyncSteps \ {"idle"} /\ s # "completing"
      BY DEF SyncSteps
    <2>3. BatchMove(w)
      BY <1>1, <2>1, <2>2, GotoEffect
    <2> QED
      BY <1>1, <1>2, <1>3, <1>4, <1>5, <2>3 DEF ReadMetrics, WorkerMove
  <1>6. CASE Save(w)
    <2>1. /\ metrics \subseteq metrics' /\ metrics' \in SUBSET Tasks
          /\ UNCHANGED <<postgres, taskRow, claims, overtaken>>
      BY <1>2, <1>3, <1>6 DEF Save
    <2>2. PICK s \in {"completing", "failing"} :
            SyncGoto(w, s) /\ (s = "completing" => current[w] \in metrics')
      BY <1>6 DEF Save
    <2>3. s \in SyncSteps \ {"idle"}
      BY DEF SyncSteps
    <2>4. BatchMove(w)
      BY <1>1, <2>2, <2>3, GotoEffect
    <2> QED
      BY <1>1, <1>2, <1>4, <2>1, <2>4 DEF WorkerMove
  <1>7. CASE Complete(w)
    <2>1. current[w] \in metrics /\ UNCHANGED <<postgres, metrics, claims, overtaken>>
      BY <1>7 DEF Complete, SavedBeforeCompleting
    <2>2. "failing" \in SyncSteps \ {"idle"} /\ "failing" # "completing"
      BY DEF SyncSteps
    <2>3. CASE SyncEnd(w, "COMPLETED") /\ Continue(w, Rest(w))
      <3>1. BatchMove(w) /\ current[w] \notin DOMAIN batch'[w]
        BY <2>3, RestEffect
      <3>2. RowMove(w)
        BY <1>2, <2>1, <2>3, <3>1, EndEffect DEF RowMove
      <3> QED
        BY <1>1, <1>2, <1>3, <2>1, <3>1, <3>2 DEF WorkerMove
    <2>4. CASE postgres /\ SyncEnd(w, "COMPLETED") /\ SyncGoto(w, "failing")
      <3>1. BatchMove(w)
        BY <1>1, <2>2, <2>4, GotoEffect
      <3>2. RowMove(w)
        BY <1>2, <2>1, <2>4, EndEffect DEF RowMove
      <3> QED
        BY <1>1, <1>2, <1>3, <2>1, <3>1, <3>2 DEF WorkerMove
    <2>5. CASE UNCHANGED taskRow /\ SyncGoto(w, "failing")
      <3>1. BatchMove(w)
        BY <1>1, <2>2, <2>5, GotoEffect
      <3> QED
        BY <1>1, <1>2, <1>3, <1>4, <2>1, <2>5, <3>1 DEF WorkerMove
    <2> QED
      BY <1>7, <2>3, <2>4, <2>5 DEF Complete
  <1>8. ASSUME NEW left \in {Rest(w), EmptyBatch}, Continue(w, left),
               \/ taskRow' = taskRow
               \/ SyncEnd(w, StatusAfterFailure(KnownAttempts(w, current[w]))),
               UNCHANGED <<postgres, metrics, claims, overtaken>>
        PROVE  WorkerMove(w)
    <2>1. BatchMove(w) /\ current[w] \notin DOMAIN batch'[w]
      BY <1>8, RestEffect
    <2>2. StatusAfterFailure(KnownAttempts(w, current[w])) \in {"COMPLETED", "RETRY", "DEAD"}
      BY DEF StatusAfterFailure
    <2>3. RowMove(w)
      BY <1>2, <1>4, <1>8, <2>1, <2>2, EndEffect DEF RowMove
    <2> QED
      BY <1>1, <1>2, <1>3, <1>8, <2>1, <2>3 DEF WorkerMove
  <1>9. CASE Fail(w)
    BY <1>8, <1>9 DEF Fail
  <1>10. CASE SyncCrash(w)
    BY <1>8, <1>10 DEF SyncCrash
  <1> QED
    BY <1>5, <1>6, <1>7, <1>9, <1>10 DEF SyncWork
\* A step of the outside world: a task is created, time passes, or nothing.
TaskMove ==
  /\ taskRow' \in [Tasks -> Rows]
  /\ \A t \in Tasks :
       /\ taskRow'[t].attempts = taskRow[t].attempts /\ taskRow'[t].owner = taskRow[t].owner
       /\ \/ taskRow'[t].status = taskRow[t].status
          \/ taskRow[t].status = "ABSENT" /\ taskRow'[t].status = "PENDING"
  /\ UNCHANGED <<postgres, batch, step, current, metrics, claims, overtaken>>

\* The creation of a task and the passing of time are such moves.
LEMMA TaskSummary ==
  ASSUME SyncTypeOK, NEW t \in Tasks, Enqueue(t) \/ BecomeDue(t) \/ LeaseLapse(t)
  PROVE  TaskMove
  <1>1. taskRow \in [Tasks -> Rows] /\ taskRow[t] \in Rows
    BY DEF SyncTypeOK
  <1>2. "PENDING" \in TaskStatuses
    BY DEF TaskStatuses
  <1>3. CASE Enqueue(t)
    <2> DEFINE r == [taskRow[t] EXCEPT !.status = "PENDING"]
    <2>1. /\ r \in Rows /\ r.attempts = taskRow[t].attempts /\ r.owner = taskRow[t].owner
          /\ r.status = "PENDING"
      BY <1>1, <1>2 DEF Rows
    <2>2. taskRow[t].status = "ABSENT" /\ taskRow' = [taskRow EXCEPT ![t] = r]
      BY <1>3 DEF Enqueue
    <2> HIDE DEF r
    <2> QED
      BY <1>1, <1>3, <2>1, <2>2 DEF Enqueue, TaskMove
  <1>4. CASE BecomeDue(t)
    <2> DEFINE r == [taskRow[t] EXCEPT !.due = TRUE]
    <2>1. /\ r \in Rows /\ r.attempts = taskRow[t].attempts /\ r.owner = taskRow[t].owner
          /\ r.status = taskRow[t].status
      BY <1>1 DEF Rows
    <2>2. taskRow' = [taskRow EXCEPT ![t] = r]
      BY <1>4 DEF BecomeDue
    <2> HIDE DEF r
    <2> QED
      BY <1>1, <1>4, <2>1, <2>2 DEF BecomeDue, TaskMove
  <1>5. CASE LeaseLapse(t)
    <2> DEFINE r == [taskRow[t] EXCEPT !.lapsed = TRUE]
    <2>1. /\ r \in Rows /\ r.attempts = taskRow[t].attempts /\ r.owner = taskRow[t].owner
          /\ r.status = taskRow[t].status
      BY <1>1 DEF Rows
    <2>2. taskRow' = [taskRow EXCEPT ![t] = r]
      BY <1>5 DEF LeaseLapse
    <2> HIDE DEF r
    <2> QED
      BY <1>1, <1>5, <2>1, <2>2 DEF LeaseLapse, TaskMove
  <1> QED
    BY <1>3, <1>4, <1>5

\* The claim of the tasks ts by w.
ClaimMove(w, ts) ==
  /\ step[w] = "idle" /\ ts \in SUBSET Tasks
  /\ taskRow' \in [Tasks -> Rows]
  /\ \A t \in ts :
       /\ taskRow[t].status \in {"PENDING", "RETRY", "RUNNING"}
       /\ taskRow'[t].status = "RUNNING" /\ taskRow'[t].attempts = taskRow[t].attempts + 1
  /\ \A t \in Tasks \ ts : taskRow'[t] = taskRow[t]
  /\ batch' \in [Workers -> Batches] /\ step' \in [Workers -> SyncSteps]
  /\ current' \in [Workers -> Tasks]
  /\ DOMAIN batch'[w] = ts /\ \A t \in ts : batch'[w][t] = taskRow[t].attempts + 1
  /\ \A v \in Workers \ {w} :
       batch'[v] = batch[v] /\ step'[v] = step[v] /\ current'[v] = current[v]
  /\ \/ step'[w] = "idle" /\ ts = {}
     \/ step'[w] = "syncing" /\ current'[w] \in ts
  /\ claims' = [t \in Tasks |-> IF t \in ts THEN claims[t] + 1 ELSE claims[t]]
  /\ overtaken' = overtaken \cup {t \in ts : \E v \in Workers : Has(v, t)}
  /\ UNCHANGED <<postgres, metrics>>

\* The guard of the claim keeps the number of attempts in its range.
LEMMA ClaimSummary ==
  ASSUME SyncTypeOK, NEW w \in Workers, Claim(w)
  PROVE  \E ts \in SUBSET Tasks : ClaimMove(w, ts)
  <1>1. PICK ts \in SUBSET {t \in Tasks : Claimable(t)} :
          /\ taskRow' = [t \in Tasks |->
               IF t \in ts
               THEN [taskRow[t] EXCEPT !.status = "RUNNING", !.attempts = @ + 1,
                                   !.owner = w, !.lapsed = FALSE]
               ELSE taskRow[t]]
          /\ Continue(w, [t \in ts |-> taskRow[t].attempts + 1])
          /\ claims' = [t \in Tasks |-> IF t \in ts THEN claims[t] + 1 ELSE claims[t]]
          /\ overtaken' = overtaken \cup {t \in ts : \E v \in Workers : Has(v, t)}
    BY DEF Claim
  <1>2. step[w] = "idle" /\ UNCHANGED <<postgres, metrics>>
    BY DEF Claim
  <1>3. taskRow \in [Tasks -> Rows]
    BY DEF SyncTypeOK
  <1>4. \A t \in ts :
          /\ t \in Tasks /\ taskRow[t].attempts + 1 \in 1 .. MaxAttempts
          /\ taskRow[t].status \in {"PENDING", "RETRY", "RUNNING"}
    BY <1>3, NumbersAssumption DEF Claimable, Rows
  <1> DEFINE taken(t) == [taskRow[t] EXCEPT !.status = "RUNNING", !.attempts = @ + 1,
                                        !.owner = w, !.lapsed = FALSE]
             left == [t \in ts |-> taskRow[t].attempts + 1]
  <1>5. \A t \in ts :
          /\ taken(t) \in Rows /\ taken(t).status = "RUNNING"
          /\ taken(t).attempts = taskRow[t].attempts + 1
    <2>1. SUFFICES ASSUME NEW t \in ts
                   PROVE  /\ taken(t) \in Rows /\ taken(t).status = "RUNNING"
                          /\ taken(t).attempts = taskRow[t].attempts + 1
      OBVIOUS
    <2>2. taskRow[t] \in Rows /\ taskRow[t].attempts + 1 \in 0 .. MaxAttempts
      BY <1>3, <1>4, NumbersAssumption
    <2>3. "RUNNING" \in TaskStatuses
      BY DEF TaskStatuses
    <2> QED
      BY <2>2, <2>3 DEF Rows
  <1>6. taskRow' = [t \in Tasks |-> IF t \in ts THEN taken(t) ELSE taskRow[t]]
    BY <1>1
  <1>7. left \in Batches /\ DOMAIN left = ts /\ \A t \in ts : left[t] = taskRow[t].attempts + 1
    BY <1>4, MakeBatch
  <1>8. Continue(w, left)
    BY <1>1
  <1> HIDE DEF taken, left
  <1>9. /\ taskRow' \in [Tasks -> Rows]
        /\ \A t \in ts : taskRow'[t].status = "RUNNING" /\ taskRow'[t].attempts = taskRow[t].attempts + 1
        /\ \A t \in Tasks \ ts : taskRow'[t] = taskRow[t]
    BY <1>3, <1>4, <1>5, <1>6
  <1>10. /\ batch' \in [Workers -> Batches] /\ step' \in [Workers -> SyncSteps]
         /\ current' \in [Workers -> Tasks]
         /\ DOMAIN batch'[w] = ts /\ \A t \in ts : batch'[w][t] = taskRow[t].attempts + 1
         /\ \A v \in Workers \ {w} :
              batch'[v] = batch[v] /\ step'[v] = step[v] /\ current'[v] = current[v]
         /\ \/ step'[w] = "idle" /\ ts = {}
            \/ step'[w] = "syncing" /\ current'[w] \in ts
    <2>1. /\ batch' \in [Workers -> Batches] /\ batch'[w] = left
          /\ step' \in [Workers -> SyncSteps] /\ current' \in [Workers -> Tasks]
          /\ \A v \in Workers \ {w} :
               batch'[v] = batch[v] /\ step'[v] = step[v] /\ current'[v] = current[v]
          /\ \/ step'[w] = "idle" /\ DOMAIN left = {}
             \/ step'[w] = "syncing" /\ current'[w] \in DOMAIN left
      BY <1>7, <1>8, ContinueEffect
    <2>2. DOMAIN batch'[w] = ts
      BY <1>7, <2>1
    <2>3. \A t \in ts : batch'[w][t] = taskRow[t].attempts + 1
      BY <1>7, <2>1
    <2>4. \/ step'[w] = "idle" /\ ts = {}
          \/ step'[w] = "syncing" /\ current'[w] \in ts
      BY <1>7, <2>1
    <2> QED
      BY <2>1, <2>2, <2>3, <2>4
  <1>11. ts \in SUBSET Tasks
    OBVIOUS
  <1>12. ClaimMove(w, ts)
    BY <1>1, <1>2, <1>4, <1>9, <1>10, <1>11 DEF ClaimMove
  <1> QED
    BY <1>11, <1>12
-----------------------------------------------------------------------------
(* The invariant holds *)

\* In the initial states there is no batch and no task.
LEMMA InitEstablishes == SyncInit => IInv
  <1> SUFFICES ASSUME SyncInit
               PROVE  IInv
    OBVIOUS
  <1>1. AbsentRow \in Rows /\ AbsentRow.status = "ABSENT" /\ AbsentRow.attempts = 0
    BY NumbersAssumption DEF AbsentRow, Rows, TaskStatuses
  <1>2. \A w \in Workers : batch[w] = EmptyBatch /\ step[w] = "idle"
    BY DEF SyncInit
  <1>3. \A t \in Tasks : taskRow[t] = AbsentRow /\ claims[t] = 0
    BY DEF SyncInit
  <1>4. (CHOOSE t \in Tasks : TRUE) \in Tasks
    BY TasksAssumption
  <1>5. batch \in [Workers -> Batches]
    BY BatchFacts DEF SyncInit
  <1>6. SyncTypeOK
    BY <1>1, <1>4, <1>5 DEF SyncInit, SyncTypeOK, SyncSteps
  <1>7. \A w \in Workers : DOMAIN batch[w] = {}
    BY <1>2, BatchFacts
  <1>8. Working /\ OneHolder /\ CopiesAreCurrent /\ HeldIsRunning /\ SavedBeforeCompleting
    BY <1>2, <1>7 DEF Working, OneHolder, CopiesAreCurrent, HeldIsRunning,
                      SavedBeforeCompleting, Has
  <1>9. EndedIsUnowned /\ AttemptsCountClaims /\ CompletedHasMetrics /\ DeadIsExhausted
    BY <1>1, <1>3 DEF EndedIsUnowned, AttemptsCountClaims, CompletedHasMetrics, DeadIsExhausted
  <1> QED
    BY <1>6, <1>8, <1>9 DEF IInv

\* The outside world does not disturb it.
LEMMA TaskPreserves == IInv /\ TaskMove => IInv'
  <1> SUFFICES ASSUME IInv, TaskMove
               PROVE  IInv'
    OBVIOUS
  <1>1. UNCHANGED <<postgres, batch, step, current, metrics, claims, overtaken>>
    BY DEF TaskMove
  <1>2. \A t \in Tasks :
          /\ taskRow'[t].attempts = taskRow[t].attempts /\ taskRow'[t].owner = taskRow[t].owner
          /\ \/ taskRow'[t].status = taskRow[t].status
             \/ taskRow[t].status = "ABSENT" /\ taskRow'[t].status = "PENDING"
    BY DEF TaskMove
  <1>3. SyncTypeOK'
    BY DEF TaskMove, IInv, SyncTypeOK
  <1>4. Working' /\ OneHolder' /\ SavedBeforeCompleting'
    BY <1>1 DEF IInv, Working, OneHolder, SavedBeforeCompleting, Has
  <1>5. CopiesAreCurrent'
    BY <1>1, <1>2 DEF IInv, CopiesAreCurrent, Has
  <1>6. HeldIsRunning'
    BY <1>1, <1>2 DEF IInv, HeldIsRunning, Has
  <1>7. EndedIsUnowned'
    BY <1>2 DEF IInv, EndedIsUnowned
  <1>8. AttemptsCountClaims'
    BY <1>1, <1>2 DEF IInv, AttemptsCountClaims, Sound
  <1>9. CompletedHasMetrics'
    BY <1>1, <1>2 DEF IInv, CompletedHasMetrics
  <1>10. DeadIsExhausted'
    BY <1>2 DEF IInv, DeadIsExhausted
  <1> QED
    BY <1>3, <1>4, <1>5, <1>6, <1>7, <1>8, <1>9, <1>10 DEF IInv

\* A claim counts as one attempt and marks the tasks that somebody still has.
LEMMA ClaimPreserves ==
  ASSUME IInv, NEW w \in Workers, NEW ts \in SUBSET Tasks, ClaimMove(w, ts)
  PROVE  IInv'
  <1>1. DOMAIN batch[w] = {}
    BY DEF ClaimMove, IInv, Working
  <1>2. /\ \A v \in Workers \ {w} : batch'[v] = batch[v] /\ step'[v] = step[v]
                                    /\ current'[v] = current[v]
        /\ DOMAIN batch'[w] = ts /\ \A t \in ts : batch'[w][t] = taskRow[t].attempts + 1
    BY DEF ClaimMove
  <1>3. /\ \A t \in ts : taskRow'[t].status = "RUNNING" /\ taskRow'[t].attempts = taskRow[t].attempts + 1
        /\ \A t \in Tasks \ ts : taskRow'[t] = taskRow[t]
    BY DEF ClaimMove
  <1>4. overtaken' = overtaken \cup {t \in ts : \E v \in Workers : Has(v, t)}
    BY DEF ClaimMove
  <1>5. postgres' = postgres /\ metrics' = metrics
    BY DEF ClaimMove
  <1>6. \/ step'[w] = "idle" /\ ts = {}
        \/ step'[w] = "syncing" /\ current'[w] \in ts
    BY DEF ClaimMove
  <1>7. /\ taskRow \in [Tasks -> Rows] /\ claims \in [Tasks -> Nat] /\ overtaken \in SUBSET Tasks
        /\ postgres \in BOOLEAN /\ metrics \in SUBSET Tasks
    BY DEF IInv, SyncTypeOK
  <1>8. claims' = [t \in Tasks |-> IF t \in ts THEN claims[t] + 1 ELSE claims[t]]
    BY DEF ClaimMove
  <1>9. claims' \in [Tasks -> Nat]
    BY <1>7, <1>8
  <1>10. \A t \in Tasks \ overtaken', v \in Workers :
           Has(v, t)' => \/ t \in ts /\ v = w
                         \/ t \notin ts /\ v # w /\ Has(v, t) /\ t \notin overtaken
    BY <1>2, <1>4 DEF Has
  <1>11. SyncTypeOK'
    <2>1. /\ taskRow' \in [Tasks -> Rows] /\ batch' \in [Workers -> Batches]
          /\ step' \in [Workers -> SyncSteps] /\ current' \in [Workers -> Tasks]
      BY DEF ClaimMove
    <2>2. overtaken' \in SUBSET Tasks
      BY <1>4, <1>7
    <2> QED
      BY <1>5, <1>7, <1>9, <2>1, <2>2 DEF SyncTypeOK
  <1>12. Working'
    BY <1>2, <1>6 DEF IInv, Working
  <1>13. OneHolder'
    BY <1>10 DEF IInv, OneHolder
  <1>14. CopiesAreCurrent'
    BY <1>2, <1>3, <1>10 DEF IInv, CopiesAreCurrent
  <1>15. HeldIsRunning'
    BY <1>3, <1>5, <1>10 DEF IInv, HeldIsRunning
  <1>16. EndedIsUnowned'
    BY <1>3 DEF IInv, EndedIsUnowned
  <1>17. SavedBeforeCompleting'
    BY <1>2, <1>5, <1>6 DEF IInv, SavedBeforeCompleting
  <1>18. AttemptsCountClaims'
    <2>1. SUFFICES ASSUME NEW t \in Tasks, Sound(t)'
                   PROVE  claims'[t] = taskRow'[t].attempts
      BY DEF AttemptsCountClaims
    <2>2. claims[t] = taskRow[t].attempts
      BY <1>4, <1>5, <2>1 DEF IInv, AttemptsCountClaims, Sound
    <2> QED
      BY <1>3, <1>8, <2>2
  <1>19. CompletedHasMetrics'
    BY <1>3, <1>5 DEF IInv, CompletedHasMetrics
  <1>20. DeadIsExhausted'
    BY <1>3 DEF IInv, DeadIsExhausted
  <1> QED
    BY <1>11, <1>12, <1>13, <1>14, <1>15, <1>16, <1>17, <1>18, <1>19, <1>20 DEF IInv

\* A worker that ends a task leaves its attempts as they are, if the store can
\* be trusted about it, and the status fits them.
LEMMA WorkerPreserves ==
  ASSUME IInv, NEW w \in Workers, WorkerMove(w)
  PROVE  IInv'
  <1> DEFINE c == current[w]
             n == KnownAttempts(w, c)
  <1>1. c \in Tasks /\ Has(w, c) /\ step[w] # "idle"
    BY DEF WorkerMove, Has
  <1>2. /\ postgres' = postgres /\ claims' = claims /\ overtaken' = overtaken
        /\ metrics \subseteq metrics'
    BY DEF WorkerMove
  <1>3. \A t \in Tasks \ {c} : taskRow'[t] = taskRow[t]
    BY DEF WorkerMove, RowMove
  <1>4. \/ taskRow' = taskRow
        \/ /\ MayEnd(w, c)
           /\ taskRow'[c].attempts = n /\ taskRow'[c].owner = NoWorker
           /\ \/ taskRow'[c].status = "COMPLETED" /\ c \in metrics
              \/ taskRow'[c].status = StatusAfterFailure(n)
           /\ ~postgres => c \notin DOMAIN batch'[w]
    BY DEF WorkerMove, RowMove
  <1>5. \A v \in Workers \ {w} :
          batch'[v] = batch[v] /\ step'[v] = step[v] /\ current'[v] = current[v]
    BY DEF WorkerMove, BatchMove
  <1>6. /\ DOMAIN batch'[w] \subseteq DOMAIN batch[w]
        /\ \A t \in DOMAIN batch'[w] : batch'[w][t] = batch[w][t]
        /\ step'[w] = "idle" => DOMAIN batch'[w] = {}
        /\ step'[w] # "idle" => current'[w] \in DOMAIN batch'[w]
        /\ step'[w] = "completing" => current'[w] \in metrics'
    BY DEF WorkerMove, BatchMove
  <1>7. \A v \in Workers, t \in Tasks :
          Has(v, t)' => Has(v, t) /\ batch'[v][t] = batch[v][t]
    BY <1>5, <1>6 DEF Has
  <1>8. c \notin overtaken \/ postgres => n = taskRow[c].attempts
    BY <1>1 DEF IInv, CopiesAreCurrent, KnownAttempts
  <1>9. n \in 0 .. MaxAttempts
    <2>1. batch[w] \in Batches /\ taskRow[c].attempts \in 0 .. MaxAttempts
      BY <1>1 DEF IInv, SyncTypeOK, Rows
    <2>2. batch[w][c] \in 1 .. MaxAttempts
      BY <1>1, <2>1, BatchFacts DEF Has
    <2> QED
      BY <2>1, <2>2, NumbersAssumption DEF KnownAttempts
  <1> HIDE DEF n
  <1>10. \A t \in Tasks \ overtaken : taskRow'[t].attempts = taskRow[t].attempts
    BY <1>3, <1>4, <1>8
  <1>11. SyncTypeOK'
    <2>1. /\ taskRow' \in [Tasks -> Rows] /\ batch' \in [Workers -> Batches]
          /\ step' \in [Workers -> SyncSteps] /\ current' \in [Workers -> Tasks]
          /\ metrics' \in SUBSET Tasks
      BY DEF WorkerMove, RowMove, BatchMove
    <2>2. postgres \in BOOLEAN /\ claims \in [Tasks -> Nat] /\ overtaken \in SUBSET Tasks
      BY DEF IInv, SyncTypeOK
    <2> QED
      BY <1>2, <2>1, <2>2 DEF SyncTypeOK
  <1>12. Working'
    BY <1>5, <1>6 DEF IInv, Working
  <1>13. OneHolder'
    BY <1>2, <1>7 DEF IInv, OneHolder
  <1>14. CopiesAreCurrent'
    BY <1>2, <1>7, <1>10 DEF IInv, CopiesAreCurrent
  <1>15. HeldIsRunning'
    <2>1. SUFFICES ASSUME NEW t \in Tasks \ overtaken, NEW v \in Workers,
                          ~postgres, Has(v, t)'
                   PROVE  taskRow'[t].status = "RUNNING"
      BY <1>2 DEF HeldIsRunning
    <2>2. Has(v, t) /\ taskRow[t].status = "RUNNING"
      BY <1>7, <2>1 DEF IInv, HeldIsRunning
    <2>3. t = c => v = w
      BY <1>1, <2>1, <2>2 DEF IInv, OneHolder
    <2>4. t = c => taskRow' = taskRow
      BY <1>4, <2>1, <2>3 DEF Has
    <2> QED
      BY <1>3, <2>2, <2>4
  <1>16. EndedIsUnowned'
    BY <1>3, <1>4 DEF IInv, EndedIsUnowned
  <1>17. SavedBeforeCompleting'
    BY <1>2, <1>5, <1>6 DEF IInv, SavedBeforeCompleting
  <1>18. AttemptsCountClaims'
    BY <1>2, <1>3, <1>4, <1>8 DEF IInv, AttemptsCountClaims, Sound
  <1>19. CompletedHasMetrics'
    <2>1. StatusAfterFailure(n) # "COMPLETED"
      BY DEF StatusAfterFailure
    <2> QED
      BY <1>2, <1>3, <1>4, <2>1 DEF IInv, CompletedHasMetrics
  <1>20. DeadIsExhausted'
    <2>1. /\ StatusAfterFailure(n) = "DEAD" => n = MaxAttempts
          /\ StatusAfterFailure(n) = "RETRY" => n < MaxAttempts
      BY <1>9, NumbersAssumption DEF StatusAfterFailure
    <2> QED
      BY <1>3, <1>4, <2>1 DEF IInv, DeadIsExhausted
  <1> QED
    BY <1>11, <1>12, <1>13, <1>14, <1>15, <1>16, <1>17, <1>18, <1>19, <1>20 DEF IInv

\* A step of the system, or none, is one of the three moves.
LEMMA StepSummary ==
  ASSUME IInv, [SyncNext]_syncVars
  PROVE  \/ TaskMove
         \/ \E w \in Workers, ts \in SUBSET Tasks : ClaimMove(w, ts)
         \/ \E w \in Workers : WorkerMove(w)
  <1>1. SyncTypeOK /\ Working /\ SavedBeforeCompleting
    BY DEF IInv
  <1>2. ASSUME NEW t \in Tasks, Enqueue(t) \/ BecomeDue(t) \/ LeaseLapse(t)
        PROVE  TaskMove
    BY <1>1, <1>2, TaskSummary
  <1>3. ASSUME NEW w \in Workers, Claim(w)
        PROVE  \E ts \in SUBSET Tasks : ClaimMove(w, ts)
    BY <1>1, <1>3, ClaimSummary
  <1>4. ASSUME NEW w \in Workers, SyncWork(w) \/ SyncCrash(w)
        PROVE  WorkerMove(w)
    BY <1>1, <1>4, WorkerSummary
  <1>5. CASE UNCHANGED syncVars
    <2>1. /\ taskRow' = taskRow
          /\ UNCHANGED <<postgres, batch, step, current, metrics, claims, overtaken>>
      BY <1>5 DEF syncVars
    <2> QED
      BY <1>1, <2>1 DEF TaskMove, SyncTypeOK
  <1> QED
    BY <1>2, <1>3, <1>4, <1>5 DEF SyncNext

\* Every step preserves the invariant.
LEMMA StepPreserves == IInv /\ [SyncNext]_syncVars => IInv'
  BY StepSummary, TaskPreserves, ClaimPreserves, WorkerPreserves

\* A step of the system leaves the status of an ended task alone: the claim
\* does not return it, and whoever still has it fails at the fence (PostgreSQL)
\* or does not exist as long as nobody was overtaken (SQLite).
LEMMA EndsStayStep ==
  ASSUME IInv, [SyncNext]_syncVars, NEW t \in Tasks, Sound(t), taskRow[t].status \in {"COMPLETED", "DEAD"}
  PROVE  taskRow'[t].status = taskRow[t].status
  <1>1. CASE TaskMove
    BY <1>1 DEF TaskMove
  <1>2. ASSUME NEW w \in Workers, NEW ts \in SUBSET Tasks, ClaimMove(w, ts)
        PROVE  taskRow'[t].status = taskRow[t].status
    BY <1>2 DEF ClaimMove
  <1>3. ASSUME NEW w \in Workers, WorkerMove(w)
        PROVE  taskRow'[t].status = taskRow[t].status
    <2>1. taskRow' = taskRow \/ t # current[w] \/ MayEnd(w, t)
      BY <1>3 DEF WorkerMove, RowMove
    <2>2. t = current[w] => Has(w, t)
      BY <1>3 DEF WorkerMove, Has
    <2>3. ~(t = current[w] /\ MayEnd(w, t))
      <3>1. taskRow[t].owner # w
        BY SyncAssumption DEF IInv, EndedIsUnowned
      <3>2. CASE postgres
        BY <3>1, <3>2 DEF MayEnd
      <3>3. CASE ~postgres
        BY <2>2, <3>3 DEF Sound, IInv, HeldIsRunning
      <3> QED
        BY <3>2, <3>3
    <2> QED
      BY <1>3, <2>1, <2>3 DEF WorkerMove, RowMove
  <1> QED
    BY <1>1, <1>2, <1>3, StepSummary

-----------------------------------------------------------------------------
(* The theorems *)

\* Every reachable state satisfies the invariant.
THEOREM Invariance == SyncSpec => []IInv
  BY InitEstablishes, StepPreserves, PTL DEF SyncSpec

\* The variables keep their types; in particular no row ever counts more
\* attempts than are allowed.
THEOREM TypeCorrect == SyncSpec => []SyncTypeOK
  <1>1. IInv => SyncTypeOK
    BY DEF IInv
  <1> QED
    BY <1>1, Invariance, PTL

\* The attempts of a row are the claims of its task, as long as the store can
\* be trusted about it: no task is synchronised more often than allowed.
THEOREM AttemptsCounted == SyncSpec => []AttemptsCountClaims
  <1>1. IInv => AttemptsCountClaims
    BY DEF IInv
  <1> QED
    BY <1>1, Invariance, PTL

\* A task that is COMPLETED has its metrics saved, in both stores and whoever
\* was overtaken.
THEOREM CompletedSaved == SyncSpec => []CompletedHasMetrics
  <1>1. IInv => CompletedHasMetrics
    BY DEF IInv
  <1> QED
    BY <1>1, Invariance, PTL

\* A task that was given up used all its attempts, and one that waits for a
\* retry can still be claimed.
THEOREM GivenUpExhausted == SyncSpec => []DeadIsExhausted
  <1>1. IInv => DeadIsExhausted
    BY DEF IInv
  <1> QED
    BY <1>1, Invariance, PTL

\* A task that came to its end stays there.
THEOREM EndsStay == SyncSpec => EndIsFinal
  <1>1. IInv /\ [SyncNext]_syncVars =>
          [\A t \in Tasks :
             (Sound(t) /\ taskRow[t].status \in {"COMPLETED", "DEAD"})
               => taskRow'[t].status = taskRow[t].status]_syncVars
    BY EndsStayStep
  <1> QED
    BY <1>1, Invariance, PTL DEF SyncSpec, EndIsFinal
=============================================================================
