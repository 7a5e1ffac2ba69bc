------------------------- MODULE PublishState_proofs -------------------------
(***************************************************************************)
(* TLAPS proofs about PublishState, for any sets of schedules and workers  *)
(* and any bounds.                                                         *)
(***************************************************************************)
EXTENDS PublishState, TLAPS

-----------------------------------------------------------------------------
(* How the building blocks of the actions act on their variables. *)

\* Goto moves one execution and leaves the others alone.
LEMMA GotoEffect ==
  ASSUME TypeOK, NEW w \in Workers, NEW s \in Schedules,
         NEW p \in Active \cup {"idle"}, Goto(w, s, p)
  PROVE  /\ task' \in [Workers -> [Schedules -> Tasks]]
         /\ task'[w][s].pc = p
         /\ p = "idle" => task'[w][s] = IdleTask
         /\ p # "idle" => /\ task'[w][s].token = task[w][s].token
                          /\ task'[w][s].seen = task[w][s].seen
                          /\ task'[w][s].result = task[w][s].result
         /\ \A v \in Workers, t \in Schedules :
              (v # w \/ t # s) => task'[v][t] = task[v][t]
  <1>1. task[w][s] \in Tasks /\ IdleTask \in Tasks
    BY DEF TypeOK, Tasks, IdleTask
  <1>2. [task[w][s] EXCEPT !.pc = p] \in Tasks
    BY <1>1 DEF Tasks
  <1>3. task' = [task EXCEPT ![w][s] = IF p = "idle" THEN IdleTask
                                       ELSE [task[w][s] EXCEPT !.pc = p]]
    BY DEF Goto
  <1>4. task'[w][s] = IF p = "idle" THEN IdleTask ELSE [task[w][s] EXCEPT !.pc = p]
    BY <1>3 DEF TypeOK
  <1>5. \A v \in Workers, t \in Schedules :
          (v # w \/ t # s) => task'[v][t] = task[v][t]
    BY <1>3 DEF TypeOK
  <1>6. task' \in [Workers -> [Schedules -> Tasks]]
    BY <1>1, <1>2, <1>3 DEF TypeOK
  <1> QED
    BY <1>1, <1>4, <1>5, <1>6 DEF Tasks, IdleTask

\* A final write keeps the row well typed, its epoch and its cancel flag.
LEMMA SettledRow ==
  ASSUME NEW r \in Rows, NEW final \in States
  PROVE  /\ Settled(r, final) \in Rows
         /\ Settled(r, final).state = final
         /\ Settled(r, final).owner = NoWorker
         /\ Settled(r, final).epoch = r.epoch
         /\ Settled(r, final).cancelRequested = r.cancelRequested
  BY DEF Settled, Rows

\* Where a failing or interrupted step goes is a known step.
LEMMA Detours ==
  ASSUME NEW p \in Active
  PROVE  /\ OnError(p) \in {"failing", "idle"}
         /\ OnInterrupt(p) \in {"cancelling", "idle"}
  BY DEF OnError, OnInterrupt

-----------------------------------------------------------------------------
(* The strengthening.  TypeOK alone is not inductive: Finish writes the     *)
(* result of the submission into the state column, so it has to be known   *)
(* that there is one.                                                       *)

ResultKnown ==
  \A w \in Workers, s \in Schedules :
    task[w][s].pc \in {"syncing", "finishing"} => task[w][s].result # "none"

TypeInv == TypeOK /\ ResultKnown

\* The cancel flag is set exactly when the epoch was raised, so a claim, which
\* needs the flag unset, always observes epoch 0.
EpochCountsCancels ==
  \A s \in Schedules : row[s].cancelRequested <=> row[s].epoch > 0

ObservedEpochIsZero ==
  \A w \in Workers, s \in Schedules : task[w][s].pc \in Active => task[w][s].seen = 0

\* The submitter has not submitted yet.
SubmitterIsFirst ==
  \A w \in Workers, s \in Schedules : At(w, s, "submitting") => submits[s] = 0

\* A worker that still holds a SUBMITTING row and could not finish it was
\* stopped by a cancellation.
ReconcilerSawCancel ==
  \A w \in Workers, s \in Schedules :
    (task[w][s].pc \in {"reconciling", "reconcilingFailure"} /\ MayReconcile(w, s))
      => row[s].epoch > 0

IInv ==
  /\ TypeInv
  /\ EpochCountsCancels
  /\ ObservedEpochIsZero
  /\ SubmitterOwnsRow
  /\ SubmitterIsFirst
  /\ AtMostOneSubmit
  /\ SubmittedNeverLooksUnsent
  /\ ReconcilerSawCancel
  /\ ReconciliationOnlyAfterCancel

-----------------------------------------------------------------------------
(* A summary of every step of an execution, which the invariants and the   *)
(* action properties are proved from.                                       *)

Own(w, s) == Execute(w, s) \/ CallFails(w, s) \/ Interrupt(w, s)

RowWith(s, new) == row' = [row EXCEPT ![s] = new]

RowWrite(w, s) ==
  \/ row' = row
  \/ MayStart(w, s) /\ RowWith(s, [row[s] EXCEPT !.state = "RUNNING"])
  \/ /\ At(w, s, "marking") /\ MaySubmit(w, s)
     /\ RowWith(s, [row[s] EXCEPT !.state = "SUBMITTING"])
  \/ MayFinish(w, s) /\ \E final \in Verdicts : RowWith(s, Settled(row[s], final))
  \/ /\ task[w][s].pc \in {"reconciling", "reconcilingFailure"} /\ MayReconcile(w, s)
     /\ RowWith(s, Settled(row[s], "RECONCILIATION_REQUIRED"))

TaskMove(w, s) ==
  /\ task[w][s].pc \in Active
  /\ task' \in [Workers -> [Schedules -> Tasks]]
  /\ \A v \in Workers, t \in Schedules : (v # w \/ t # s) => task'[v][t] = task[v][t]
  /\ \/ task'[w][s].pc = "idle"
     \/ task'[w][s].token = task[w][s].token /\ task'[w][s].seen = task[w][s].seen
  /\ task'[w][s].pc \in {"syncing", "finishing"} => task'[w][s].result # "none"
  /\ task'[w][s].pc = "submitting" =>
       At(w, s, "marking") /\ MaySubmit(w, s) /\ row'[s].state = "SUBMITTING"
  /\ task'[w][s].pc \in {"reconciling", "reconcilingFailure"} =>
       row' = row /\ ~MayFinish(w, s)

SubmitCount(w, s) ==
  \/ submits' = submits /\ notes' = notes
  \/ /\ At(w, s, "submitting") /\ row' = row
     /\ submits' = [submits EXCEPT ![s] = @ + 1]
     /\ notes' \in [Schedules -> Nat]
     /\ task'[w][s].pc # "submitting"

\* A Write leads to one of three next steps and changes one row.
LEMMA WriteEffect ==
  ASSUME TypeOK, NEW w \in Workers, NEW s \in Schedules, task[w][s].pc \in Active,
         NEW new, NEW next \in Active \cup {"idle"}, Write(w, s, new, next)
  PROVE  /\ RowWith(s, new)
         /\ UNCHANGED <<issued, submits, notes>>
         /\ task' \in [Workers -> [Schedules -> Tasks]]
         /\ \A v \in Workers, t \in Schedules :
              (v # w \/ t # s) => task'[v][t] = task[v][t]
         /\ task'[w][s].pc \in {next, "idle", "failing", "cancelling"}
         /\ \/ task'[w][s].pc = "idle"
            \/ /\ task'[w][s].token = task[w][s].token
               /\ task'[w][s].seen = task[w][s].seen
               /\ task'[w][s].result = task[w][s].result
  <1> DEFINE p == task[w][s].pc
  <1>1. PICK after \in {next, OnError(p), OnInterrupt(p)} : Goto(w, s, after)
    BY DEF Write
  <1>2. OnError(p) \in {"failing", "idle"} /\ OnInterrupt(p) \in {"cancelling", "idle"}
    BY Detours
  <1>3. after \in {next, "failing", "cancelling", "idle"} /\ after \in Active \cup {"idle"}
    BY <1>1, <1>2 DEF Active, Beating, Handlers
  <1> QED
    BY <1>1, <1>3, GotoEffect DEF Write, RowWith

\* A Step goes where it says and leaves the database alone.
LEMMA StepEffect ==
  ASSUME TypeOK, NEW w \in Workers, NEW s \in Schedules, task[w][s].pc \in Active,
         NEW next \in Active \cup {"idle"}, Step(w, s, next)
  PROVE  /\ UNCHANGED <<row, issued, submits, notes>>
         /\ task' \in [Workers -> [Schedules -> Tasks]]
         /\ \A v \in Workers, t \in Schedules :
              (v # w \/ t # s) => task'[v][t] = task[v][t]
         /\ task'[w][s].pc = next
         /\ \/ next = "idle"
            \/ /\ task'[w][s].token = task[w][s].token
               /\ task'[w][s].seen = task[w][s].seen
               /\ task'[w][s].result = task[w][s].result
  BY GotoEffect DEF Step

\* The outcome of the platform call, entered in the record of an execution.
LEMMA OutcomeRecord ==
  ASSUME NEW r \in Tasks, NEW p \in Active \cup {"idle"},
         NEW x \in {"none", "VERIFIED", "SUBMITTED_UNVERIFIED"}
  PROVE  LET new == [r EXCEPT !.pc = p, !.result = x]
         IN  /\ new \in Tasks
             /\ new.pc = p /\ new.result = x
             /\ new.token = r.token /\ new.seen = r.seen
  BY DEF Tasks

\* Every step of an execution, its failures and its cancellation included, is
\* one of the five row writes and one move of its own record.
LEMMA OwnSummary ==
  ASSUME TypeInv, NEW w \in Workers, NEW s \in Schedules, Own(w, s)
  PROVE  RowWrite(w, s) /\ TaskMove(w, s) /\ SubmitCount(w, s) /\ UNCHANGED issued
  <1> DEFINE Goal == RowWrite(w, s) /\ TaskMove(w, s) /\ SubmitCount(w, s) /\ UNCHANGED issued
  <1> SUFFICES Goal
    OBVIOUS
  <1> USE DEF Active, Beating, TryBlock, Handlers
  <1>0. TypeOK /\ (task[w][s].pc \in {"syncing", "finishing"} => task[w][s].result # "none")
    BY DEF TypeInv, ResultKnown
  <1>1. CASE Start(w, s)
    <2>1. task[w][s].pc \in Active
      BY <1>1 DEF Start, At
    <2>2. CASE MayStart(w, s) /\ Write(w, s, [row[s] EXCEPT !.state = "RUNNING"], "started")
      BY <1>0, <2>1, <2>2, WriteEffect DEF RowWrite, TaskMove, SubmitCount
    <2>3. CASE Step(w, s, "idle")
      BY <1>0, <2>1, <2>3, StepEffect DEF RowWrite, TaskMove, SubmitCount
    <2> QED
      BY <1>1, <2>2, <2>3 DEF Start
  <1>2. CASE CheckApproval(w, s)
    <2>1. PICK next \in {"expired", "checkCancel"} : Step(w, s, next)
      BY <1>2 DEF CheckApproval
    <2> QED
      BY <1>0, <1>2, <2>1, StepEffect DEF CheckApproval, At, RowWrite, TaskMove, SubmitCount
  <1>3. CASE FinishExpired(w, s)
    <2>1. task[w][s].pc \in Active
      BY <1>3 DEF FinishExpired, At
    <2>2. CASE MayFinish(w, s) /\ Write(w, s, Settled(row[s], "FAILED"), "idle")
      BY <1>0, <2>1, <2>2, WriteEffect DEF RowWrite, TaskMove, SubmitCount, Verdicts
    <2>3. CASE Step(w, s, "idle")
      BY <1>0, <2>1, <2>3, StepEffect DEF RowWrite, TaskMove, SubmitCount
    <2> QED
      BY <1>3, <2>2, <2>3 DEF FinishExpired
  <1>4. CASE CheckCancel(w, s)
    <2>1. PICK next \in {"preparing", "marking", "cancelling"} : Step(w, s, next)
      BY <1>4 DEF CheckCancel
    <2>2. task[w][s].pc \in Active
      BY <1>4 DEF CheckCancel, At
    <2> QED
      BY <1>0, <2>1, <2>2, StepEffect DEF RowWrite, TaskMove, SubmitCount
  <1>5. CASE Prepare(w, s)
    BY <1>0, <1>5, StepEffect DEF Prepare, At, RowWrite, TaskMove, SubmitCount
  <1>6. CASE MarkSubmitting(w, s)
    <2>1. At(w, s, "marking") /\ task[w][s].pc \in Active
      BY <1>6 DEF MarkSubmitting, At
    <2>2. CASE MaySubmit(w, s) /\ Write(w, s, [row[s] EXCEPT !.state = "SUBMITTING"], "submitting")
      <3>1. row'[s].state = "SUBMITTING"
        BY <1>0, <2>1, <2>2, WriteEffect DEF RowWith, TypeOK, Rows
      <3> QED
        BY <1>0, <2>1, <2>2, <3>1, WriteEffect DEF RowWrite, TaskMove, SubmitCount
    <2>3. CASE Step(w, s, "failing")
      BY <1>0, <2>1, <2>3, StepEffect DEF RowWrite, TaskMove, SubmitCount
    <2> QED
      BY <1>6, <2>2, <2>3 DEF MarkSubmitting
  <1>7. CASE Submit(w, s)
    <2>1. At(w, s, "submitting") /\ UNCHANGED <<row, issued>>
          /\ submits' = [submits EXCEPT ![s] = @ + 1]
      BY <1>7 DEF Submit
    <2>2. PICK o \in SubmitOutcomes :
            /\ notes' = [notes EXCEPT ![s] = IF o.note THEN @ + 1 ELSE @]
            /\ task' = [task EXCEPT ![w][s] = [@ EXCEPT !.pc = o.next, !.result = o.result]]
      BY <1>7 DEF Submit
    <2>3. /\ o.next \in {"syncing", "finishing", "failing", "cancelling"}
          /\ o.result \in {"none", "VERIFIED", "SUBMITTED_UNVERIFIED"}
          /\ o.next \in {"syncing", "finishing"} => o.result # "none"
      BY DEF SubmitOutcomes
    <2>4. task' \in [Workers -> [Schedules -> Tasks]]
      <3>1. task[w][s] \in Tasks /\ o.next \in Active \cup {"idle"}
        BY <1>0, <2>3 DEF TypeOK
      <3>2. [task[w][s] EXCEPT !.pc = o.next, !.result = o.result] \in Tasks
        BY <2>3, <3>1, OutcomeRecord
      <3> QED
        BY <1>0, <2>2, <3>2 DEF TypeOK
    <2>5. /\ task'[w][s].pc = o.next /\ task'[w][s].result = o.result
          /\ task'[w][s].token = task[w][s].token /\ task'[w][s].seen = task[w][s].seen
      BY <1>0, <2>2 DEF TypeOK, Tasks
    <2>6. \A v \in Workers, t \in Schedules : (v # w \/ t # s) => task'[v][t] = task[v][t]
      BY <1>0, <2>2 DEF TypeOK, Tasks
    <2>7. notes' \in [Schedules -> Nat]
      BY <1>0, <2>2 DEF TypeOK
    <2> QED
      BY <2>1, <2>3, <2>4, <2>5, <2>6, <2>7 DEF RowWrite, TaskMove, SubmitCount, At
  <1>8. CASE EnqueueSync(w, s)
    BY <1>0, <1>8, StepEffect DEF EnqueueSync, At, RowWrite, TaskMove, SubmitCount
  <1>9. CASE Finish(w, s)
    <2>1. task[w][s].pc \in Active /\ task[w][s].result \in Verdicts
      BY <1>0, <1>9 DEF Finish, At, TypeOK, Tasks, Verdicts
    <2>2. CASE MayFinish(w, s) /\ Write(w, s, Settled(row[s], task[w][s].result), "idle")
      BY <1>0, <2>1, <2>2, WriteEffect DEF RowWrite, TaskMove, SubmitCount
    <2>3. CASE ~MayFinish(w, s) /\ Step(w, s, "reconciling")
      BY <1>0, <2>1, <2>3, StepEffect DEF RowWrite, TaskMove, SubmitCount
    <2> QED
      BY <1>9, <2>2, <2>3 DEF Finish
  <1>10. CASE FinishFailed(w, s)
    <2>1. task[w][s].pc \in Active
      BY <1>10 DEF FinishFailed, At
    <2>2. CASE MayFinish(w, s) /\ Write(w, s, Settled(row[s], "FAILED"), "idle")
      BY <1>0, <2>1, <2>2, WriteEffect DEF RowWrite, TaskMove, SubmitCount, Verdicts
    <2>3. CASE ~MayFinish(w, s) /\ Step(w, s, "reconcilingFailure")
      BY <1>0, <2>1, <2>3, StepEffect DEF RowWrite, TaskMove, SubmitCount
    <2> QED
      BY <1>10, <2>2, <2>3 DEF FinishFailed
  <1>11. CASE FinishCancelled(w, s)
    <2>1. task[w][s].pc \in Active
      BY <1>11 DEF FinishCancelled, At
    <2>2. CASE MayFinish(w, s) /\ Write(w, s, Settled(row[s], "CANCELLED"), "idle")
      BY <1>0, <2>1, <2>2, WriteEffect DEF RowWrite, TaskMove, SubmitCount, Verdicts
    <2>3. CASE Step(w, s, "idle")
      BY <1>0, <2>1, <2>3, StepEffect DEF RowWrite, TaskMove, SubmitCount
    <2> QED
      BY <1>11, <2>2, <2>3 DEF FinishCancelled
  <1>12. CASE Reconcile(w, s)
    <2>1. task[w][s].pc \in {"reconciling", "reconcilingFailure"}
      BY <1>12 DEF Reconcile
    <2>2. CASE MayReconcile(w, s) /\ Write(w, s, Settled(row[s], "RECONCILIATION_REQUIRED"), "idle")
      BY <1>0, <2>1, <2>2, WriteEffect DEF RowWrite, TaskMove, SubmitCount
    <2>3. CASE Step(w, s, "idle")
      BY <1>0, <2>1, <2>3, StepEffect DEF RowWrite, TaskMove, SubmitCount
    <2> QED
      BY <1>12, <2>2, <2>3 DEF Reconcile
  <1>13. CASE CallFails(w, s)
    BY <1>0, <1>13, Detours, StepEffect DEF CallFails, RowWrite, TaskMove, SubmitCount
  <1>14. CASE Interrupt(w, s)
    BY <1>0, <1>14, Detours, StepEffect DEF Interrupt, RowWrite, TaskMove, SubmitCount
  <1> QED
    BY <1>1, <1>2, <1>3, <1>4, <1>5, <1>6, <1>7, <1>8, <1>9, <1>10, <1>11, <1>12,
       <1>13, <1>14 DEF Own, Execute

-----------------------------------------------------------------------------
(* Type correctness *)

\* The initial state is well typed, and nobody is about to record a result.
LEMMA InitType == Init => TypeInv
  BY DEF Init, TypeInv, TypeOK, ResultKnown, Rows, AbsentRow, States, Tasks, IdleTask, Active

\* What a claim does to the rows and executions of its batch and to the rest.
LEMMA ClaimEffect ==
  ASSUME TypeOK, NEW w \in Workers, NEW batch \in SUBSET Schedules, Claim(w, batch)
  PROVE  /\ TypeOK'
         /\ UNCHANGED <<submits, notes>>
         /\ \A s \in batch :
              /\ Claimable(s)
              /\ row'[s].state = "CLAIMED" /\ row'[s].owner = w
              /\ row'[s].epoch = row[s].epoch
              /\ row'[s].cancelRequested = row[s].cancelRequested
              /\ task'[w][s].pc = "claimed" /\ task'[w][s].seen = row[s].epoch
         /\ \A s \in Schedules \ batch : row'[s] = row[s] /\ task'[w][s] = IdleTask
         /\ \A v \in Workers \ {w}, s \in Schedules : task'[v][s] = task[v][s]
         /\ \A s \in Schedules : task[w][s].pc = "idle"
  <1>1. issued' \in [Schedules -> Nat]
    <2>1. issued' = [s \in Schedules |-> IF s \in batch THEN issued[s] + 1 ELSE issued[s]]
      BY DEF Claim
    <2>2. \A s \in Schedules : issued[s] \in Nat
      BY DEF TypeOK
    <2> QED
      BY <2>1, <2>2
  <1>2. /\ row' \in [Schedules -> Rows]
        /\ \A s \in batch :
              /\ row'[s].state = "CLAIMED" /\ row'[s].owner = w
              /\ row'[s].epoch = row[s].epoch
              /\ row'[s].cancelRequested = row[s].cancelRequested
        /\ \A s \in Schedules \ batch : row'[s] = row[s]
    <2>1. row' = [s \in Schedules |->
            IF s \in batch
            THEN [row[s] EXCEPT !.state = "CLAIMED", !.owner = w,
                                !.token = issued'[s], !.lease = "live"]
            ELSE row[s]]
      BY DEF Claim
    <2>2. \A s \in Schedules : row[s] \in Rows /\ issued'[s] \in Nat
      BY <1>1 DEF TypeOK
    <2>3. ASSUME NEW r \in Rows, NEW n \in Nat
          PROVE  LET new == [r EXCEPT !.state = "CLAIMED", !.owner = w,
                                      !.token = n, !.lease = "live"]
                 IN  /\ new \in Rows
                     /\ new.state = "CLAIMED" /\ new.owner = w
                     /\ new.epoch = r.epoch /\ new.cancelRequested = r.cancelRequested
      BY DEF Rows, States
    <2> QED
      BY <2>1, <2>2, <2>3
  <1>3. task' = [task EXCEPT ![w] = [s \in Schedules |->
          IF s \in batch
          THEN [pc |-> "claimed", token |-> issued'[s],
                seen |-> row[s].epoch, result |-> "none"]
          ELSE IdleTask]]
    BY DEF Claim
  <1>4. \A s \in Schedules :
          /\ [pc |-> "claimed", token |-> issued'[s],
              seen |-> row[s].epoch, result |-> "none"] \in Tasks
          /\ IdleTask \in Tasks
    BY <1>1 DEF TypeOK, Rows, Tasks, IdleTask, Active
  <1>5. task' \in [Workers -> [Schedules -> Tasks]]
    BY <1>3, <1>4 DEF TypeOK
  <1>6. /\ \A s \in batch : task'[w][s].pc = "claimed" /\ task'[w][s].seen = row[s].epoch
        /\ \A s \in Schedules \ batch : task'[w][s] = IdleTask
        /\ \A v \in Workers \ {w}, s \in Schedules : task'[v][s] = task[v][s]
    BY <1>3 DEF TypeOK
  <1> QED
    BY <1>1, <1>2, <1>5, <1>6 DEF Claim, TypeOK, At

\* The steps outside an execution that touch one row, and the fields they keep.
RowSteps(s) ==
  \/ Schedule(s) \/ RequestCancel(s) \/ LeaseLapse(s)
  \/ \E w \in Workers : Heartbeat(w, s)

\* Scheduling, cancelling, the clock and the heartbeat keep a row's owner and
\* token, and at most move it to SCHEDULED or to CANCEL_REQUESTED.
LEMMA RowStepEffect ==
  ASSUME TypeOK, NEW s \in Schedules, RowSteps(s)
  PROVE  /\ row' \in [Schedules -> Rows]
         /\ UNCHANGED <<issued, task, submits, notes>>
         /\ \A t \in Schedules \ {s} : row'[t] = row[t]
         /\ row'[s].owner = row[s].owner /\ row'[s].token = row[s].token
         /\ \/ /\ row'[s].epoch = row[s].epoch
               /\ row'[s].cancelRequested = row[s].cancelRequested
            \/ row'[s].epoch = row[s].epoch + 1 /\ row'[s].cancelRequested = TRUE
         /\ \/ row'[s].state = row[s].state
            \/ row[s].state = "ABSENT" /\ row'[s].state = "SCHEDULED"
            \/ /\ row[s].state \in {"SCHEDULED", "CLAIMED", "RUNNING"}
               /\ row'[s].state = "CANCEL_REQUESTED"
  <1>0. row[s] \in Rows /\ row \in [Schedules -> Rows]
    BY DEF TypeOK
  <1>1. CASE Schedule(s)
    BY <1>0, <1>1 DEF Schedule, Rows, States
  <1>2. CASE RequestCancel(s)
    <2> DEFINE new == [row[s] EXCEPT !.epoch = @ + 1, !.cancelRequested = TRUE,
                                     !.state = CancelledState(@)]
    <2>1. row' = [row EXCEPT ![s] = new] /\ UNCHANGED <<issued, task, submits, notes>>
      BY <1>0, <1>2 DEF RequestCancel, Rows
    <2>2. /\ new \in Rows /\ new.owner = row[s].owner /\ new.token = row[s].token
          /\ new.epoch = row[s].epoch + 1 /\ new.cancelRequested = TRUE
          /\ new.state = CancelledState(row[s].state)
      <3>1. CancelledState(row[s].state) \in States /\ row[s].epoch + 1 \in Nat
        BY <1>0 DEF CancelledState, Rows, States
      <3>2. new = [row[s] EXCEPT !.epoch = row[s].epoch + 1, !.cancelRequested = TRUE,
                                 !.state = CancelledState(row[s].state)]
        OBVIOUS
      <3> HIDE DEF new
      <3> QED
        BY <1>0, <3>1, <3>2 DEF Rows
    <2>3. \/ new.state = row[s].state
          \/ /\ row[s].state \in {"SCHEDULED", "CLAIMED", "RUNNING"}
             /\ new.state = "CANCEL_REQUESTED"
      BY <2>2 DEF CancelledState
    <2> QED
      BY <1>0, <2>1, <2>2, <2>3
  <1>3. CASE LeaseLapse(s)
    BY <1>0, <1>3 DEF LeaseLapse, Rows, States
  <1>4. CASE \E w \in Workers : Heartbeat(w, s)
    BY <1>0, <1>4 DEF Heartbeat, Rows, States
  <1> QED
    BY <1>1, <1>2, <1>3, <1>4 DEF RowSteps

\* A crash forgets the executions of one worker and nothing else.
LEMMA CrashEffect ==
  ASSUME TypeOK, NEW w \in Workers, Crash(w)
  PROVE  /\ UNCHANGED <<row, issued, submits, notes>>
         /\ task' \in [Workers -> [Schedules -> Tasks]]
         /\ \A s \in Schedules : task'[w][s] = IdleTask
         /\ \A v \in Workers \ {w}, s \in Schedules : task'[v][s] = task[v][s]
  <1>1. IdleTask \in Tasks
    BY DEF IdleTask, Tasks, Active
  <1> QED
    BY <1>1 DEF Crash, TypeOK

\* The four kinds of step of Next.
LEMMA NextCases ==
  ASSUME Next
  PROVE  \/ \E s \in Schedules : RowSteps(s)
         \/ \E w \in Workers, s \in Schedules : Own(w, s)
         \/ \E w \in Workers : Crash(w)
         \/ \E w \in Workers, batch \in SUBSET Schedules : Claim(w, batch)
  BY DEF Next, RowSteps, Own

\* An execution writes a well-typed row.
LEMMA RowWriteType ==
  ASSUME TypeOK, NEW w \in Workers, NEW s \in Schedules, RowWrite(w, s)
  PROVE  row' \in [Schedules -> Rows]
  <1>0. row[s] \in Rows /\ row \in [Schedules -> Rows]
    BY DEF TypeOK
  <1>1. \A final \in States : Settled(row[s], final) \in Rows
    BY <1>0, SettledRow
  <1>2. /\ [row[s] EXCEPT !.state = "RUNNING"] \in Rows
        /\ [row[s] EXCEPT !.state = "SUBMITTING"] \in Rows
    BY <1>0 DEF Rows, States
  <1> QED
    BY <1>0, <1>1, <1>2 DEF RowWrite, RowWith, States

\* Every step keeps the types.
LEMMA NextType == TypeInv /\ [Next]_vars => TypeInv'
  <1> SUFFICES ASSUME TypeInv, [Next]_vars PROVE TypeInv'
    OBVIOUS
  <1>0. TypeOK /\ ResultKnown
    BY DEF TypeInv
  <1>1. ASSUME NEW w \in Workers, NEW s \in Schedules, Own(w, s) PROVE TypeInv'
    <2>1. RowWrite(w, s) /\ TaskMove(w, s) /\ SubmitCount(w, s) /\ UNCHANGED issued
      BY <1>1, OwnSummary
    <2>2. row' \in [Schedules -> Rows]
      BY <1>0, <2>1, RowWriteType
    <2>3. submits' \in [Schedules -> Nat] /\ notes' \in [Schedules -> Nat]
      BY <1>0, <2>1 DEF SubmitCount, TypeOK
    <2>4. ResultKnown'
      BY <1>0, <2>1 DEF TaskMove, ResultKnown
    <2> QED
      BY <1>0, <2>1, <2>2, <2>3, <2>4 DEF TaskMove, TypeInv, TypeOK
  <1>2. ASSUME NEW s \in Schedules, RowSteps(s) PROVE TypeInv'
    <2>1. row' \in [Schedules -> Rows] /\ UNCHANGED <<issued, task, submits, notes>>
      BY <1>0, <1>2, RowStepEffect
    <2> QED
      BY <1>0, <2>1 DEF TypeInv, TypeOK, ResultKnown
  <1>3. ASSUME NEW w \in Workers, Crash(w) PROVE TypeInv'
    BY <1>0, <1>3, CrashEffect DEF TypeInv, TypeOK, ResultKnown, IdleTask
  <1>4. ASSUME NEW w \in Workers, NEW batch \in SUBSET Schedules, Claim(w, batch)
        PROVE  TypeInv'
    BY <1>0, <1>4, ClaimEffect DEF TypeInv, ResultKnown, IdleTask
  <1>5. CASE UNCHANGED vars
    BY <1>0, <1>5 DEF vars, TypeInv, TypeOK, ResultKnown
  <1> QED
    BY <1>1, <1>2, <1>3, <1>4, <1>5, NextCases

\* Type correctness of the publish state machine, for any instance: in
\* particular no path writes a state the table does not know.
THEOREM TypeCorrect == Spec => []TypeOK
  <1>1. Spec => []TypeInv
    BY InitType, NextType, PTL DEF Spec
  <1>2. TypeInv => TypeOK
    BY DEF TypeInv
  <1> QED
    BY <1>1, <1>2, PTL

-----------------------------------------------------------------------------
(* The inductive invariant *)

\* The empty table satisfies the inductive invariant.
LEMMA InitIInv == Init => IInv
  <1> SUFFICES ASSUME Init PROVE IInv
    OBVIOUS
  <1>1. /\ \A s \in Schedules : row[s] = AbsentRow /\ submits[s] = 0
        /\ \A w \in Workers, s \in Schedules : task[w][s] = IdleTask
    BY DEF Init
  <1> QED
    BY <1>1, InitType DEF IInv, EpochCountsCancels, ObservedEpochIsZero, SubmitterOwnsRow,
       SubmitterIsFirst, AtMostOneSubmit, SubmittedNeverLooksUnsent, ReconcilerSawCancel,
       ReconciliationOnlyAfterCancel, At, AbsentRow, IdleTask, Active, Beating, TryBlock, Handlers

\* The fields an execution's write keeps, and who may make which change of state.
LEMMA RowWriteFacts ==
  ASSUME TypeOK, NEW w \in Workers, NEW s \in Schedules, RowWrite(w, s)
  PROVE  /\ \A t \in Schedules : t # s => row'[t] = row[t]
         /\ row'[s].epoch = row[s].epoch
         /\ row'[s].cancelRequested = row[s].cancelRequested
         /\ \/ row' = row
            \/ /\ Holds(w, s) /\ row'[s].owner = row[s].owner
               /\ row[s].state = "CLAIMED" /\ row'[s].state = "RUNNING"
            \/ /\ Holds(w, s) /\ row'[s].owner = row[s].owner /\ row'[s].token = row[s].token
               /\ At(w, s, "marking")
               /\ row[s].state = "RUNNING" /\ row'[s].state = "SUBMITTING"
            \/ /\ MayFinish(w, s) /\ row'[s].owner = NoWorker
               /\ row'[s].state \in Verdicts
            \/ /\ task[w][s].pc \in {"reconciling", "reconcilingFailure"}
               /\ MayReconcile(w, s) /\ row'[s].owner = NoWorker
               /\ row'[s].state = "RECONCILIATION_REQUIRED"
  <1>0. row \in [Schedules -> Rows] /\ row[s] \in Rows
    BY DEF TypeOK
  <1>1. CASE row' = row
    BY <1>1
  <1>2. CASE MayStart(w, s) /\ RowWith(s, [row[s] EXCEPT !.state = "RUNNING"])
    BY <1>0, <1>2 DEF MayStart, RowWith, Rows
  <1>3. CASE /\ At(w, s, "marking") /\ MaySubmit(w, s)
             /\ RowWith(s, [row[s] EXCEPT !.state = "SUBMITTING"])
    BY <1>0, <1>3 DEF MaySubmit, RowWith, Rows
  <1>4. CASE MayFinish(w, s) /\ \E final \in Verdicts : RowWith(s, Settled(row[s], final))
    <2>1. PICK final \in Verdicts : RowWith(s, Settled(row[s], final))
      BY <1>4
    <2>2. final \in States
      BY DEF States
    <2> QED
      BY <1>0, <1>4, <2>1, <2>2, SettledRow DEF RowWith
  <1>5. CASE /\ task[w][s].pc \in {"reconciling", "reconcilingFailure"} /\ MayReconcile(w, s)
             /\ RowWith(s, Settled(row[s], "RECONCILIATION_REQUIRED"))
    <2>1. "RECONCILIATION_REQUIRED" \in States
      BY DEF States
    <2> QED
      BY <1>0, <1>5, <2>1, SettledRow DEF RowWith
  <1> QED
    BY <1>1, <1>2, <1>3, <1>4, <1>5 DEF RowWrite

\* The inductive invariant survives every step of an execution.
LEMMA OwnKeepsIInv ==
  ASSUME IInv, TypeInv', NEW w \in Workers, NEW s \in Schedules, Own(w, s)
  PROVE  IInv'
  <1>0. TypeOK /\ TypeOK'
    BY DEF IInv, TypeInv
  <1>1. /\ RowWrite(w, s) /\ TaskMove(w, s) /\ SubmitCount(w, s)
        /\ task[w][s].pc \in Active
    BY OwnSummary DEF IInv, TaskMove
  <1>2. row[s] \in Rows /\ task[w][s] \in Tasks /\ task[w][s].seen = 0
        /\ row[s].epoch \in Nat /\ submits[s] \in Nat
    BY <1>0, <1>1 DEF IInv, ObservedEpochIsZero, TypeOK, Rows
  <1>3. /\ \A t \in Schedules : t # s => row'[t] = row[t]
        /\ \A t \in Schedules : row'[t].epoch = row[t].epoch
        /\ \A t \in Schedules : row'[t].cancelRequested = row[t].cancelRequested
    BY <1>0, <1>1, RowWriteFacts
  <1>4. \A v \in Workers, t \in Schedules :
          (v # w \/ t # s) => task'[v][t] = task[v][t]
    BY <1>1 DEF TaskMove
  <1>5. /\ \A t \in Schedules : t # s => submits'[t] = submits[t]
        /\ \/ submits'[s] = submits[s]
           \/ /\ At(w, s, "submitting") /\ row' = row /\ task'[w][s].pc # "submitting"
              /\ submits'[s] = submits[s] + 1
    BY <1>0, <1>1 DEF SubmitCount, TypeOK
  <1>a. EpochCountsCancels'
    BY <1>3 DEF IInv, EpochCountsCancels
  <1>b. ObservedEpochIsZero'
    BY <1>1, <1>2, <1>4 DEF IInv, ObservedEpochIsZero, TaskMove, Active, Beating, TryBlock, Handlers
  <1>c. SubmitterOwnsRow'
    <2> SUFFICES ASSUME NEW v \in Workers, NEW t \in Schedules, task'[v][t].pc = "submitting"
                 PROVE  /\ row'[t].owner = v /\ row'[t].token = task'[v][t].token
                        /\ row'[t].state = "SUBMITTING"
      BY DEF SubmitterOwnsRow, Holds, At
    <2>1. CASE v = w /\ t = s
      <3>1. /\ At(w, s, "marking") /\ MaySubmit(w, s) /\ row'[s].state = "SUBMITTING"
            /\ task'[w][s].token = task[w][s].token
        BY <1>1, <2>1 DEF TaskMove
      <3> QED
        BY <1>0, <1>1, <2>1, <3>1, RowWriteFacts DEF MaySubmit, Holds, At, Verdicts
    <2>2. CASE t # s
      BY <1>3, <1>4, <2>2 DEF IInv, SubmitterOwnsRow, Holds, At
    <2>3. CASE v # w /\ t = s
      <3>1. /\ row[s].owner = v /\ row[s].token = task[v][s].token
            /\ row[s].state = "SUBMITTING" /\ task'[v][s] = task[v][s]
        BY <1>4, <2>3 DEF IInv, SubmitterOwnsRow, Holds, At
      <3>2. row' = row
        BY <1>0, <1>1, <2>3, <3>1, RowWriteFacts DEF Holds, MayFinish, MayReconcile
      <3> QED
        BY <2>3, <3>1, <3>2
    <2> QED
      BY <2>1, <2>2, <2>3
  <1>d. SubmitterIsFirst'
    <2> SUFFICES ASSUME NEW v \in Workers, NEW t \in Schedules, task'[v][t].pc = "submitting"
                 PROVE  submits'[t] = 0
      BY DEF SubmitterIsFirst, At
    <2>1. CASE v = w /\ t = s
      <3>1. At(w, s, "marking") /\ row[s].state = "RUNNING"
        BY <1>1, <2>1 DEF TaskMove, MaySubmit
      <3> QED
        BY <1>2, <1>5, <2>1, <3>1 DEF IInv, SubmittedNeverLooksUnsent, At
    <2>2. CASE t # s
      BY <1>4, <1>5, <2>2 DEF IInv, SubmitterIsFirst, At
    <2>3. CASE v # w /\ t = s
      BY <1>4, <1>5, <2>3 DEF IInv, SubmitterIsFirst, SubmitterOwnsRow, Holds, At
    <2> QED
      BY <2>1, <2>2, <2>3
  <1>e. AtMostOneSubmit'
    BY <1>2, <1>5 DEF IInv, AtMostOneSubmit, SubmitterIsFirst
  <1>f. SubmittedNeverLooksUnsent'
    <2> SUFFICES ASSUME NEW t \in Schedules, submits'[t] > 0
                 PROVE  row'[t].state \notin {"ABSENT", "SCHEDULED", "CLAIMED", "RUNNING",
                                              "CANCEL_REQUESTED"}
      BY DEF SubmittedNeverLooksUnsent
    <2>1. CASE t # s
      BY <1>3, <1>5, <2>1 DEF IInv, SubmittedNeverLooksUnsent
    <2>2. CASE t = s /\ submits'[s] # submits[s]
      BY <1>5, <2>2 DEF IInv, SubmitterOwnsRow
    <2>3. CASE t = s /\ submits'[s] = submits[s]
      BY <1>0, <1>1, <2>3, RowWriteFacts DEF IInv, SubmittedNeverLooksUnsent, Verdicts
    <2> QED
      BY <2>1, <2>2, <2>3
  <1>g. ReconcilerSawCancel'
    <2> SUFFICES ASSUME NEW v \in Workers, NEW t \in Schedules,
                        task'[v][t].pc \in {"reconciling", "reconcilingFailure"},
                        row'[t].owner = v, row'[t].token = task'[v][t].token,
                        row'[t].state = "SUBMITTING"
                 PROVE  row'[t].epoch > 0
      BY DEF ReconcilerSawCancel, MayReconcile, Holds
    <2>1. CASE v = w /\ t = s
      <3>1. row' = row /\ ~MayFinish(w, s) /\ task'[w][s].token = task[w][s].token
        BY <1>1, <2>1 DEF TaskMove
      <3> QED
        BY <1>2, <2>1, <3>1 DEF MayFinish, Holds
    <2>2. CASE t # s
      BY <1>3, <1>4, <2>2 DEF IInv, ReconcilerSawCancel, MayReconcile, Holds
    <2>3. CASE v # w /\ t = s
      <3>1. v # NoWorker
        BY NoWorkerAssumption
      <3>2. row' = row
        BY <1>0, <1>1, <2>3, <3>1, RowWriteFacts DEF Holds
      <3> QED
        BY <1>4, <2>3, <3>2 DEF IInv, ReconcilerSawCancel, MayReconcile, Holds
    <2> QED
      BY <2>1, <2>2, <2>3
  <1>h. ReconciliationOnlyAfterCancel'
    <2> SUFFICES ASSUME NEW t \in Schedules, row'[t].state = "RECONCILIATION_REQUIRED"
                 PROVE  row'[t].epoch > 0
      BY DEF ReconciliationOnlyAfterCancel
    <2>1. CASE row'[t] = row[t]
      BY <2>1 DEF IInv, ReconciliationOnlyAfterCancel
    <2>2. CASE t = s /\ row' # row
      BY <1>0, <1>1, <1>3, <2>2, RowWriteFacts DEF IInv, ReconcilerSawCancel, Verdicts
    <2> QED
      BY <1>3, <2>1, <2>2
  <1> QED
    BY <1>a, <1>b, <1>c, <1>d, <1>e, <1>f, <1>g, <1>h DEF IInv

\* It survives the steps outside the executions,
LEMMA RowStepsKeepIInv ==
  ASSUME IInv, TypeInv', NEW s \in Schedules, RowSteps(s)
  PROVE  IInv'
  <1>0. TypeOK
    BY DEF IInv, TypeInv
  <1>1. /\ UNCHANGED <<issued, task, submits, notes>>
        /\ \A t \in Schedules : t # s => row'[t] = row[t]
        /\ \A t \in Schedules : row'[t].owner = row[t].owner /\ row'[t].token = row[t].token
    BY <1>0, RowStepEffect
  <1>2. \A t \in Schedules : row[t].epoch \in Nat /\ submits[t] \in Nat
    BY <1>0 DEF TypeOK, Rows
  <1>3. /\ \/ /\ row'[s].epoch = row[s].epoch
              /\ row'[s].cancelRequested = row[s].cancelRequested
           \/ row'[s].epoch = row[s].epoch + 1 /\ row'[s].cancelRequested = TRUE
        /\ \/ row'[s].state = row[s].state
           \/ row[s].state = "ABSENT" /\ row'[s].state = "SCHEDULED"
           \/ /\ row[s].state \in {"SCHEDULED", "CLAIMED", "RUNNING"}
              /\ row'[s].state = "CANCEL_REQUESTED"
    BY <1>0, RowStepEffect
  <1>a. EpochCountsCancels'
    BY <1>1, <1>2, <1>3 DEF IInv, EpochCountsCancels
  <1>b. ObservedEpochIsZero'
    BY <1>1 DEF IInv, ObservedEpochIsZero
  <1>c. SubmitterOwnsRow'
    BY <1>1, <1>3 DEF IInv, SubmitterOwnsRow, Holds, At
  <1>d. SubmitterIsFirst' /\ AtMostOneSubmit'
    BY <1>1 DEF IInv, SubmitterIsFirst, At, AtMostOneSubmit
  <1>e. SubmittedNeverLooksUnsent'
    BY <1>1, <1>3 DEF IInv, SubmittedNeverLooksUnsent
  <1>f. ReconcilerSawCancel'
    BY <1>1, <1>2, <1>3 DEF IInv, ReconcilerSawCancel, MayReconcile, Holds
  <1>g. ReconciliationOnlyAfterCancel'
    BY <1>1, <1>2, <1>3 DEF IInv, ReconciliationOnlyAfterCancel
  <1> QED
    BY <1>a, <1>b, <1>c, <1>d, <1>e, <1>f, <1>g DEF IInv

\* and the claim of a batch: a claimable row was neither cancelled nor submitted.
LEMMA ClaimKeepsIInv ==
  ASSUME IInv, TypeInv', NEW w \in Workers, NEW batch \in SUBSET Schedules, Claim(w, batch)
  PROVE  IInv'
  <1>0. TypeOK
    BY DEF IInv, TypeInv
  <1>1. /\ UNCHANGED <<submits, notes>>
        /\ \A s \in batch :
             /\ Claimable(s)
             /\ row'[s].state = "CLAIMED" /\ row'[s].owner = w
             /\ row'[s].epoch = row[s].epoch
             /\ row'[s].cancelRequested = row[s].cancelRequested
             /\ task'[w][s].pc = "claimed" /\ task'[w][s].seen = row[s].epoch
        /\ \A s \in Schedules \ batch : row'[s] = row[s] /\ task'[w][s] = IdleTask
        /\ \A v \in Workers \ {w}, s \in Schedules : task'[v][s] = task[v][s]
    BY <1>0, ClaimEffect
  <1>2. \A s \in batch :
          /\ row[s].state \in {"SCHEDULED", "CLAIMED", "RUNNING"}
          /\ row[s].epoch = 0
          /\ submits[s] = 0
    BY <1>0, <1>1 DEF Claimable, IInv, EpochCountsCancels, SubmittedNeverLooksUnsent, TypeOK, Rows
  <1>3. \A v \in Workers, s \in Schedules :
          \/ v # w /\ task'[v][s] = task[v][s]
          \/ v = w /\ s \in batch /\ task'[v][s].pc = "claimed" /\ task'[v][s].seen = 0
          \/ v = w /\ task'[v][s].pc = "idle"
    BY <1>1, <1>2 DEF IdleTask
  <1>4. /\ \A s \in Schedules : row'[s].epoch = row[s].epoch
        /\ \A s \in Schedules : row'[s].cancelRequested = row[s].cancelRequested
        /\ \A s \in Schedules : s \in batch \/ row'[s] = row[s]
    BY <1>1
  <1>a. EpochCountsCancels'
    BY <1>4 DEF IInv, EpochCountsCancels
  <1>b. ObservedEpochIsZero'
    BY <1>3 DEF IInv, ObservedEpochIsZero, Active, Beating, TryBlock, Handlers
  <1>c. SubmitterOwnsRow'
    BY <1>2, <1>3, <1>4 DEF IInv, SubmitterOwnsRow, Holds, At
  <1>d. SubmitterIsFirst' /\ AtMostOneSubmit'
    BY <1>1, <1>3 DEF IInv, SubmitterIsFirst, At, AtMostOneSubmit
  <1>e. SubmittedNeverLooksUnsent'
    BY <1>1, <1>2, <1>4 DEF IInv, SubmittedNeverLooksUnsent
  <1>f. ReconcilerSawCancel'
    BY <1>1, <1>3, <1>4 DEF IInv, ReconcilerSawCancel, MayReconcile, Holds
  <1>g. ReconciliationOnlyAfterCancel'
    BY <1>1, <1>4 DEF IInv, ReconciliationOnlyAfterCancel
  <1> QED
    BY <1>a, <1>b, <1>c, <1>d, <1>e, <1>f, <1>g DEF IInv

\* The invariant is inductive.
LEMMA NextIInv == IInv /\ [Next]_vars => IInv'
  <1> SUFFICES ASSUME IInv, [Next]_vars PROVE IInv'
    OBVIOUS
  <1>0. TypeOK /\ TypeInv'
    BY NextType DEF IInv, TypeInv
  <1>1. ASSUME NEW w \in Workers, NEW s \in Schedules, Own(w, s) PROVE IInv'
    BY <1>0, <1>1, OwnKeepsIInv
  <1>2. ASSUME NEW s \in Schedules, RowSteps(s) PROVE IInv'
    BY <1>0, <1>2, RowStepsKeepIInv
  <1>3. ASSUME NEW w \in Workers, NEW batch \in SUBSET Schedules, Claim(w, batch) PROVE IInv'
    BY <1>0, <1>3, ClaimKeepsIInv
  <1>4. ASSUME NEW w \in Workers, Crash(w) PROVE IInv'
    <2>1. /\ UNCHANGED <<row, issued, submits, notes>>
          /\ \A v \in Workers, s \in Schedules :
               task'[v][s] = task[v][s] \/ task'[v][s].pc = "idle"
      BY <1>0, <1>4, CrashEffect DEF IdleTask
    <2>2. EpochCountsCancels' /\ AtMostOneSubmit' /\ SubmittedNeverLooksUnsent'
          /\ ReconciliationOnlyAfterCancel'
      BY <2>1 DEF IInv, EpochCountsCancels, AtMostOneSubmit, SubmittedNeverLooksUnsent,
         ReconciliationOnlyAfterCancel
    <2>3. ObservedEpochIsZero' /\ SubmitterOwnsRow' /\ SubmitterIsFirst' /\ ReconcilerSawCancel'
      BY <2>1 DEF IInv, ObservedEpochIsZero, SubmitterOwnsRow, SubmitterIsFirst,
         ReconcilerSawCancel, MayReconcile, Holds, At, Active, Beating, TryBlock, Handlers
    <2> QED
      BY <1>0, <2>2, <2>3 DEF IInv
  <1>5. CASE UNCHANGED vars
    BY <1>0, <1>5 DEF vars, IInv, EpochCountsCancels, ObservedEpochIsZero, SubmitterOwnsRow,
       SubmitterIsFirst, AtMostOneSubmit, SubmittedNeverLooksUnsent, ReconcilerSawCancel,
       ReconciliationOnlyAfterCancel, MayReconcile, Holds, At
  <1> QED
    BY <1>1, <1>2, <1>3, <1>4, <1>5, NextCases

\* The strengthened invariant holds in every reachable state.
LEMMA Inductive == Spec => []IInv
  BY InitIInv, NextIInv, PTL DEF Spec

-----------------------------------------------------------------------------
(* Safety *)

\* However many workers there are and whatever fails, the external submission
\* of a schedule is attempted at most once.
THEOREM AtMostOnceSubmitted == Spec => []AtMostOneSubmit
  <1>1. IInv => AtMostOneSubmit
    BY DEF IInv
  <1> QED
    BY <1>1, Inductive, PTL

\* The worker about to submit owns a row that nobody else may touch.
THEOREM SubmitterKeepsRow == Spec => []SubmitterOwnsRow
  <1>1. IInv => SubmitterOwnsRow
    BY DEF IInv
  <1> QED
    BY <1>1, Inductive, PTL

\* A submitted schedule never looks as if it could still be run or withdrawn.
THEOREM SubmissionIsVisible == Spec => []SubmittedNeverLooksUnsent
  <1>1. IInv => SubmittedNeverLooksUnsent
    BY DEF IInv
  <1> QED
    BY <1>1, Inductive, PTL

\* A row is parked for reconciliation only after an accepted cancellation.
THEOREM ReconciliationNeedsCancel == Spec => []ReconciliationOnlyAfterCancel
  <1>1. IInv => ReconciliationOnlyAfterCancel
    BY DEF IInv
  <1> QED
    BY <1>1, Inductive, PTL

-----------------------------------------------------------------------------
(* What a step may never do *)

\* A worker whose lease token is no longer the row's cannot change the row.
THEOREM FencingHolds == Spec => FencedWrites
  <1> DEFINE Fenced ==
        \A w \in Workers, s \in Schedules :
          (/\ task[w][s].pc \in Active
           /\ ~Holds(w, s)
           /\ task'[w][s] # task[w][s]) => row'[s] = row[s]
  <1>1. ASSUME TypeInv, [Next]_vars PROVE Fenced
    <2> SUFFICES ASSUME NEW w \in Workers, NEW s \in Schedules, task[w][s].pc \in Active,
                        ~Holds(w, s), task'[w][s] # task[w][s]
                 PROVE  row'[s] = row[s]
      OBVIOUS
    <2>0. TypeOK
      BY <1>1 DEF TypeInv
    <2>1. ASSUME NEW v \in Workers, NEW t \in Schedules, Own(v, t) PROVE row'[s] = row[s]
      <3>1. RowWrite(v, t) /\ TaskMove(v, t)
        BY <1>1, <2>1, OwnSummary
      <3>2. v = w /\ t = s
        BY <3>1 DEF TaskMove
      <3> QED
        BY <2>0, <3>1, <3>2 DEF RowWrite, MayStart, MaySubmit, MayFinish, MayReconcile
    <2>2. ASSUME NEW t \in Schedules, RowSteps(t) PROVE row'[s] = row[s]
      BY <2>0, <2>2, RowStepEffect
    <2>3. ASSUME NEW v \in Workers, Crash(v) PROVE row'[s] = row[s]
      BY <2>0, <2>3, CrashEffect
    <2>4. ASSUME NEW v \in Workers, NEW batch \in SUBSET Schedules, Claim(v, batch)
          PROVE  row'[s] = row[s]
      <3>1. v = w
        BY <2>0, <2>4, ClaimEffect
      <3> QED
        BY <2>0, <2>4, <3>1, ClaimEffect DEF Active, Beating, TryBlock, Handlers
    <2>5. CASE UNCHANGED vars
      BY <2>5 DEF vars
    <2> QED
      BY <1>1, <2>1, <2>2, <2>3, <2>4, <2>5, NextCases
  <1>2. TypeInv /\ [Next]_vars => [Fenced]_vars
    BY <1>1
  <1>3. Spec => []TypeInv
    BY InitType, NextType, PTL DEF Spec
  <1> QED
    BY <1>2, <1>3, PTL DEF Spec, FencedWrites

\* How one step may change the state of a row, and in which circumstances.
LEMMA StateMoves ==
  ASSUME IInv, [Next]_vars, NEW s \in Schedules
  PROVE  \/ row'[s].state = row[s].state
         \/ /\ row[s].state \in {"ABSENT", "SCHEDULED", "CLAIMED", "RUNNING"}
            /\ row'[s].state \in {"SCHEDULED", "CLAIMED", "RUNNING", "SUBMITTING",
                                  "CANCEL_REQUESTED"}
         \/ /\ row[s].state \in {"CLAIMED", "RUNNING", "SUBMITTING"}
            /\ row'[s].state \in Verdicts
            /\ row[s].epoch = 0
         \/ row[s].state = "SUBMITTING" /\ row'[s].state = "RECONCILIATION_REQUIRED"
  <1> DEFINE Goal ==
         \/ row'[s].state = row[s].state
         \/ /\ row[s].state \in {"ABSENT", "SCHEDULED", "CLAIMED", "RUNNING"}
            /\ row'[s].state \in {"SCHEDULED", "CLAIMED", "RUNNING", "SUBMITTING",
                                  "CANCEL_REQUESTED"}
         \/ /\ row[s].state \in {"CLAIMED", "RUNNING", "SUBMITTING"}
            /\ row'[s].state \in Verdicts
            /\ row[s].epoch = 0
         \/ row[s].state = "SUBMITTING" /\ row'[s].state = "RECONCILIATION_REQUIRED"
  <1> SUFFICES Goal
    OBVIOUS
  <1>0. TypeOK
    BY DEF IInv, TypeInv
  <1>1. ASSUME NEW w \in Workers, NEW t \in Schedules, Own(w, t) PROVE Goal
    <2>1. RowWrite(w, t) /\ task[w][t].pc \in Active
      BY <1>1, OwnSummary DEF IInv, TaskMove
    <2>2. task[w][t].seen = 0
      BY <2>1 DEF IInv, ObservedEpochIsZero
    <2>3. CASE t # s
      BY <1>0, <2>1, <2>3, RowWriteFacts
    <2>4. CASE t = s
      BY <1>0, <2>1, <2>2, <2>4, RowWriteFacts DEF MayFinish, MayReconcile
    <2> QED
      BY <2>3, <2>4
  <1>2. ASSUME NEW t \in Schedules, RowSteps(t) PROVE Goal
    BY <1>0, <1>2, RowStepEffect
  <1>3. ASSUME NEW w \in Workers, Crash(w) PROVE Goal
    BY <1>0, <1>3, CrashEffect
  <1>4. ASSUME NEW w \in Workers, NEW batch \in SUBSET Schedules, Claim(w, batch)
        PROVE  Goal
    BY <1>0, <1>4, ClaimEffect DEF Claimable
  <1>5. CASE UNCHANGED vars
    BY <1>5 DEF vars
  <1> QED
    BY <1>1, <1>2, <1>3, <1>4, <1>5, NextCases

\* No step leaves a final state.
THEOREM FinalStatesStay == Spec => FinalIsFinal
  <1>1. IInv /\ [Next]_vars =>
          [\A s \in Schedules :
             row[s].state \in FinalStates => row'[s].state = row[s].state]_vars
    BY StateMoves DEF FinalStates, Verdicts
  <1> QED
    BY <1>1, Inductive, PTL DEF Spec, FinalIsFinal

\* Once a cancellation was accepted no verdict is written any more.
THEOREM CancelBarsVerdict == Spec => AcceptedCancelBarsVerdict
  <1>1. IInv /\ [Next]_vars =>
          [\A s \in Schedules :
             (row[s].epoch > 0 /\ row'[s].state \in Verdicts)
               => row[s].state = row'[s].state]_vars
    BY StateMoves DEF Verdicts
  <1> QED
    BY <1>1, Inductive, PTL DEF Spec, AcceptedCancelBarsVerdict

-----------------------------------------------------------------------------
(* Refinement *)

\* A step that leaves every submit count alone changes the phase of at most
\* one schedule, and only forward.
LEMMA PhaseMoves ==
  ASSUME IInv, [Next]_vars, NEW s \in Schedules,
         \A t \in Schedules \ {s} : row'[t].state = row[t].state,
         submits' = submits
  PROVE  Once!Withdraw(s) \/ Once!Commit(s) \/ Once!Resolve(s) \/ UNCHANGED Once!vars
  <1> DEFINE new == PhaseOf(row'[s].state)
  <1>1. Phase' = [Phase EXCEPT ![s] = new]
    BY DEF Phase
  <1>2. Phase[s] = PhaseOf(row[s].state)
    BY DEF Phase
  <1>3. \/ new = Phase[s]
        \/ Phase[s] = "open" /\ new \in {"committed", "closed"}
        \/ Phase[s] = "committed" /\ new = "closed"
    BY <1>2, StateMoves DEF PhaseOf, Verdicts
  <1>4. new = Phase[s] => Phase' = Phase
    BY <1>1 DEF Phase
  <1> HIDE DEF new
  <1> QED
    BY <1>1, <1>3, <1>4 DEF Once!Withdraw, Once!Commit, Once!Resolve, Once!vars

\* Every step of the database and its workers is one abstract step or none.
LEMMA StepRefines == IInv /\ [Next]_vars => [Once!Next]_(Once!vars)
  <1> SUFFICES ASSUME IInv, [Next]_vars PROVE [Once!Next]_(Once!vars)
    OBVIOUS
  <1>0. TypeOK
    BY DEF IInv, TypeInv
  <1>1. ASSUME NEW w \in Workers, NEW s \in Schedules, Own(w, s)
        PROVE  [Once!Next]_(Once!vars)
    <2>1. RowWrite(w, s) /\ SubmitCount(w, s)
      BY <1>1, OwnSummary DEF IInv
    <2>2. \A t \in Schedules \ {s} : row'[t].state = row[t].state
      BY <1>0, <2>1, RowWriteFacts
    <2>3. CASE submits' = submits
      BY <2>2, <2>3, PhaseMoves DEF Once!Next
    <2>4. CASE At(w, s, "submitting") /\ row' = row /\ submits' = [submits EXCEPT ![s] = @ + 1]
      <3>1. row[s].state = "SUBMITTING" /\ submits[s] = 0
        BY <2>4 DEF IInv, SubmitterOwnsRow, SubmitterIsFirst
      <3>2. submits' = [submits EXCEPT ![s] = 1]
        BY <1>0, <2>4, <3>1 DEF TypeOK
      <3>3. Phase' = Phase /\ Phase[s] = "committed"
        BY <2>4, <3>1 DEF Phase, PhaseOf
      <3> QED
        BY <3>1, <3>2, <3>3 DEF Once!Next, Once!Send
    <2> QED
      BY <2>1, <2>3, <2>4 DEF SubmitCount
  <1>2. ASSUME NEW s \in Schedules, RowSteps(s) PROVE [Once!Next]_(Once!vars)
    <2>1. submits' = submits /\ \A t \in Schedules \ {s} : row'[t].state = row[t].state
      BY <1>0, <1>2, RowStepEffect
    <2> QED
      BY <2>1, PhaseMoves DEF Once!Next
  <1>3. ASSUME NEW w \in Workers, NEW batch \in SUBSET Schedules, Claim(w, batch)
        PROVE  [Once!Next]_(Once!vars)
    <2>1. submits' = submits
          /\ \A s \in Schedules :
               \/ row'[s] = row[s]
               \/ /\ row[s].state \in {"SCHEDULED", "CLAIMED", "RUNNING"}
                  /\ row'[s].state = "CLAIMED"
      BY <1>0, <1>3, ClaimEffect DEF Claimable
    <2>2. Phase' = Phase
      BY <2>1 DEF Phase, PhaseOf
    <2> QED
      BY <2>1, <2>2 DEF Once!vars
  <1>4. ASSUME NEW w \in Workers, Crash(w) PROVE [Once!Next]_(Once!vars)
    BY <1>0, <1>4, CrashEffect DEF Once!vars, Phase
  <1>5. CASE UNCHANGED vars
    BY <1>5 DEF vars, Once!vars, Phase
  <1> QED
    BY <1>1, <1>2, <1>3, <1>4, <1>5, NextCases

\* The distributed state machine implements "one submission, decided once".
THEOREM RefinesPublishOnce == Spec => ImplementsPublishOnce
  <1>1. Init => Once!Init
    BY DEF Init, Once!Init, AbsentRow, Phase, PhaseOf
  <1>2. Spec => []IInv
    BY Inductive
  <1> QED
    BY <1>1, <1>2, StepRefines, PTL DEF Spec, ImplementsPublishOnce, Once!Spec
=============================================================================
