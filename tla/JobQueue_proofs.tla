-------------------------- MODULE JobQueue_proofs --------------------------
(***************************************************************************)
(* TLAPS proofs about JobQueue, for any jobs, slots, retries and capacity.  *)
(***************************************************************************)
EXTENDS JobQueue, TLAPS

-----------------------------------------------------------------------------
(* How the building blocks act on their variables. *)

\* Adding an entry leaves the earlier ones alone.
LEMMA AddEffect ==
  ASSUME stream \in Seq(Entries), NEW j \in Jobs, NEW a \in 0 .. MaxRetries,
         NEW r \in BOOLEAN
  PROVE  /\ Add(j, a, r) \in Seq(Entries)
         /\ DOMAIN Add(j, a, r) = 1 .. Len(stream) + 1
         /\ \A i \in DOMAIN stream : i \in DOMAIN Add(j, a, r) /\ Add(j, a, r)[i] = stream[i]
         /\ Add(j, a, r)[Len(stream) + 1] =
              [job |-> j, attempt |-> a, replayed |-> r, state |-> "new"]
  <1>1. [job |-> j, attempt |-> a, replayed |-> r, state |-> "new"] \in Entries
    BY DEF Entries
  <1> QED
    BY <1>1 DEF Add

\* The state of one entry changes, and nothing else.
LEMMA StateChange ==
  ASSUME stream \in Seq(Entries), NEW i \in DOMAIN stream,
         NEW state \in {"new", "pending", "gone", "trimmed"}
  PROVE  /\ WithState(i, state) \in Seq(Entries)
         /\ DOMAIN WithState(i, state) = DOMAIN stream
         /\ \A k \in DOMAIN stream :
              /\ WithState(i, state)[k].job = stream[k].job
              /\ WithState(i, state)[k].attempt = stream[k].attempt
              /\ WithState(i, state)[k].state = IF k = i THEN state ELSE stream[k].state
  <1>1. stream[i] \in Entries /\ \A k \in DOMAIN stream : stream[k] \in Entries
    OBVIOUS
  <1>2. ASSUME NEW e \in Entries
        PROVE  LET f == [e EXCEPT !.state = state]
               IN  f \in Entries /\ f.job = e.job /\ f.attempt = e.attempt /\ f.state = state
    BY DEF Entries
  <1>3. WithState(i, state) = [stream EXCEPT ![i] = [stream[i] EXCEPT !.state = state]]
    BY DEF WithState
  <1> QED
    BY <1>1, <1>2, <1>3

\* Acknowledging an entry makes it gone, unless it was cut off before.
LEMMA FinishedEffect ==
  ASSUME stream \in Seq(Entries), NEW i \in DOMAIN stream
  PROVE  /\ Finished(i) \in Seq(Entries)
         /\ DOMAIN Finished(i) = DOMAIN stream
         /\ \A k \in DOMAIN stream :
              /\ Finished(i)[k].job = stream[k].job
              /\ Finished(i)[k].attempt = stream[k].attempt
              /\ Finished(i)[k].state = stream[k].state \/ k = i
         /\ stream[i].state = "trimmed" => Finished(i)[i].state = "trimmed"
  <1>1. CASE stream[i].state = "trimmed"
    <2>1. Finished(i) = WithState(i, "trimmed")
      BY <1>1 DEF Finished
    <2> QED
      BY <2>1, StateChange
  <1>2. CASE stream[i].state # "trimmed"
    <2>1. Finished(i) = WithState(i, "gone")
      BY <1>2 DEF Finished
    <2> QED
      BY <1>2, <2>1, StateChange
  <1> QED
    BY <1>1, <1>2

\* Goto moves one execution.
LEMMA GotoEffect ==
  ASSUME exec \in [Slots -> Execs], NEW x \in Slots, NEW p \in Steps \cup {"idle"}, Goto(x, p)
  PROVE  /\ exec' \in [Slots -> Execs]
         /\ \A y \in Slots \ {x} : exec'[y] = exec[y]
         /\ exec'[x].pc = p
         /\ p = "idle" => exec'[x] = IdleExec
         /\ p # "idle" => exec'[x].id = exec[x].id
  <1> DEFINE new == [pc |-> p, id |-> exec[x].id, guarded |-> GuardedAt(p, exec[x].guarded)]
  <1>1. exec' = [exec EXCEPT ![x] = IF p = "idle" THEN IdleExec ELSE new]
    BY DEF Goto
  <1>2. exec[x].id \in Nat /\ GuardedAt(p, exec[x].guarded) \in BOOLEAN
    BY DEF Execs, GuardedAt
  <1>3. p # "idle" => new \in Execs /\ new.pc = p /\ new.id = exec[x].id
    BY <1>2 DEF Execs
  <1>4. IdleExec \in Execs /\ IdleExec.pc = "idle"
    BY DEF IdleExec, Execs
  <1> HIDE DEF new
  <1> QED
    BY <1>1, <1>3, <1>4

\* An exception leads to the except clause or to the end of the execution.
LEMMA RaiseEffect ==
  ASSUME TypeOK, NEW x \in Slots, Raise(x)
  PROVE  /\ exec' \in [Slots -> Execs]
         /\ \A y \in Slots \ {x} : exec'[y] = exec[y]
         /\ drops' \in Nat
         /\ \/ exec'[x] = IdleExec
            \/ /\ exec'[x].id = exec[x].id
               /\ \/ exec'[x].pc = "requeueing" /\ MayRetry(Entry(x).attempt)
                  \/ exec'[x].pc = "failing" /\ ~MayRetry(Entry(x).attempt)
  <1> USE DEF Steps
  <1>1. CASE exec[x].guarded
    <2>1. CASE MayRetry(Entry(x).attempt)
      BY <1>1, <2>1, GotoEffect DEF Raise, TypeOK
    <2>2. CASE ~MayRetry(Entry(x).attempt)
      BY <1>1, <2>2, GotoEffect DEF Raise, TypeOK
    <2> QED
      BY <2>1, <2>2
  <1>2. CASE ~exec[x].guarded
    BY <1>2, GotoEffect DEF Raise, TypeOK
  <1> QED
    BY <1>1, <1>2

-----------------------------------------------------------------------------
(* The invariants of any instance *)

\* An execution that retries has a retry left, one that gives up has none.
AttemptKnown ==
  \A x \in Slots :
    /\ exec[x].pc \in {"requeueing", "readding"} => Entry(x).attempt < MaxRetries
    /\ exec[x].pc \in {"failing", "announcingFailure", "burying"} =>
         Entry(x).attempt = MaxRetries

\* An entry for a retry was preceded by entries for the earlier attempts.
EarlierAttemptsKnown ==
  \A i \in DOMAIN stream : \A a \in 0 .. stream[i].attempt :
    \E k \in DOMAIN stream : stream[k].job = stream[i].job /\ stream[k].attempt = a

\* A job is put into the queue by its submitter and by nobody before it.
NotEnqueuedEarly ==
  \A j \in Jobs : submitter[j] \in {"none", "created", "refused"} => ~Enqueued(j)

IInv ==
  /\ TypeOK
  /\ AttemptKnown
  /\ EarlierAttemptsKnown
  /\ DeadLetterAfterAllAttempts
  /\ NotEnqueuedEarly

(* and of the behaviours whose executions are quicker than the visibility    *)
(* timeout and whose replies arrive.                                        *)

\* The steps after which an execution will acknowledge its entry.
Discharging == {"announcingEnd", "finishing", "announcingFailure", "burying"}

OneExecutionPerEntry ==
  \A x, y \in Slots :
    (x # y /\ ~At(x, "idle") /\ ~At(y, "idle")) => exec[x].id # exec[y].id

\* An execution works on an entry that was delivered and is not acknowledged.
EntryHeld ==
  \A x \in Slots : ~At(x, "idle") => Entry(x).state \in {"pending", "trimmed"}

\* Entry i of job j is there, and nobody is about to acknowledge it.
Carries(j, i) ==
  /\ stream[i].job = j
  /\ \/ stream[i].state \in {"new", "trimmed"}
     \/ /\ stream[i].state = "pending"
        /\ \A x \in Slots : exec[x].id = i => exec[x].pc \notin Discharging

UnfinishedIsCarried ==
  \A j \in Jobs :
    (Enqueued(j) /\ store[j] \in {"PENDING", "RUNNING"} /\ ~cancelKey[j]) =>
      \E i \in DOMAIN stream : Carries(j, i)

QInv ==
  /\ IInv
  /\ OneExecutionPerEntry
  /\ EntryHeld
  /\ UnfinishedIsCarried

-----------------------------------------------------------------------------
(* A summary of the steps of an execution *)

Own(x) == Process(x) \/ CallFails(x) \/ Crash(x)

\* Faults are remembered.
FaultsGrow == faults' \in SUBSET {"late", "lost"} /\ faults \subseteq faults'

ExecMove(x) ==
  /\ ~At(x, "idle")
  /\ exec' \in [Slots -> Execs]
  /\ drops' \in Nat
  /\ FaultsGrow
  /\ \A y \in Slots \ {x} : exec'[y] = exec[y]
  /\ exec'[x] = IdleExec \/ exec'[x].id = exec[x].id
  /\ exec'[x].pc \in {"requeueing", "readding"} =>
       MayRetry(Entry(x).attempt) \/ At(x, "requeueing")
  /\ exec'[x].pc \in {"failing", "announcingFailure", "burying"} =>
       ~MayRetry(Entry(x).attempt) \/ exec[x].pc \in {"failing", "announcingFailure"}

StreamMove(x) ==
  \/ stream' = stream
  \/ At(x, "readding") /\ stream' = Add(Entry(x).job, Entry(x).attempt + 1, FALSE)
  \/ At(x, "finishing") /\ stream' = Finished(exec[x].id)

StoreMove(x) ==
  \/ store' = store
  \/ \E status \in {"PENDING", "RUNNING", "FAILED", "CANCELLED"} :
       /\ store' = [store EXCEPT ![Entry(x).job] = status]
       /\ status \in {"PENDING", "RUNNING"} =>
            exec[x].pc \in {"starting", "requeueing"} /\ exec'[x].pc \notin Discharging
  \/ /\ MayComplete(Entry(x).job)
     /\ store' = [store EXCEPT ![Entry(x).job] = "COMPLETED"]

DeadMove(x) ==
  \/ dead' = dead
  \/ At(x, "burying") /\ dead' = [dead EXCEPT ![Entry(x).job] = @ + 1]

\* An execution begins to discharge its entry when its job is final, asked to
\* be cancelled or in the queue again; it acknowledges only after that, and an
\* entry that was added or acknowledged is not discharged twice.
DischargeMove(x) ==
  /\ (exec'[x].pc \in Discharging /\ exec[x].pc \notin Discharging) =>
       \/ store'[Entry(x).job] \notin {"PENDING", "RUNNING"}
       \/ cancelKey[Entry(x).job]
       \/ At(x, "readding") /\ stream' = Add(Entry(x).job, Entry(x).attempt + 1, FALSE)
  /\ (faults' = {} /\ stream' # stream) =>
       \/ At(x, "readding")
       \/ At(x, "finishing") /\ exec'[x] = IdleExec

\* After a command that had its effect an execution is at the next step, or a
\* lost reply took it to the except clause or to its end.
LEMMA ThenEffect ==
  ASSUME TypeOK, NEW x \in Slots, NEW p \in Steps \cup {"idle"}, Then(x, p)
  PROVE  /\ exec' \in [Slots -> Execs]
         /\ \A y \in Slots \ {x} : exec'[y] = exec[y]
         /\ drops' \in Nat
         /\ exec'[x] = IdleExec \/ exec'[x].id = exec[x].id
         /\ \/ exec'[x].pc = p
            \/ /\ faults' # {}
               /\ \/ exec'[x].pc = "idle"
                  \/ exec'[x].pc = "requeueing" /\ MayRetry(Entry(x).attempt)
                  \/ exec'[x].pc = "failing" /\ ~MayRetry(Entry(x).attempt)
         /\ (faults' = {} /\ p = "idle") => exec'[x] = IdleExec
         /\ FaultsGrow
  <1>0. faults \in SUBSET {"late", "lost"}
    BY DEF TypeOK
  <1>1. CASE Goto(x, p) /\ UNCHANGED <<drops, faults>>
    <2>1. FaultsGrow
      BY <1>0, <1>1 DEF FaultsGrow
    <2> QED
      BY <1>1, <2>1, GotoEffect DEF TypeOK
  <1>2. CASE Raise(x) /\ faults' = faults \cup {"lost"}
    <2>1. FaultsGrow /\ faults' # {}
      BY <1>0, <1>2 DEF FaultsGrow
    <2> QED
      BY <1>2, <2>1, RaiseEffect DEF IdleExec
  <1> QED
    BY <1>1, <1>2 DEF Then

\* A step that only looks leads where it says.
LEMMA LookEffect ==
  ASSUME TypeOK, NEW x \in Slots, NEW from \in Steps, NEW to \in Steps, Look(x, from, to)
  PROVE  /\ At(x, from) /\ ~At(x, "idle")
         /\ exec' \in [Slots -> Execs]
         /\ \A y \in Slots \ {x} : exec'[y] = exec[y]
         /\ exec'[x].pc = to
         /\ exec'[x].id = exec[x].id
         /\ drops' \in Nat /\ FaultsGrow
         /\ UNCHANGED <<store, cancelKey, stream, dead, submitter, canceller>>
  <1>1. FaultsGrow
    BY DEF Look, TypeOK, FaultsGrow
  <1> QED
    BY <1>1, GotoEffect DEF Look, TypeOK, Steps, At

\* Every step of an execution moves the variables as the summary says.
LEMMA OwnSummary ==
  ASSUME TypeOK, NEW x \in Slots, Own(x)
  PROVE  /\ ExecMove(x) /\ StreamMove(x) /\ StoreMove(x) /\ DeadMove(x) /\ DischargeMove(x)
         /\ UNCHANGED <<cancelKey, submitter, canceller>>
  <1> DEFINE Goal ==
        /\ ExecMove(x) /\ StreamMove(x) /\ StoreMove(x) /\ DeadMove(x) /\ DischargeMove(x)
        /\ UNCHANGED <<cancelKey, submitter, canceller>>
  <1> SUFFICES Goal
    OBVIOUS
  <1> USE DEF Steps
  <1>1. CASE Fetch(x)
    <2>1. CASE Discardable(store[Entry(x).job])
      <3>1. Look(x, "fetching", "finishing")
        BY <1>1, <2>1 DEF Fetch
      <3>2. store[Entry(x).job] \notin {"PENDING", "RUNNING"}
        BY <2>1 DEF Discardable, Final
      <3> QED
        BY <3>1, <3>2, LookEffect
           DEF ExecMove, StreamMove, StoreMove, DeadMove, DischargeMove, At
    <2>2. CASE ~Discardable(store[Entry(x).job])
      <3>1. Look(x, "fetching", "checking")
        BY <1>1, <2>2 DEF Fetch
      <3> QED
        BY <3>1, LookEffect
           DEF ExecMove, StreamMove, StoreMove, DeadMove, DischargeMove, Discharging, At
    <2> QED
      BY <2>1, <2>2
  <1>2. CASE Check(x)
    <2>1. PICK to \in {"marking", "starting"} : Look(x, "checking", to)
      BY <1>2 DEF Check
    <2> QED
      BY <2>1, LookEffect
         DEF ExecMove, StreamMove, StoreMove, DeadMove, DischargeMove, Discharging, At
  <1>3. CASE Announce(x)
    <2>1. CASE Look(x, "announcing", "running")
      BY <2>1, LookEffect
         DEF ExecMove, StreamMove, StoreMove, DeadMove, DischargeMove, Discharging, At
    <2>2. CASE Look(x, "announcingEnd", "finishing")
      BY <2>2, LookEffect
         DEF ExecMove, StreamMove, StoreMove, DeadMove, DischargeMove, Discharging, At
    <2>3. CASE Look(x, "announcingFailure", "burying")
      BY <2>3, LookEffect
         DEF ExecMove, StreamMove, StoreMove, DeadMove, DischargeMove, Discharging, At
    <2> QED
      BY <1>3, <2>1, <2>2, <2>3 DEF Announce
  <1>4. CASE Run(x)
    <2>1. PICK to \in {"rechecking", "marking"} : Look(x, "running", to)
      BY <1>4 DEF Run
    <2> QED
      BY <2>1, LookEffect
         DEF ExecMove, StreamMove, StoreMove, DeadMove, DischargeMove, Discharging, At
  <1>5. CASE Recheck(x)
    <2>1. PICK to \in {"marking", "completing"} : Look(x, "rechecking", to)
      BY <1>5 DEF Recheck
    <2> QED
      BY <2>1, LookEffect
         DEF ExecMove, StreamMove, StoreMove, DeadMove, DischargeMove, Discharging, At
  <1>6. ASSUME NEW from, NEW to, NEW status \in {"PENDING", "RUNNING"},
               \/ from = "starting" /\ to = "announcing"
               \/ from = "requeueing" /\ to = "readding",
               Update(x, from, status, to)
        PROVE  Goal
    <2>1. /\ exec[x].pc = from /\ Then(x, to) /\ to \in Steps
          /\ store' = [store EXCEPT ![Entry(x).job] = status]
          /\ UNCHANGED <<cancelKey, stream, dead, submitter, canceller>>
      BY <1>6 DEF Update, At
    <2>2. ExecMove(x)
      BY <1>6, <2>1, ThenEffect DEF ExecMove, At
    <2>3. exec'[x].pc \notin Discharging
      BY <1>6, <2>1, ThenEffect DEF Discharging
    <2>4. StoreMove(x)
      BY <1>6, <2>1, <2>3 DEF StoreMove
    <2> QED
      BY <2>1, <2>2, <2>3, <2>4 DEF StreamMove, DeadMove, DischargeMove
  <1>7. ASSUME NEW from, NEW to, NEW status \in {"FAILED", "CANCELLED"},
               \/ from = "marking" /\ to = "announcingEnd"
               \/ from = "failing" /\ to = "announcingFailure",
               Update(x, from, status, to), Entry(x).job \in Jobs
        PROVE  Goal
    <2>1. /\ exec[x].pc = from /\ Then(x, to) /\ to \in Steps
          /\ store' = [store EXCEPT ![Entry(x).job] = status]
          /\ UNCHANGED <<cancelKey, stream, dead, submitter, canceller>>
      BY <1>7 DEF Update, At
    <2>2. store'[Entry(x).job] \notin {"PENDING", "RUNNING"}
      BY <1>7, <2>1 DEF TypeOK
    <2>3. ExecMove(x)
      BY <1>7, <2>1, ThenEffect DEF ExecMove, At
    <2>4. StoreMove(x)
      BY <2>1 DEF StoreMove
    <2> QED
      BY <2>1, <2>2, <2>3, <2>4 DEF StreamMove, DeadMove, DischargeMove
  <1>8. ~At(x, "idle") => Entry(x) \in Entries /\ Entry(x).job \in Jobs
    <2>1. ~At(x, "idle") => exec[x].id \in DOMAIN stream
      BY DEF TypeOK
    <2>2. \A i \in DOMAIN stream : stream[i] \in Entries
      BY DEF TypeOK
    <2> QED
      BY <2>1, <2>2 DEF Entry, Entries
  <1>9. CASE Complete(x)
    <2>1. /\ exec[x].pc = "completing" /\ Then(x, "announcingEnd")
          /\ UNCHANGED <<cancelKey, stream, dead, submitter, canceller>>
          /\ store' = IF MayComplete(Entry(x).job)
                      THEN [store EXCEPT ![Entry(x).job] = "COMPLETED"] ELSE store
      BY <1>9 DEF Complete, At
    <2>2. Entry(x).job \in Jobs
      BY <1>8, <2>1 DEF At
    <2>3. StoreMove(x)
      BY <2>1 DEF StoreMove
    <2>4. store'[Entry(x).job] \notin {"PENDING", "RUNNING"} \/ cancelKey[Entry(x).job]
      BY <2>1, <2>2 DEF MayComplete, TypeOK
    <2> QED
      BY <2>1, <2>3, <2>4, ThenEffect
         DEF ExecMove, StreamMove, DeadMove, DischargeMove, Discharging, At
  <1>10. CASE Readd(x)
    BY <1>10, ThenEffect
       DEF Readd, ExecMove, StreamMove, StoreMove, DeadMove, DischargeMove, Discharging, At
  <1>11. CASE Bury(x)
    BY <1>11, ThenEffect
       DEF Bury, ExecMove, StreamMove, StoreMove, DeadMove, DischargeMove, Discharging, At
  <1>12. CASE Finish(x)
    BY <1>12, ThenEffect, IdleExec.pc = "idle"
       DEF Finish, ExecMove, StreamMove, StoreMove, DeadMove, DischargeMove, Discharging, At, IdleExec
  <1>13. CASE CallFails(x)
    <2>1. /\ ~At(x, "idle") /\ Raise(x) /\ FaultsGrow
          /\ UNCHANGED <<store, cancelKey, stream, dead, submitter, canceller>>
      BY <1>13 DEF CallFails, FaultsGrow, TypeOK
    <2>2. ExecMove(x)
      BY <2>1, RaiseEffect DEF ExecMove, IdleExec
    <2>3. exec'[x].pc \notin Discharging
      BY <2>1, RaiseEffect DEF Discharging, IdleExec
    <2> QED
      BY <2>1, <2>2, <2>3 DEF StreamMove, StoreMove, DeadMove, DischargeMove
  <1>14. CASE Crash(x)
    <2>1. /\ ~At(x, "idle") /\ Goto(x, "idle") /\ drops' = drops + 1 /\ FaultsGrow
          /\ UNCHANGED <<store, cancelKey, stream, dead, submitter, canceller>>
      BY <1>14 DEF Crash, FaultsGrow, TypeOK
    <2>2. exec'[x] = IdleExec /\ exec' \in [Slots -> Execs] /\ \A y \in Slots \ {x} : exec'[y] = exec[y]
      BY <2>1, GotoEffect DEF TypeOK
    <2>3. ExecMove(x)
      BY <2>1, <2>2 DEF ExecMove, IdleExec, TypeOK
    <2> QED
      BY <2>1, <2>2, <2>3 DEF StreamMove, StoreMove, DeadMove, DischargeMove, Discharging, IdleExec
  <1>15. ASSUME \/ MarkRunning(x) \/ MarkPending(x) \/ MarkCancelled(x) \/ MarkFailed(x)
         PROVE  Goal
    <2>1. CASE MarkRunning(x)
      BY <1>6, <2>1 DEF MarkRunning
    <2>2. CASE MarkPending(x)
      BY <1>6, <2>2 DEF MarkPending
    <2>3. Entry(x).job \in Jobs
      BY <1>8, <1>15 DEF MarkRunning, MarkPending, MarkCancelled, MarkFailed, Update, At
    <2>4. CASE MarkCancelled(x)
      BY <1>7, <2>3, <2>4 DEF MarkCancelled
    <2>5. CASE MarkFailed(x)
      BY <1>7, <2>3, <2>5 DEF MarkFailed
    <2> QED
      BY <1>15, <2>1, <2>2, <2>4, <2>5
  <1> QED
    BY <1>1, <1>2, <1>3, <1>4, <1>5, <1>9, <1>10, <1>11, <1>12, <1>13, <1>14, <1>15
       DEF Own, Process

-----------------------------------------------------------------------------
(* What the steps of the clients and of the worker loops do *)

\* Entries are only ever added; their job and attempt never change.
Grows ==
  /\ stream' \in Seq(Entries)
  /\ \A i \in DOMAIN stream :
       /\ i \in DOMAIN stream'
       /\ stream'[i].job = stream[i].job
       /\ stream'[i].attempt = stream[i].attempt

\* A replay adds a first attempt and may cut off older entries.
LEMMA ReplayEffect ==
  ASSUME TypeOK, NEW j \in Jobs, Replay(j)
  PROVE  /\ Grows
         /\ DOMAIN stream' = 1 .. Len(stream) + 1
         /\ \A i \in DOMAIN stream : stream'[i].state \in {stream[i].state, "trimmed"}
         /\ stream'[Len(stream) + 1].job = j
         /\ stream'[Len(stream) + 1].attempt = 0
         /\ stream'[Len(stream) + 1].state = "new"
         /\ dead[j] > 0 /\ dead' \in [Jobs -> Nat]
         /\ \A k \in Jobs : dead'[k] <= dead[k]
         /\ UNCHANGED <<store, cancelKey, submitter, canceller, exec, drops, faults>>
  <1> DEFINE added == Add(j, 0, TRUE)
  <1>1. /\ added \in Seq(Entries) /\ DOMAIN added = 1 .. Len(stream) + 1
        /\ \A i \in DOMAIN stream : i \in DOMAIN added /\ added[i] = stream[i]
        /\ added[Len(stream) + 1] =
             [job |-> j, attempt |-> 0, replayed |-> TRUE, state |-> "new"]
    <2>1. 0 \in 0 .. MaxRetries
      BY NumbersAssumption
    <2> QED
      BY <2>1, AddEffect DEF TypeOK
  <1> HIDE DEF added
  <1>2. PICK keepFrom \in 1 .. Len(stream) + 1 :
          stream' = [i \in 1 .. Len(stream) + 1 |->
            IF i \in {k \in 1 .. keepFrom - 1 : Live(k)}
            THEN [stream[i] EXCEPT !.state = "trimmed"] ELSE added[i]]
    BY DEF Replay, added
  <1>3. DOMAIN stream = 1 .. Len(stream) /\ Len(stream) \in Nat
        /\ \A i \in DOMAIN stream : stream[i] \in Entries
    BY DEF TypeOK
  <1> DEFINE cut(e) == [e EXCEPT !.state = "trimmed"]
  <1>4. \A e \in Entries :
          /\ cut(e) \in Entries /\ cut(e).job = e.job /\ cut(e).attempt = e.attempt
          /\ cut(e).state = "trimmed"
    BY DEF Entries
  <1>5. \A i \in DOMAIN stream : stream'[i] = stream[i] \/ stream'[i] = cut(stream[i])
    BY <1>1, <1>2, <1>3
  <1> HIDE DEF cut
  <1>6. stream'[Len(stream) + 1] = added[Len(stream) + 1] /\ DOMAIN stream' = 1 .. Len(stream) + 1
    BY <1>2, <1>3
  <1>7. \A i \in DOMAIN stream :
          /\ stream'[i] \in Entries
          /\ stream'[i].job = stream[i].job /\ stream'[i].attempt = stream[i].attempt
          /\ stream'[i].state \in {stream[i].state, "trimmed"}
    BY <1>3, <1>4, <1>5
  <1>8. stream' \in Seq(Entries)
    <2>1. \A i \in 1 .. Len(stream) + 1 : stream'[i] \in Entries
      BY <1>1, <1>3, <1>6, <1>7
    <2>2. stream' = [i \in 1 .. Len(stream) + 1 |-> stream'[i]]
      BY <1>2
    <2> QED
      BY <1>3, <2>1, <2>2
  <1>9. dead[j] > 0 /\ dead' \in [Jobs -> Nat] /\ \A k \in Jobs : dead'[k] <= dead[k]
    <2>1. dead[j] > 0 /\ \E n \in {dead[j] - 1, dead[j]} : dead' = [dead EXCEPT ![j] = n]
      BY DEF Replay
    <2>2. dead \in [Jobs -> Nat]
      BY DEF TypeOK
    <2> QED
      BY <2>1, <2>2
  <1>10. UNCHANGED <<store, cancelKey, submitter, canceller, exec, drops, faults>>
    BY DEF Replay
  <1>11. Grows
    BY <1>3, <1>6, <1>7, <1>8 DEF Grows
  <1> QED
    BY <1>1, <1>6, <1>7, <1>9, <1>10, <1>11

\* A worker loop hands an entry to an idle slot.
Begin(x, i) ==
  /\ At(x, "idle")
  /\ stream' = WithState(i, "pending")
  /\ exec' \in [Slots -> Execs]
  /\ exec'[x].pc = "fetching" /\ exec'[x].id = i
  /\ \A y \in Slots \ {x} : exec'[y] = exec[y]
  /\ UNCHANGED <<store, cancelKey, dead, submitter, canceller, drops>>
  /\ FaultsGrow
  /\ stream[i].state = "new" \/ (stream[i].state = "pending" /\ (faults' = {} => ~UnderWay(i)))

HandOver(x, i) == Deliver(x, i) \/ Reclaim(x, i)

\* That is what a delivery and a reclaim do.
LEMMA StartEffect ==
  ASSUME TypeOK, NEW x \in Slots, NEW i \in DOMAIN stream, HandOver(x, i)
  PROVE  Begin(x, i)
  <1>2. Start(x, i)
    BY DEF HandOver, Deliver, Reclaim
  <1>3. FaultsGrow
    BY DEF HandOver, Deliver, Reclaim, FaultsGrow, TypeOK
  <1>4. stream[i].state = "new" \/ (stream[i].state = "pending" /\ (faults' = {} => ~UnderWay(i)))
    BY DEF HandOver, Deliver, Reclaim, Reclaimable
  <1>1. [pc |-> "fetching", id |-> i, guarded |-> FALSE] \in Execs
    BY DEF TypeOK, Execs, Steps
  <1> QED
    BY <1>1, <1>2, <1>3, <1>4 DEF Start, Begin, TypeOK

\* No step of an execution takes an entry out of the record of the stream.
LEMMA OwnGrows ==
  ASSUME TypeOK, AttemptKnown, NEW x \in Slots, Own(x)
  PROVE  /\ Grows
         /\ \A i \in DOMAIN stream' \ DOMAIN stream :
              /\ stream'[i].job = Entry(x).job
              /\ stream'[i].attempt = Entry(x).attempt + 1
              /\ stream'[i].state = "new"
              /\ i = Len(stream) + 1
         /\ exec[x].id \in DOMAIN stream /\ Entry(x) \in Entries
  <1>1. StreamMove(x) /\ ~At(x, "idle")
    BY OwnSummary DEF ExecMove
  <1>2. exec[x].id \in DOMAIN stream /\ Entry(x) \in Entries
    BY <1>1 DEF TypeOK, Entry
  <1>3. CASE stream' = stream
    BY <1>2, <1>3 DEF Grows, TypeOK
  <1>4. CASE At(x, "readding") /\ stream' = Add(Entry(x).job, Entry(x).attempt + 1, FALSE)
    <2>1. Entry(x).job \in Jobs /\ Entry(x).attempt + 1 \in 0 .. MaxRetries
      BY <1>2, <1>4, NumbersAssumption DEF AttemptKnown, At, Entries
    <2>2. DOMAIN stream = 1 .. Len(stream) /\ Len(stream) \in Nat /\ stream \in Seq(Entries)
      BY DEF TypeOK
    <2>3. /\ stream' \in Seq(Entries)
          /\ DOMAIN stream' = 1 .. Len(stream) + 1
          /\ \A i \in DOMAIN stream : i \in DOMAIN stream' /\ stream'[i] = stream[i]
          /\ stream'[Len(stream) + 1] =
               [job |-> Entry(x).job, attempt |-> Entry(x).attempt + 1, replayed |-> FALSE,
                state |-> "new"]
      BY <1>4, <2>1, <2>2, AddEffect
    <2>4. \A i \in DOMAIN stream' \ DOMAIN stream : i = Len(stream) + 1
      BY <2>2, <2>3
    <2> QED
      BY <1>2, <2>3, <2>4 DEF Grows
  <1>5. CASE stream' = Finished(exec[x].id)
    BY <1>2, <1>5, FinishedEffect DEF Grows, TypeOK
  <1> QED
    BY <1>1, <1>2, <1>3, <1>4, <1>5 DEF StreamMove

\* The kinds of step of Next.
LEMMA NextCases ==
  ASSUME Next
  PROVE  \/ \E j \in Jobs : Client(j)
         \/ \E x \in Slots : Own(x)
         \/ \E x \in Slots, i \in DOMAIN stream : HandOver(x, i)
  BY DEF Next, Own, HandOver

-----------------------------------------------------------------------------
(* The invariants of any instance are inductive *)

\* The empty queue satisfies every invariant.
LEMMA InitIInv == Init => IInv
  <1> SUFFICES ASSUME Init PROVE IInv
    OBVIOUS
  <1>1. stream = <<>> /\ stream \in Seq(Entries) /\ DOMAIN stream = {}
    BY DEF Init
  <1>2. TypeOK
    BY <1>1, NumbersAssumption DEF Init, TypeOK, Statuses, Final, Execs, IdleExec, At
  <1> QED
    BY <1>1, <1>2 DEF Init, IInv, AttemptKnown, EarlierAttemptsKnown,
       DeadLetterAfterAllAttempts, NotEnqueuedEarly, Enqueued, IdleExec

\* When the stream only grows and no execution moves, what is known of
\* executions stays true.
LEMMA GrowthKeeps ==
  ASSUME TypeOK, Grows
  PROVE  /\ \A y \in Slots :
              (~At(y, "idle") /\ exec'[y] = exec[y]) =>
                /\ exec'[y].id \in DOMAIN stream'
                /\ Entry(y)'.attempt = Entry(y).attempt
                /\ Entry(y)'.job = Entry(y).job
         /\ \A j \in Jobs, a \in 0 .. MaxRetries :
              (\E i \in DOMAIN stream : stream[i].job = j /\ stream[i].attempt = a)
                => \E i \in DOMAIN stream' : stream'[i].job = j /\ stream'[i].attempt = a
         /\ \A j \in Jobs : Enqueued(j) => Enqueued(j)'
  <1>1. \A y \in Slots : ~At(y, "idle") => exec[y].id \in DOMAIN stream
    BY DEF TypeOK
  <1> QED
    BY <1>1 DEF Grows, Entry, Enqueued

\* The invariants survive the steps of an execution,
LEMMA OwnKeepsIInv ==
  ASSUME IInv, NEW x \in Slots, Own(x)
  PROVE  IInv'
  <1>0. TypeOK /\ AttemptKnown
    BY DEF IInv
  <1>1. /\ ExecMove(x) /\ StoreMove(x) /\ DeadMove(x)
        /\ UNCHANGED <<cancelKey, submitter, canceller>>
    BY <1>0, OwnSummary
  <1>2. /\ Grows
        /\ \A i \in DOMAIN stream' \ DOMAIN stream :
             stream'[i].job = Entry(x).job /\ stream'[i].attempt = Entry(x).attempt + 1
        /\ exec[x].id \in DOMAIN stream /\ Entry(x) \in Entries
    BY <1>0, OwnGrows
  <1>3. /\ ~At(x, "idle") /\ exec' \in [Slots -> Execs] /\ drops' \in Nat /\ FaultsGrow
        /\ \A y \in Slots \ {x} : exec'[y] = exec[y]
        /\ exec'[x] = IdleExec \/ exec'[x].id = exec[x].id
    BY <1>1 DEF ExecMove
  <1>4. Entry(x).job \in Jobs /\ Entry(x).attempt \in 0 .. MaxRetries
    BY <1>2 DEF Entries
  <1>a. TypeOK'
    <2>1. store' \in [Jobs -> Statuses]
      BY <1>0, <1>1, <1>4 DEF StoreMove, TypeOK, Statuses, Final
    <2>2. dead' \in [Jobs -> Nat]
      BY <1>0, <1>1, <1>4 DEF DeadMove, TypeOK
    <2>3. stream' \in Seq(Entries)
      BY <1>2 DEF Grows
    <2>4. \A y \in Slots : exec'[y].pc # "idle" => exec'[y].id \in DOMAIN stream'
      BY <1>0, <1>2, <1>3, GrowthKeeps DEF Grows, IdleExec, At
    <2> QED
      BY <1>0, <1>1, <1>3, <2>1, <2>2, <2>3, <2>4 DEF TypeOK, At, FaultsGrow
  <1>b. AttemptKnown'
    <2> SUFFICES ASSUME NEW y \in Slots
                 PROVE  /\ exec'[y].pc \in {"requeueing", "readding"} =>
                             stream'[exec'[y].id].attempt < MaxRetries
                        /\ exec'[y].pc \in {"failing", "announcingFailure", "burying"} =>
                             stream'[exec'[y].id].attempt = MaxRetries
      BY DEF AttemptKnown, Entry
    <2>1. CASE y # x
      BY <1>0, <1>2, <1>3, <2>1 DEF AttemptKnown, Entry, Grows, TypeOK, At
    <2>2. CASE y = x /\ exec'[x] = IdleExec
      BY <2>2 DEF IdleExec
    <2>3. CASE y = x /\ exec'[x].id = exec[x].id
      <3>1. stream'[exec'[x].id].attempt = Entry(x).attempt
        BY <1>2, <2>3 DEF Grows, Entry
      <3>2. /\ exec'[x].pc \in {"requeueing", "readding"} => Entry(x).attempt < MaxRetries
            /\ exec'[x].pc \in {"failing", "announcingFailure", "burying"} =>
                 Entry(x).attempt = MaxRetries
        BY <1>0, <1>1, <1>4, NumbersAssumption DEF ExecMove, MayRetry, AttemptKnown, At
      <3> QED
        BY <2>3, <3>1, <3>2
    <2> QED
      BY <1>3, <2>1, <2>2, <2>3
  <1>c. EarlierAttemptsKnown'
    <2> SUFFICES ASSUME NEW i \in DOMAIN stream', NEW a \in 0 .. stream'[i].attempt
                 PROVE  \E k \in DOMAIN stream' :
                          stream'[k].job = stream'[i].job /\ stream'[k].attempt = a
      BY DEF EarlierAttemptsKnown
    <2>1. CASE i \in DOMAIN stream
      BY <1>2, <2>1 DEF Grows, IInv, EarlierAttemptsKnown
    <2>2. CASE i \notin DOMAIN stream
      <3>1. stream'[i].job = Entry(x).job /\ stream'[i].attempt = Entry(x).attempt + 1
        BY <1>2, <2>2
      <3>2. CASE a = Entry(x).attempt + 1
        BY <3>1, <3>2
      <3>3. CASE a \in 0 .. Entry(x).attempt
        <4>1. \E k \in DOMAIN stream : stream[k].job = Entry(x).job /\ stream[k].attempt = a
          BY <1>2, <3>3 DEF IInv, EarlierAttemptsKnown, Entry
        <4> QED
          BY <1>2, <3>1, <4>1 DEF Grows
      <3> QED
        BY <1>4, <3>1, <3>2, <3>3
    <2> QED
      BY <2>1, <2>2
  <1>d. DeadLetterAfterAllAttempts'
    <2> SUFFICES ASSUME NEW j \in Jobs, dead'[j] > 0, NEW a \in 0 .. MaxRetries
                 PROVE  \E i \in DOMAIN stream' : stream'[i].job = j /\ stream'[i].attempt = a
      BY DEF DeadLetterAfterAllAttempts
    <2>1. \E i \in DOMAIN stream : stream[i].job = j /\ stream[i].attempt = a
      <3>1. CASE dead[j] > 0
        BY <3>1 DEF IInv, DeadLetterAfterAllAttempts
      <3>2. CASE ~(dead[j] > 0)
        <4>1. At(x, "burying") /\ j = Entry(x).job
          BY <1>0, <1>1, <1>4, <3>2 DEF DeadMove, TypeOK
        <4>2. Entry(x).attempt = MaxRetries
          BY <4>1 DEF IInv, AttemptKnown, At
        <4> QED
          BY <1>2, <4>1, <4>2 DEF IInv, EarlierAttemptsKnown, Entry
      <3> QED
        BY <3>1, <3>2
    <2> QED
      BY <1>2, <2>1 DEF Grows
  <1>e. NotEnqueuedEarly'
    <2> SUFFICES ASSUME NEW j \in Jobs, submitter[j] \in {"none", "created", "refused"},
                        NEW i \in DOMAIN stream', stream'[i].job = j
                 PROVE  FALSE
      BY <1>1 DEF NotEnqueuedEarly, Enqueued
    <2>1. Enqueued(j)
      BY <1>2 DEF Enqueued, Grows, Entry
    <2> QED
      BY <2>1 DEF IInv, NotEnqueuedEarly
  <1> QED
    BY <1>a, <1>b, <1>c, <1>d, <1>e DEF IInv

\* the hand-over of an entry to a slot,
LEMMA BeginKeepsIInv ==
  ASSUME IInv, NEW x \in Slots, NEW i \in DOMAIN stream, Begin(x, i)
  PROVE  IInv'
  <1>0. TypeOK /\ stream \in Seq(Entries)
    BY DEF IInv, TypeOK
  <1>1. /\ Grows
        /\ DOMAIN stream' = DOMAIN stream
    BY <1>0, StateChange DEF Begin, Grows
  <1>a. TypeOK'
    BY <1>0, <1>1 DEF Begin, TypeOK, Grows, At, FaultsGrow
  <1>b. AttemptKnown'
    <2> SUFFICES ASSUME NEW y \in Slots
                 PROVE  /\ exec'[y].pc \in {"requeueing", "readding"} =>
                             stream'[exec'[y].id].attempt < MaxRetries
                        /\ exec'[y].pc \in {"failing", "announcingFailure", "burying"} =>
                             stream'[exec'[y].id].attempt = MaxRetries
      BY DEF AttemptKnown, Entry
    <2>1. CASE y # x
      <3>1. exec'[y] = exec[y]
        BY <2>1 DEF Begin
      <3>2. exec[y].pc # "idle" =>
              /\ exec[y].id \in DOMAIN stream
              /\ stream'[exec[y].id].attempt = stream[exec[y].id].attempt
        BY <1>0, <1>1 DEF TypeOK, At, Grows
      <3> QED
        BY <3>1, <3>2 DEF IInv, AttemptKnown, Entry
    <2>2. CASE y = x
      BY <2>2 DEF Begin
    <2> QED
      BY <2>1, <2>2
  <1>2. /\ EarlierAttemptsKnown /\ DeadLetterAfterAllAttempts /\ NotEnqueuedEarly
        /\ UNCHANGED <<dead, submitter>>
        /\ \A k \in DOMAIN stream :
             stream'[k].job = stream[k].job /\ stream'[k].attempt = stream[k].attempt
    BY <1>1 DEF IInv, Begin, Grows
  <1>c. EarlierAttemptsKnown'
    BY <1>1, <1>2 DEF EarlierAttemptsKnown
  <1>d. DeadLetterAfterAllAttempts'
    BY <1>1, <1>2 DEF DeadLetterAfterAllAttempts
  <1>e. NotEnqueuedEarly'
    BY <1>1, <1>2 DEF NotEnqueuedEarly, Enqueued
  <1> QED
    BY <1>a, <1>b, <1>c, <1>d, <1>e DEF IInv

\* A client adds at most a first attempt of its own job.
ClientMove(j) ==
  /\ Grows
  /\ \A i \in DOMAIN stream' \ DOMAIN stream :
       /\ stream'[i].job = j /\ stream'[i].attempt = 0 /\ stream'[i].state = "new"
       /\ \/ dead[j] > 0
          \/ submitter[j] = "created" /\ submitter'[j] \in {"done", "failed"}
  /\ \A i \in DOMAIN stream : stream'[i].state \in {stream[i].state, "trimmed"}
  /\ \/ store' = store
     \/ \E status \in {"FAILED", "CANCELLED"} : store' = [store EXCEPT ![j] = status]
     \/ submitter[j] = "none" /\ stream' = stream /\ store' = [store EXCEPT ![j] = "PENDING"]
  /\ cancelKey' = cancelKey \/ cancelKey' = [cancelKey EXCEPT ![j] = TRUE]
  /\ dead' \in [Jobs -> Nat]
  /\ \A k \in Jobs : dead'[k] <= dead[k]
  /\ submitter' \in [Jobs -> {"none", "created", "refused", "done", "failed"}]
  /\ \A k \in Jobs \ {j} : submitter'[k] = submitter[k]
  /\ submitter'[j] \in {"none", "created", "refused"} =>
       submitter[j] \in {"none", "created", "refused"}
  /\ canceller' \in [Jobs -> {"idle", "keying", "writing"}]
  /\ UNCHANGED <<exec, drops, faults>>

\* That summary covers the submission, the cancellation and the dead letters.
LEMMA ClientSummary ==
  ASSUME TypeOK, NEW j \in Jobs, Client(j)
  PROVE  ClientMove(j)
  <1>0. /\ stream \in Seq(Entries) /\ dead \in [Jobs -> Nat]
        /\ submitter \in [Jobs -> {"none", "created", "refused", "done", "failed"}]
        /\ canceller \in [Jobs -> {"idle", "keying", "writing"}]
        /\ DOMAIN stream = 1 .. Len(stream) /\ Len(stream) \in Nat
    BY DEF TypeOK
  <1>1. ASSUME stream' = stream
        PROVE  /\ Grows
               /\ DOMAIN stream' \ DOMAIN stream = {}
               /\ \A i \in DOMAIN stream : stream'[i].state \in {stream[i].state, "trimmed"}
    BY <1>0, <1>1 DEF Grows
  <1>2. CASE Create(j)
    BY <1>0, <1>1, <1>2 DEF Create, ClientMove
  <1>3. CASE Enqueue(j)
    <2>1. CASE stream' = Add(j, 0, FALSE) /\ \E p \in {"done", "failed"} : submitter' = [submitter EXCEPT ![j] = p]
      <3>1. 0 \in 0 .. MaxRetries
        BY NumbersAssumption
      <3>2. /\ stream' \in Seq(Entries)
            /\ DOMAIN stream' = 1 .. Len(stream) + 1
            /\ \A i \in DOMAIN stream : i \in DOMAIN stream' /\ stream'[i] = stream[i]
            /\ stream'[Len(stream) + 1] =
                 [job |-> j, attempt |-> 0, replayed |-> FALSE, state |-> "new"]
        BY <1>0, <2>1, <3>1, AddEffect
      <3>3. \A i \in DOMAIN stream' \ DOMAIN stream : i = Len(stream) + 1
        BY <1>0, <3>2
      <3>4. Grows
        BY <3>2 DEF Grows
      <3>5. submitter[j] = "created"
            /\ UNCHANGED <<store, cancelKey, dead, canceller, exec, drops, faults>>
        BY <1>3 DEF Enqueue
      <3>6. \A i \in DOMAIN stream' \ DOMAIN stream :
              stream'[i].job = j /\ stream'[i].attempt = 0 /\ stream'[i].state = "new"
        BY <3>2, <3>3
      <3>7. /\ submitter' \in [Jobs -> {"none", "created", "refused", "done", "failed"}]
            /\ \A k \in Jobs \ {j} : submitter'[k] = submitter[k]
            /\ submitter'[j] \in {"done", "failed"}
        BY <1>0, <2>1
      <3>8. \A k \in Jobs : dead'[k] <= dead[k]
        BY <1>0, <3>5
      <3> QED
        BY <1>0, <3>2, <3>4, <3>5, <3>6, <3>7, <3>8 DEF ClientMove
    <2>2. CASE stream' = stream /\ submitter' = [submitter EXCEPT ![j] = "refused"]
      BY <1>0, <1>1, <1>3, <2>2 DEF Enqueue, ClientMove
    <2> QED
      BY <1>3, <2>1, <2>2 DEF Enqueue
  <1>4. CASE Refuse(j)
    BY <1>0, <1>1, <1>4 DEF Refuse, ClientMove
  <1>5. CASE SubmitFails(j)
    BY <1>0, <1>1, <1>5 DEF SubmitFails, ClientMove
  <1>6. CASE CancelLook(j)
    BY <1>0, <1>1, <1>6 DEF CancelLook, ClientMove
  <1>7. CASE CancelKey(j)
    BY <1>0, <1>1, <1>7 DEF CancelKey, ClientMove
  <1>8. CASE CancelWrite(j)
    BY <1>0, <1>1, <1>8 DEF CancelWrite, ClientMove
  <1>9. CASE CancelFails(j)
    BY <1>0, <1>1, <1>9 DEF CancelFails, ClientMove
  <1>10. CASE DeleteDeadLetter(j)
    BY <1>0, <1>1, <1>10 DEF DeleteDeadLetter, ClientMove
  <1>11. CASE Replay(j)
    <2>1. \A i \in DOMAIN stream' \ DOMAIN stream : i = Len(stream) + 1
      BY <1>0, <1>11, ReplayEffect
    <2> QED
      BY <1>0, <1>11, <2>1, ReplayEffect DEF ClientMove
  <1> QED
    BY <1>2, <1>3, <1>4, <1>5, <1>6, <1>7, <1>8, <1>9, <1>10, <1>11 DEF Client

\* and the steps of a client.
LEMMA ClientKeepsIInv ==
  ASSUME IInv, NEW j \in Jobs, Client(j)
  PROVE  IInv'
  <1>0. TypeOK
    BY DEF IInv
  <1>1. ClientMove(j)
    BY <1>0, ClientSummary
  <1>2. Grows /\ UNCHANGED <<exec, drops, faults>>
    BY <1>1 DEF ClientMove
  <1>3. Enqueued(j) => submitter'[j] \notin {"none", "created", "refused"}
    BY <1>1 DEF ClientMove, IInv, NotEnqueuedEarly
  <1>4. dead[j] > 0 => Enqueued(j)
    BY NumbersAssumption DEF IInv, DeadLetterAfterAllAttempts, Enqueued
  <1>a. TypeOK'
    <2>1. store' \in [Jobs -> Statuses] /\ cancelKey' \in [Jobs -> BOOLEAN]
      <3>1. /\ store \in [Jobs -> Statuses] /\ cancelKey \in [Jobs -> BOOLEAN]
            /\ {"FAILED", "CANCELLED", "PENDING"} \subseteq Statuses
        BY <1>0 DEF TypeOK, Statuses, Final
      <3>2. store' = store \/ \E status \in Statuses : store' = [store EXCEPT ![j] = status]
        BY <1>1, <3>1 DEF ClientMove
      <3>3. cancelKey' = cancelKey \/ cancelKey' = [cancelKey EXCEPT ![j] = TRUE]
        BY <1>1 DEF ClientMove
      <3>4. cancelKey' \in [Jobs -> BOOLEAN]
        BY <3>1, <3>3
      <3> QED
        BY <3>1, <3>2, <3>4
    <2>2. \A y \in Slots : exec'[y].pc # "idle" => exec'[y].id \in DOMAIN stream'
      BY <1>0, <1>2 DEF TypeOK, Grows, At
    <2>3. /\ dead' \in [Jobs -> Nat] /\ stream' \in Seq(Entries)
          /\ submitter' \in [Jobs -> {"none", "created", "refused", "done", "failed"}]
          /\ canceller' \in [Jobs -> {"idle", "keying", "writing"}]
      BY <1>1 DEF ClientMove, Grows
    <2>4. exec' \in [Slots -> Execs] /\ drops' \in Nat /\ faults' \in SUBSET {"late", "lost"}
      BY <1>0, <1>2 DEF TypeOK
    <2> QED
      BY <2>1, <2>2, <2>3, <2>4 DEF TypeOK, At
  <1>b. AttemptKnown'
    BY <1>0, <1>2 DEF Grows, IInv, AttemptKnown, Entry, TypeOK, At
  <1>c. EarlierAttemptsKnown'
    <2> SUFFICES ASSUME NEW i \in DOMAIN stream', NEW a \in 0 .. stream'[i].attempt
                 PROVE  \E k \in DOMAIN stream' :
                          stream'[k].job = stream'[i].job /\ stream'[k].attempt = a
      BY DEF EarlierAttemptsKnown
    <2>1. CASE i \in DOMAIN stream
      BY <1>2, <2>1 DEF Grows, IInv, EarlierAttemptsKnown
    <2>2. CASE i \notin DOMAIN stream
      BY <1>1, <2>2 DEF ClientMove
    <2> QED
      BY <2>1, <2>2
  <1>d. DeadLetterAfterAllAttempts'
    <2> SUFFICES ASSUME NEW k \in Jobs, dead'[k] > 0, NEW a \in 0 .. MaxRetries
                 PROVE  \E i \in DOMAIN stream' : stream'[i].job = k /\ stream'[i].attempt = a
      BY DEF DeadLetterAfterAllAttempts
    <2>1. dead[k] > 0
      <3>1. dead'[k] <= dead[k] /\ dead'[k] \in Nat /\ dead[k] \in Nat
        BY <1>0, <1>1 DEF ClientMove, TypeOK
      <3> QED
        BY <3>1
    <2> QED
      BY <1>2, <2>1 DEF IInv, DeadLetterAfterAllAttempts, Grows
  <1>e. NotEnqueuedEarly'
    <2> SUFFICES ASSUME NEW k \in Jobs, submitter'[k] \in {"none", "created", "refused"},
                        NEW i \in DOMAIN stream', stream'[i].job = k
                 PROVE  FALSE
      BY DEF NotEnqueuedEarly, Enqueued
    <2>1. CASE i \in DOMAIN stream
      <3>1. Enqueued(k)
        BY <1>2, <2>1 DEF Enqueued, Grows
      <3> QED
        BY <1>1, <1>3, <3>1 DEF ClientMove, IInv, NotEnqueuedEarly
    <2>2. CASE i \notin DOMAIN stream
      BY <1>1, <1>3, <1>4, <2>2 DEF ClientMove
    <2> QED
      BY <2>1, <2>2
  <1> QED
    BY <1>a, <1>b, <1>c, <1>d, <1>e DEF IInv

\* The invariants are inductive.
LEMMA NextIInv == IInv /\ [Next]_vars => IInv'
  <1> SUFFICES ASSUME IInv, [Next]_vars PROVE IInv'
    OBVIOUS
  <1>1. ASSUME NEW j \in Jobs, Client(j) PROVE IInv'
    BY <1>1, ClientKeepsIInv
  <1>2. ASSUME NEW x \in Slots, Own(x) PROVE IInv'
    BY <1>2, OwnKeepsIInv
  <1>3. ASSUME NEW x \in Slots, NEW i \in DOMAIN stream, HandOver(x, i) PROVE IInv'
    BY <1>3, StartEffect, BeginKeepsIInv DEF IInv
  <1>4. CASE UNCHANGED vars
    <2>1. TypeOK'
      BY <1>4 DEF vars, IInv, TypeOK, At
    <2>2. AttemptKnown'
      BY <1>4 DEF vars, IInv, AttemptKnown, Entry
    <2>3. EarlierAttemptsKnown' /\ DeadLetterAfterAllAttempts' /\ NotEnqueuedEarly'
      BY <1>4 DEF vars, IInv, EarlierAttemptsKnown, DeadLetterAfterAllAttempts,
         NotEnqueuedEarly, Enqueued
    <2> QED
      BY <2>1, <2>2, <2>3 DEF IInv
  <1> QED
    BY <1>1, <1>2, <1>3, <1>4, NextCases

\* and hold in every reachable state.
LEMMA Inductive == Spec => []IInv
  BY InitIInv, NextIInv, PTL DEF Spec

-----------------------------------------------------------------------------
(* What holds whatever is slow, fails or is lost *)

\* Type correctness: no attempt goes beyond job_max_retries.
THEOREM TypeCorrect == Spec => []TypeOK
  <1>1. IInv => TypeOK
    BY DEF IInv
  <1> QED
    BY <1>1, Inductive, PTL

\* A job is buried only after each of its attempts was put into the queue.
THEOREM BuriedLate == Spec => []DeadLetterAfterAllAttempts
  <1>1. IInv => DeadLetterAfterAllAttempts
    BY DEF IInv
  <1> QED
    BY <1>1, Inductive, PTL

\* Once the cancel key is set the job does not become COMPLETED any more,
\* although every other write of the job record is blind.
THEOREM CancelWins == Spec => CancelBarsCompletion
  <1> DEFINE Barred ==
        \A j \in Jobs : (cancelKey[j] /\ store'[j] = "COMPLETED") => store[j] = "COMPLETED"
  <1>1. ASSUME IInv, [Next]_vars PROVE Barred
    <2>0. TypeOK
      BY <1>1 DEF IInv
    <2>1. ASSUME NEW j \in Jobs, Client(j) PROVE Barred
      <3>1. \/ store' = store
            \/ \E status \in {"FAILED", "CANCELLED", "PENDING"} :
                 store' = [store EXCEPT ![j] = status]
        BY <2>0, <2>1, ClientSummary DEF ClientMove
      <3> QED
        BY <2>0, <3>1 DEF TypeOK
    <2>2. ASSUME NEW x \in Slots, Own(x) PROVE Barred
      BY <2>0, <2>2, OwnSummary DEF StoreMove, MayComplete, TypeOK
    <2>3. ASSUME NEW x \in Slots, NEW i \in DOMAIN stream, HandOver(x, i) PROVE Barred
      BY <2>3 DEF HandOver, Deliver, Reclaim, Start
    <2>4. CASE UNCHANGED vars
      BY <2>4 DEF vars
    <2> QED
      BY <1>1, <2>1, <2>2, <2>3, <2>4, NextCases
  <1>2. IInv /\ [Next]_vars => [Barred]_vars
    BY <1>1
  <1> QED
    BY <1>2, Inductive, PTL DEF Spec, CancelBarsCompletion

-----------------------------------------------------------------------------
(* The invariants of the behaviours without faults *)

\* What an execution does to the entries: only its own entry is acknowledged.
LEMMA OwnEntries ==
  ASSUME QInv, NEW x \in Slots, Own(x)
  PROVE  /\ \A i \in DOMAIN stream :
              /\ i \in DOMAIN stream' /\ stream'[i].job = stream[i].job
              /\ i # exec[x].id => stream'[i].state = stream[i].state
              /\ stream[i].state = "trimmed" => stream'[i].state = "trimmed"
         /\ exec[x].id \in DOMAIN stream
  <1>1. TypeOK /\ AttemptKnown
    BY DEF QInv, IInv
  <1>2. StreamMove(x) /\ exec[x].id \in DOMAIN stream /\ Entry(x) \in Entries /\ Grows
    BY <1>1, OwnSummary, OwnGrows
  <1>3. stream \in Seq(Entries)
    BY <1>1 DEF TypeOK
  <1>4. CASE At(x, "readding") /\ stream' = Add(Entry(x).job, Entry(x).attempt + 1, FALSE)
    <2>1. Entry(x).job \in Jobs /\ Entry(x).attempt + 1 \in 0 .. MaxRetries
      BY <1>1, <1>2, <1>4, NumbersAssumption DEF AttemptKnown, At, Entries
    <2> QED
      BY <1>2, <1>3, <1>4, <2>1, AddEffect
  <1>5. CASE stream' = Finished(exec[x].id)
    BY <1>2, <1>3, <1>5, FinishedEffect
  <1> QED
    BY <1>2, <1>4, <1>5 DEF StreamMove

\* An entry other than the execution's own goes on carrying its job, and so does
\* one that was cut off.
LEMMA CarrierKept ==
  ASSUME QInv, NEW x \in Slots, Own(x), NEW j \in Jobs, NEW i \in DOMAIN stream,
         Carries(j, i), i # exec[x].id \/ stream[i].state = "trimmed"
  PROVE  i \in DOMAIN stream' /\ Carries(j, i)'
  <1>1. /\ i \in DOMAIN stream' /\ stream'[i].job = stream[i].job
        /\ i # exec[x].id => stream'[i].state = stream[i].state
        /\ stream[i].state = "trimmed" => stream'[i].state = "trimmed"
    BY OwnEntries
  <1>2. /\ \A y \in Slots \ {x} : exec'[y] = exec[y]
        /\ exec'[x] = IdleExec \/ exec'[x].id = exec[x].id
    BY OwnSummary DEF QInv, IInv, ExecMove
  <1>3. IdleExec.pc \notin Discharging
    BY DEF IdleExec, Discharging
  <1> QED
    BY <1>1, <1>2, <1>3 DEF Carries

\* No two executions work on one entry, and their entries are not acknowledged.
LEMMA OwnKeepsEntries ==
  ASSUME QInv, faults' = {}, NEW x \in Slots, Own(x)
  PROVE  OneExecutionPerEntry' /\ EntryHeld'
  <1>1. /\ ~At(x, "idle")
        /\ \A y \in Slots \ {x} : exec'[y] = exec[y]
        /\ exec'[x] = IdleExec \/ exec'[x].id = exec[x].id
    BY OwnSummary DEF QInv, IInv, ExecMove
  <1>2. IdleExec.pc = "idle"
    BY DEF IdleExec
  <1>3. OneExecutionPerEntry'
    BY <1>1, <1>2 DEF QInv, OneExecutionPerEntry, At
  <1>4. EntryHeld'
    <2> SUFFICES ASSUME NEW y \in Slots, exec'[y].pc # "idle"
                 PROVE  stream'[exec'[y].id].state \in {"pending", "trimmed"}
      BY DEF EntryHeld, Entry, At
    <2>1. exec'[y].id = exec[y].id /\ exec[y].pc # "idle"
      BY <1>1, <1>2 DEF At
    <2>2. stream[exec[y].id].state \in {"pending", "trimmed"} /\ exec[y].id \in DOMAIN stream
      BY <2>1 DEF QInv, IInv, TypeOK, EntryHeld, Entry, At
    <2>3. CASE y # x
      <3>1. exec[y].id # exec[x].id
        BY <1>1, <2>1, <2>3 DEF QInv, OneExecutionPerEntry, At
      <3> QED
        BY <2>1, <2>2, <3>1, OwnEntries
    <2>4. CASE y = x
      <3>1. CASE stream' = stream
        BY <2>1, <2>2, <3>1
      <3>2. CASE stream' # stream
        <4>1. At(x, "readding")
          BY <1>2, <2>4, <3>2, OwnSummary DEF DischargeMove, QInv, IInv
        <4>2. stream' = Add(Entry(x).job, Entry(x).attempt + 1, FALSE)
          BY <3>2, <4>1, OwnSummary DEF StreamMove, QInv, IInv, At
        <4>3. Entry(x).job \in Jobs /\ Entry(x).attempt + 1 \in 0 .. MaxRetries
          <5>1. Entry(x) \in Entries /\ Entry(x).attempt < MaxRetries
            BY <4>1, OwnGrows DEF QInv, IInv, AttemptKnown, At
          <5> QED
            BY <5>1, NumbersAssumption DEF Entries
        <4>4. stream \in Seq(Entries)
          BY DEF QInv, IInv, TypeOK
        <4>5. stream'[exec[y].id] = stream[exec[y].id]
          BY <2>2, <4>2, <4>3, <4>4, AddEffect
        <4> QED
          BY <2>1, <2>2, <4>5
      <3> QED
        BY <3>1, <3>2
    <2> QED
      BY <2>3, <2>4
  <1> QED
    BY <1>3, <1>4

\* A job without a final status keeps a carrier when one of its executions, or
\* of another job's, moves.
LEMMA OwnKeepsCarried ==
  ASSUME QInv, faults' = {}, NEW x \in Slots, Own(x)
  PROVE  UnfinishedIsCarried'
  <1>0. TypeOK /\ AttemptKnown
    BY DEF QInv, IInv
  <1>1. /\ ExecMove(x) /\ StreamMove(x) /\ StoreMove(x) /\ DischargeMove(x)
        /\ UNCHANGED cancelKey
    BY <1>0, OwnSummary
  <1>2. /\ \A i \in DOMAIN stream' \ DOMAIN stream : stream'[i].job = Entry(x).job
        /\ exec[x].id \in DOMAIN stream /\ Entry(x).job \in Jobs
    BY <1>0, OwnGrows DEF Entries
  <1>3. ~At(x, "idle") /\ Entry(x).state \in {"pending", "trimmed"}
    BY <1>1 DEF ExecMove, QInv, EntryHeld
  <1> SUFFICES ASSUME NEW j \in Jobs, Enqueued(j)', store'[j] \in {"PENDING", "RUNNING"},
                      ~cancelKey[j]
               PROVE  \E i \in DOMAIN stream' : Carries(j, i)'
    BY <1>1 DEF UnfinishedIsCarried
  <1>4. ASSUME store[j] = store'[j], Enqueued(j),
               \/ j # Entry(x).job
               \/ exec[x].pc \in Discharging
        PROVE  \E i \in DOMAIN stream' : Carries(j, i)'
    <2>1. PICK i \in DOMAIN stream : Carries(j, i)
      BY <1>4 DEF QInv, UnfinishedIsCarried
    <2>2. i = exec[x].id => stream[i].state = "trimmed"
      BY <1>3, <1>4, <2>1 DEF Carries, Entry
    <2> QED
      BY <2>1, <2>2, CarrierKept
  <1>5. CASE j # Entry(x).job
    <2>1. store[j] = store'[j]
      BY <1>0, <1>1, <1>2, <1>5 DEF StoreMove, TypeOK
    <2>2. Enqueued(j)
      BY <1>2, <1>5, OwnEntries DEF Enqueued
    <2> QED
      BY <1>4, <1>5, <2>1, <2>2
  <1>6. CASE /\ j = Entry(x).job
             /\ At(x, "readding") /\ stream' = Add(Entry(x).job, Entry(x).attempt + 1, FALSE)
    <2>1. Entry(x).job \in Jobs /\ Entry(x).attempt + 1 \in 0 .. MaxRetries
      <3>1. Entry(x) \in Entries /\ Entry(x).attempt < MaxRetries
        BY <1>0, <1>6, OwnGrows DEF AttemptKnown, At
      <3> QED
        BY <3>1, NumbersAssumption DEF Entries
    <2>2. /\ Len(stream) + 1 \in DOMAIN stream'
          /\ stream'[Len(stream) + 1].job = j /\ stream'[Len(stream) + 1].state = "new"
      <3>1. stream \in Seq(Entries) /\ Len(stream) \in Nat
        BY <1>0 DEF TypeOK
      <3>2. /\ DOMAIN stream' = 1 .. Len(stream) + 1
            /\ stream'[Len(stream) + 1] =
                 [job |-> j, attempt |-> Entry(x).attempt + 1, replayed |-> FALSE,
                  state |-> "new"]
        BY <1>6, <2>1, <3>1, AddEffect
      <3> QED
        BY <3>1, <3>2
    <2>3. PICK i \in DOMAIN stream' : stream'[i].job = j /\ stream'[i].state = "new"
      BY <2>2
    <2> QED
      BY <2>3 DEF Carries
  <1>7. CASE j = Entry(x).job /\ stream' = stream /\ exec'[x].pc \notin Discharging
    <2> PICK i \in DOMAIN stream : i = exec[x].id
      BY <1>2
    <2>1. \A y \in Slots : exec'[y].id = i => exec'[y].pc \notin Discharging
      <3> SUFFICES ASSUME NEW y \in Slots, y # x, exec'[y].id = i
                   PROVE  exec'[y].pc \notin Discharging
        BY <1>7
      <3>1. exec'[y] = exec[y]
        BY <1>1 DEF ExecMove
      <3>2. At(y, "idle")
        BY <1>3, <3>1 DEF QInv, OneExecutionPerEntry
      <3> QED
        BY <3>1, <3>2 DEF At, Discharging
    <2>2. Carries(j, i)'
      BY <1>3, <1>7, <2>1 DEF Carries, Entry
    <2> QED
      BY <1>2, <1>7, <2>2
  <1>8. CASE /\ j = Entry(x).job
             /\ ~(At(x, "readding") /\ stream' = Add(Entry(x).job, Entry(x).attempt + 1, FALSE))
             /\ ~(stream' = stream /\ exec'[x].pc \notin Discharging)
    <2>1. exec[x].pc \in Discharging
      <3>1. CASE exec'[x].pc \in Discharging
        BY <1>1, <1>8, <3>1 DEF DischargeMove
      <3>2. CASE exec'[x].pc \notin Discharging
        BY <1>1, <1>8, <3>2 DEF StreamMove, At, Discharging
      <3> QED
        BY <3>1, <3>2
    <2>2. store[j] = store'[j]
      BY <1>0, <1>1, <1>2, <1>8, <2>1 DEF StoreMove, TypeOK, Discharging
    <2>3. Enqueued(j)
      BY <1>2, <1>8 DEF Enqueued, Entry
    <2> QED
      BY <1>4, <2>1, <2>2, <2>3
  <1> QED
    BY <1>5, <1>6, <1>7, <1>8

\* A hand-over goes to a slot whose entry no other execution has.
LEMMA BeginKeepsQInv ==
  ASSUME QInv, faults' = {}, NEW x \in Slots, NEW i \in DOMAIN stream, HandOver(x, i)
  PROVE  QInv'
  <1>0. TypeOK /\ stream \in Seq(Entries)
    BY DEF QInv, IInv, TypeOK
  <1>1. Begin(x, i)
    BY <1>0, StartEffect
  <1>2. IInv'
    BY <1>1, BeginKeepsIInv DEF QInv
  <1>3. /\ DOMAIN stream' = DOMAIN stream
        /\ \A k \in DOMAIN stream :
             /\ stream'[k].job = stream[k].job
             /\ stream'[k].state = IF k = i THEN "pending" ELSE stream[k].state
    BY <1>0, <1>1, StateChange DEF Begin
  <1>4. /\ exec'[x].pc = "fetching" /\ exec'[x].id = i
        /\ \A y \in Slots \ {x} : exec'[y] = exec[y]
        /\ UNCHANGED <<store, cancelKey>>
    BY <1>1 DEF Begin
  <1>5. \A y \in Slots : ~At(y, "idle") =>
          /\ exec[y].id # i /\ exec[y].id \in DOMAIN stream
          /\ Entry(y).state \in {"pending", "trimmed"}
    <2> SUFFICES ASSUME NEW y \in Slots, ~At(y, "idle")
                 PROVE  /\ exec[y].id # i /\ exec[y].id \in DOMAIN stream
                        /\ Entry(y).state \in {"pending", "trimmed"}
      OBVIOUS
    <2>1. exec[y].id \in DOMAIN stream /\ Entry(y).state \in {"pending", "trimmed"}
      BY DEF QInv, IInv, TypeOK, EntryHeld
    <2>2. exec[y].id # i
      BY <1>1, <2>1 DEF Begin, UnderWay, Entry
    <2> QED
      BY <2>1, <2>2
  <1>6. OneExecutionPerEntry'
    BY <1>4, <1>5 DEF QInv, OneExecutionPerEntry, At
  <1>7. EntryHeld'
    <2> SUFFICES ASSUME NEW y \in Slots, exec'[y].pc # "idle"
                 PROVE  stream'[exec'[y].id].state \in {"pending", "trimmed"}
      BY DEF EntryHeld, Entry, At
    <2>1. CASE y = x
      BY <1>3, <1>4, <2>1
    <2>2. CASE y # x
      BY <1>3, <1>4, <1>5, <2>2 DEF Entry, At
    <2> QED
      BY <2>1, <2>2
  <1>8. UnfinishedIsCarried'
    <2> SUFFICES ASSUME NEW j \in Jobs, Enqueued(j), store[j] \in {"PENDING", "RUNNING"},
                        ~cancelKey[j]
                 PROVE  \E k \in DOMAIN stream' : Carries(j, k)'
      BY <1>3, <1>4 DEF UnfinishedIsCarried, Enqueued
    <2>1. PICK k \in DOMAIN stream : Carries(j, k)
      BY DEF QInv, UnfinishedIsCarried
    <2>2. "fetching" \notin Discharging /\ "idle" \notin Discharging
      BY DEF Discharging
    <2>3. \A y \in Slots : exec'[y].id = k => (exec'[y].pc \notin Discharging \/ k # i)
      BY <1>4, <1>5, <2>2 DEF At
    <2>4. CASE k = i
      BY <1>3, <2>1, <2>3, <2>4 DEF Carries
    <2>5. CASE k # i
      BY <1>3, <1>4, <2>1, <2>5 DEF Carries
    <2> QED
      BY <1>3, <2>4, <2>5
  <1> QED
    BY <1>2, <1>6, <1>7, <1>8 DEF QInv

\* A client moves no execution, and what it cuts off no execution acknowledges.
LEMMA ClientKeepsQInv ==
  ASSUME QInv, NEW j \in Jobs, Client(j)
  PROVE  QInv'
  <1>0. TypeOK /\ IInv
    BY DEF QInv, IInv
  <1>1. ClientMove(j)
    BY <1>0, ClientSummary
  <1>2. IInv'
    BY <1>0, ClientKeepsIInv
  <1>3. /\ \A i \in DOMAIN stream :
             /\ i \in DOMAIN stream' /\ stream'[i].job = stream[i].job
             /\ stream'[i].state \in {stream[i].state, "trimmed"}
        /\ \A i \in DOMAIN stream' \ DOMAIN stream :
             stream'[i].job = j /\ stream'[i].state = "new"
        /\ exec' = exec
    BY <1>1 DEF ClientMove, Grows
  <1>4. OneExecutionPerEntry'
    BY <1>3 DEF QInv, OneExecutionPerEntry, At
  <1>5. EntryHeld'
    <2> SUFFICES ASSUME NEW y \in Slots, exec[y].pc # "idle"
                 PROVE  stream'[exec[y].id].state \in {"pending", "trimmed"}
      BY <1>3 DEF EntryHeld, Entry, At
    <2>1. exec[y].id \in DOMAIN stream /\ stream[exec[y].id].state \in {"pending", "trimmed"}
      BY <1>0 DEF TypeOK, QInv, EntryHeld, Entry, At
    <2> QED
      BY <1>3, <2>1
  <1>6. UnfinishedIsCarried'
    <2> SUFFICES ASSUME NEW k \in Jobs, Enqueued(k)', store'[k] \in {"PENDING", "RUNNING"},
                        ~cancelKey'[k]
                 PROVE  \E i \in DOMAIN stream' : Carries(k, i)'
      BY DEF UnfinishedIsCarried
    <2>1. CASE Enqueued(k)
      <3>1. ~cancelKey[k]
        <4>1. cancelKey \in [Jobs -> BOOLEAN]
          BY <1>0 DEF TypeOK
        <4>2. cancelKey' = cancelKey \/ cancelKey' = [cancelKey EXCEPT ![j] = TRUE]
          BY <1>1 DEF ClientMove
        <4> QED
          BY <4>1, <4>2
      <3>2. store[k] = store'[k]
        <4>1. store \in [Jobs -> Statuses]
          BY <1>0 DEF TypeOK
        <4>2. submitter[k] # "none"
          BY <1>0, <2>1 DEF IInv, NotEnqueuedEarly
        <4>3. \/ store' = store
              \/ \E status \in {"FAILED", "CANCELLED"} : store' = [store EXCEPT ![j] = status]
              \/ submitter[j] = "none" /\ store' = [store EXCEPT ![j] = "PENDING"]
          BY <1>1 DEF ClientMove
        <4> QED
          BY <4>1, <4>2, <4>3
      <3>3. PICK i \in DOMAIN stream : Carries(k, i)
        BY <2>1, <3>1, <3>2 DEF QInv, UnfinishedIsCarried
      <3> QED
        BY <1>3, <3>3 DEF Carries
    <2>2. CASE ~Enqueued(k)
      <3>1. PICK i \in DOMAIN stream' : stream'[i].job = k
        BY DEF Enqueued
      <3>2. i \notin DOMAIN stream
        BY <1>3, <2>2, <3>1 DEF Enqueued
      <3> QED
        BY <1>3, <3>1, <3>2 DEF Carries
    <2> QED
      BY <2>1, <2>2
  <1> QED
    BY <1>2, <1>4, <1>5, <1>6 DEF QInv

\* The empty queue carries nothing and owes nothing.
LEMMA InitQInv == Init => QInv
  <1> SUFFICES ASSUME Init PROVE QInv
    OBVIOUS
  <1>1. IInv
    BY InitIInv
  <1>2. \A x \in Slots : At(x, "idle")
    BY DEF Init, At, IdleExec
  <1>3. DOMAIN stream = {}
    BY DEF Init
  <1> QED
    BY <1>1, <1>2, <1>3 DEF QInv, OneExecutionPerEntry, EntryHeld, UnfinishedIsCarried, Enqueued

\* The invariants are inductive as long as there is no fault.
LEMMA NextQInv ==
  ASSUME QInv, [Next]_vars, faults' = {}
  PROVE  QInv'
  <1>1. ASSUME NEW j \in Jobs, Client(j) PROVE QInv'
    BY <1>1, ClientKeepsQInv
  <1>2. ASSUME NEW x \in Slots, Own(x) PROVE QInv'
    BY <1>2, OwnKeepsIInv, OwnKeepsEntries, OwnKeepsCarried DEF QInv
  <1>3. ASSUME NEW x \in Slots, NEW i \in DOMAIN stream, HandOver(x, i) PROVE QInv'
    BY <1>3, BeginKeepsQInv
  <1>4. CASE UNCHANGED vars
    <2>1. IInv'
      BY <1>4, NextIInv DEF QInv
    <2> QED
      BY <1>4, <2>1 DEF vars, QInv, OneExecutionPerEntry, EntryHeld, UnfinishedIsCarried, Enqueued,
         Carries, Entry, At
  <1> QED
    BY <1>1, <1>2, <1>3, <1>4, NextCases

\* No step undoes a fault.
LEMMA FaultsStay ==
  ASSUME TypeOK, [Next]_vars
  PROVE  faults' = {} => faults = {}
  <1>1. ASSUME NEW j \in Jobs, Client(j) PROVE faults' = faults
    BY <1>1, ClientSummary DEF ClientMove
  <1>2. ASSUME NEW x \in Slots, Own(x) PROVE FaultsGrow
    BY <1>2, OwnSummary DEF ExecMove
  <1>3. ASSUME NEW x \in Slots, NEW i \in DOMAIN stream, HandOver(x, i) PROVE FaultsGrow
    BY <1>3, StartEffect DEF Begin
  <1>4. CASE UNCHANGED vars
    BY <1>4 DEF vars
  <1> QED
    BY <1>1, <1>2, <1>3, <1>4, NextCases DEF FaultsGrow

\* While executions end within the visibility timeout and replies arrive, an
\* unfinished job whose cancellation was not begun is never lost to the queue:
\* crashes, failing calls, retries, reclaims and replays all leave it an entry.
THEOREM NothingForgotten == Spec => []NoJobForgotten
  <1> DEFINE Inv == IInv /\ (faults = {} => QInv)
  <1>1. Init => Inv
    BY InitIInv, InitQInv
  <1>2. Inv /\ [Next]_vars => Inv'
    <2> SUFFICES ASSUME Inv, [Next]_vars PROVE Inv'
      OBVIOUS
    <2>1. IInv'
      BY NextIInv
    <2>2. ASSUME faults' = {} PROVE QInv'
      <3>1. faults = {}
        BY <2>2, FaultsStay DEF IInv
      <3> QED
        BY <2>2, <3>1, NextQInv
    <2> QED
      BY <2>1, <2>2
  <1>3. Inv => NoJobForgotten
    BY DEF QInv, UnfinishedIsCarried, Carries, NoJobForgotten
  <1> QED
    BY <1>1, <1>2, <1>3, PTL DEF Spec
=============================================================================
