------------------------------- MODULE Outbox -------------------------------
(***************************************************************************)
(* The transactional outbox: state transitions that write an event in the  *)
(* same transaction, the rows of enterprise_outbox, the dead letters of    *)
(* enterprise_dead_letters (enterprise/postgres.py), and the dispatchers   *)
(* that claim rows under a lease and hand them to a handler                *)
(* (enterprise/outbox.py).                                                 *)
(*                                                                         *)
(* One SQL transaction is one atomic step.  The writes of a dispatcher name *)
(* the row by its id only: whoever claimed it last is not asked.           *)
(* available_at is abstracted: a waiting row may be due at any moment.     *)
(***************************************************************************)
EXTENDS Naturals, FiniteSets

CONSTANTS
  Events,       \* idempotency keys: one per state transition that is attempted
  Dispatchers,  \* dispatcher processes, one run loop each
  BatchSize,    \* outbox_worker_batch_size, the LIMIT of the claim query
  MaxAttempts,  \* max_attempts of the rows
  MaxReplays    \* bound: replays per dead letter

ASSUME OutboxAssumption ==
  /\ IsFiniteSet(Events)
  /\ BatchSize \in Nat \ {0}
  /\ MaxAttempts \in Nat \ {0}
  /\ MaxReplays \in Nat

VARIABLES
  version,    \* version column of the publish state the transitions change
  expected,   \* expected_version of each transition, once its caller read it
  row,        \* the outbox
  letter,     \* status of the dead letter of an event
  replays,    \* replays so far, per event
  task,       \* task[w][e]: the dispatch_one call of dispatcher w for event e
  handled,    \* history: a handler took the event
  late        \* history: the lease lapsed under a dispatcher that was still at it

vars == <<version, expected, row, letter, replays, task, handled, late>>

-----------------------------------------------------------------------------
Statuses == {"ABSENT", "PENDING", "PROCESSING", "RETRY", "DELIVERED", "DEAD"}

Rows ==
  [status : Statuses, attempts : 0 .. MaxAttempts, lease : {"null", "live", "lapsed"}]

AbsentRow == [status |-> "ABSENT", attempts |-> 0, lease |-> "null"]

Waiting == {"PENDING", "RETRY"}

Steps == {"handling", "completing", "failing"}
IdleDispatcher == [e \in Events |-> "idle"]

NotRead == Cardinality(Events) + 1

Goto(w, e, p) == task' = [task EXCEPT ![w][e] = p]

-----------------------------------------------------------------------------
(* Conditions of the code, each after the faulty variants that the         *)
(* properties below are meant to notice.                                   *)

MayTransitionAnyVersion(e) == expected[e] # NotRead
\* version=$3: the state is still the one the caller read (that it is also one
\* of from_states is left to the caller).
MayTransition(e) == expected[e] = version

ExhaustedTooLate(e) == row[e].attempts > MaxAttempts
\* attempts >= max_attempts
Exhausted(e) == row[e].attempts >= MaxAttempts

LetterKept(old) == IF old = "none" THEN "OPEN" ELSE old
\* ON CONFLICT DO UPDATE SET status='OPEN'
LetterOf(old) == "OPEN"

AfterHandlerIgnoring(raised) == "completing"
\* The except clause around the handler.
AfterHandler(raised) == IF raised THEN "failing" ELSE "completing"

ClaimableAnyAttempts(e) ==
  \/ row[e].status \in Waiting
  \/ row[e].status = "PROCESSING" /\ row[e].lease = "lapsed"
ClaimableWaiting(e) == row[e].attempts < MaxAttempts /\ row[e].status \in Waiting
ClaimableProcessing(e) ==
  row[e].attempts < MaxAttempts /\ row[e].status \in Waiting \cup {"PROCESSING"}
\* The WHERE clause of claim_outbox_v2.
Claimable(e) ==
  /\ row[e].attempts < MaxAttempts
  /\ \/ row[e].status \in Waiting
     \/ row[e].status = "PROCESSING" /\ row[e].lease = "lapsed"

-----------------------------------------------------------------------------
Init ==
  /\ version = 0
  /\ expected = [e \in Events |-> NotRead]
  /\ row = [e \in Events |-> AbsentRow]
  /\ letter = [e \in Events |-> "none"]
  /\ replays = [e \in Events |-> 0]
  /\ task = [w \in Dispatchers |-> IdleDispatcher]
  /\ handled = [e \in Events |-> FALSE]
  /\ late = [e \in Events |-> FALSE]

\* The caller of transition_publish_state reads the state it will change.
ReadState(e) ==
  /\ expected[e] = NotRead
  /\ expected' = [expected EXCEPT ![e] = version]
  /\ UNCHANGED <<version, row, letter, replays, task, handled, late>>

\* transition_publish_state: the state and its event in one transaction.  A
\* caller whose reply was lost may try again; on a conflict it gives up.
Transition(e) ==
  /\ MayTransition(e)
  /\ version' = version + 1
  /\ row' = IF row[e].status = "ABSENT"
            THEN [row EXCEPT ![e].status = "PENDING"] ELSE row
  /\ UNCHANGED <<expected, letter, replays, task, handled, late>>

\* now() passes lease_expires_at.
LeaseLapse(e) ==
  /\ row[e].status = "PROCESSING" /\ row[e].lease = "live"
  /\ row' = [row EXCEPT ![e].lease = "lapsed"]
  /\ late' = [late EXCEPT ![e] = @ \/ \E w \in Dispatchers : task[w][e] # "idle"]
  /\ UNCHANGED <<version, expected, letter, replays, task, handled>>

\* run and claim_outbox_v2: a batch is claimed when the last one is over.
Claim(w, batch) ==
  /\ task[w] = IdleDispatcher
  /\ batch # {} /\ Cardinality(batch) <= BatchSize
  /\ \A e \in batch : Claimable(e)
  /\ row' = [e \in Events |->
       IF e \in batch
       THEN [status |-> "PROCESSING", attempts |-> row[e].attempts + 1, lease |-> "live"]
       ELSE row[e]]
  /\ task' = [task EXCEPT ![w] = [e \in Events |-> IF e \in batch THEN "handling" ELSE "idle"]]
  /\ UNCHANGED <<version, expected, letter, replays, handled, late>>

(* dispatch_one *)

\* The handler returns, or raises before or after it took the event.
Handle(w, e) ==
  /\ task[w][e] = "handling"
  /\ \E raised \in BOOLEAN, took \in BOOLEAN :
       /\ took \/ raised
       /\ handled' = [handled EXCEPT ![e] = @ \/ took]
       /\ Goto(w, e, AfterHandler(raised))
  /\ UNCHANGED <<version, expected, row, letter, replays, late>>

\* complete_outbox
Complete(w, e) ==
  /\ task[w][e] = "completing"
  /\ row' = [row EXCEPT ![e].status = "DELIVERED"]
  /\ Goto(w, e, "idle")
  /\ UNCHANGED <<version, expected, letter, replays, handled, late>>

\* fail_outbox, on the attempts the row has by now.
Fail(w, e) ==
  /\ task[w][e] = "failing"
  /\ \/ /\ Exhausted(e)
        /\ letter' = [letter EXCEPT ![e] = LetterOf(@)]
        /\ row' = [row EXCEPT ![e].status = "DEAD"]
     \/ /\ ~Exhausted(e)
        /\ row' = [row EXCEPT ![e].status = "RETRY", ![e].lease = "null"]
        /\ UNCHANGED letter
  /\ Goto(w, e, "idle")
  /\ UNCHANGED <<version, expected, replays, handled, late>>

\* The write after the handler raises, and is rolled back.
CallFails(w, e) ==
  /\ task[w][e] \in {"completing", "failing"}
  /\ Goto(w, e, "idle")
  /\ UNCHANGED <<version, expected, row, letter, replays, handled, late>>

\* The process dies and is replaced.
Crash(w) ==
  /\ task[w] # IdleDispatcher
  /\ task' = [task EXCEPT ![w] = IdleDispatcher]
  /\ UNCHANGED <<version, expected, row, letter, replays, handled, late>>

\* replay_dead_letter asks neither for the status of the letter nor of the row.
Replay(e) ==
  /\ letter[e] # "none"
  /\ replays[e] < MaxReplays
  /\ replays' = [replays EXCEPT ![e] = @ + 1]
  /\ row' = [row EXCEPT ![e] = [status |-> "RETRY", attempts |-> 0, lease |-> "null"]]
  /\ letter' = [letter EXCEPT ![e] = "REPLAYED"]
  /\ UNCHANGED <<version, expected, task, handled, late>>

-----------------------------------------------------------------------------
Dispatch(w, e) == Handle(w, e) \/ Complete(w, e) \/ Fail(w, e)

Next ==
  \/ \E e \in Events : ReadState(e) \/ Transition(e) \/ LeaseLapse(e) \/ Replay(e)
  \/ \E w \in Dispatchers, e \in Events : Dispatch(w, e) \/ CallFails(w, e)
  \/ \E w \in Dispatchers : Crash(w) \/ \E batch \in SUBSET Events : Claim(w, batch)

Spec == Init /\ [][Next]_vars

\* Handlers and transactions return or raise, the clock passes the expiry of
\* an abandoned lease, and the loops keep polling.
Fairness ==
  /\ \A w \in Dispatchers, e \in Events : WF_vars(Dispatch(w, e))
  /\ \A e \in Events :
       /\ WF_vars((\A w \in Dispatchers : task[w][e] = "idle") /\ LeaseLapse(e))
       /\ SF_vars(\E w \in Dispatchers, batch \in SUBSET Events :
                    e \in batch /\ Claim(w, batch))

FairSpec == Spec /\ Fairness

-----------------------------------------------------------------------------
(* Properties *)

\* Every variable has its type; no row is handed out more than max_attempts
\* times between two replays.
TypeOK ==
  /\ version \in 0 .. Cardinality(Events)
  /\ expected \in [Events -> 0 .. NotRead]
  /\ row \in [Events -> Rows]
  /\ letter \in [Events -> {"none", "OPEN", "REPLAYED"}]
  /\ replays \in [Events -> 0 .. MaxReplays]
  /\ task \in [Dispatchers -> [Events -> Steps \cup {"idle"}]]
  /\ handled \in [Events -> BOOLEAN]
  /\ late \in [Events -> BOOLEAN]

\* Every state transition that was committed left its own event, and every
\* event stands for one transition, however often callers repeat a call whose
\* reply they lost and however they interleave.
OneEventPerTransition ==
  version = Cardinality({e \in Events : row[e].status # "ABSENT"})

\* A row that waits for a retry is within reach of the claim query, whoever
\* else claimed, failed or replayed it meanwhile.
WaitingIsClaimable ==
  \A e \in Events : row[e].status \in Waiting => Claimable(e)

\* A DELIVERED event was taken by a handler, even when the dispatcher that
\* said so had lost the row to another one.
DeliveredWasHandled ==
  \A e \in Events : row[e].status = "DELIVERED" => handled[e]

\* A DEAD row has an open dead letter, also when it died again after a replay.
DeadHasOpenLetter ==
  \A e \in Events : row[e].status = "DEAD" => letter[e] = "OPEN"

\* Two dispatchers work on the same event only if its lease lapsed under one of
\* them or its dead letter was replayed.
OneDispatchPerEvent ==
  \A e \in Events, v, w \in Dispatchers :
    task[v][e] # "idle" /\ task[w][e] # "idle" /\ v # w => late[e] \/ letter[e] # "none"

\* A delivered event is sent again only if a lease lapsed under a dispatcher of
\* it or its dead letter was replayed.
DeliveredStays ==
  [][\A e \in Events :
       (row[e].status = "DELIVERED" /\ letter[e] = "none" /\ ~late[e])
         => row'[e].status = "DELIVERED"]_vars

\* Every event is delivered or buried in the end, whichever dispatchers die,
\* unless its last attempt ended without an answer.
EveryEventSettles ==
  \A e \in Events :
    <>[](\/ row[e].status \in {"ABSENT", "DELIVERED", "DEAD"}
         \/ row[e].status = "PROCESSING" /\ Exhausted(e))

-----------------------------------------------------------------------------
(* A statement of the repository that the code does not keep *)

\* Events are delivered with leases, retry limits and dead-letter handling: an
\* event whose attempts are used up is delivered or buried
\* (references/distributed-consistency.md:11).
ExhaustedIsSettled ==
  \A e \in Events :
    (row[e].status = "PROCESSING" /\ Exhausted(e)) ~>
      (row[e].status \in {"DELIVERED", "DEAD"} \/ ~Exhausted(e))
=============================================================================
