---------------------------- MODULE Outbox_proofs ----------------------------
(***************************************************************************)
(* TLAPS proofs about Outbox, for any finite set of events, any set of     *)
(* dispatchers and any bounds.                                             *)
(***************************************************************************)
EXTENDS Outbox, FiniteSetTheorems, TLAPS

-----------------------------------------------------------------------------
(* The inductive invariant.  What the properties say of a status is kept   *)
(* by strengthening it with what the dispatchers, which write by row id    *)
(* only, may still be about to do to the row.                              *)

\* TypeOK without the bound on version, which follows from the count.
Typed ==
  /\ version \in Nat
  /\ expected \in [Events -> Nat]
  /\ row \in [Events -> Rows]
  /\ letter \in [Events -> {"none", "OPEN", "REPLAYED"}]
  /\ replays \in [Events -> 0 .. MaxReplays]
  /\ task \in [Dispatchers -> [Events -> Steps \cup {"idle"}]]
  /\ handled \in [Events -> BOOLEAN]
  /\ late \in [Events -> BOOLEAN]

Present == {e \in Events : row[e].status # "ABSENT"}

\* A transition that was committed knows an outdated version, so that it
\* cannot be committed again.
CommittedOnce ==
  \A e \in Events :
    /\ expected[e] = NotRead \/ expected[e] <= version
    /\ row[e].status # "ABSENT" => expected[e] # NotRead /\ expected[e] < version

\* Nothing is known of an event that was never written.
AbsentUntouched ==
  \A e \in Events : row[e].status = "ABSENT" =>
    /\ row[e].attempts = 0
    /\ letter[e] = "none"
    /\ \A w \in Dispatchers : task[w][e] = "idle"

\* A dispatcher about to report the delivery has seen the handler take the event.
CompletingIsHandled ==
  \A e \in Events, w \in Dispatchers : task[w][e] = "completing" => handled[e]

\* Without a replay, and while no lease lapsed under a dispatcher, dispatchers
\* own the rows they work on.
Exclusive ==
  \A e \in Events, w \in Dispatchers :
    (task[w][e] # "idle" /\ letter[e] = "none" /\ ~late[e]) =>
      /\ row[e].status = "PROCESSING" /\ row[e].lease = "live"
      /\ \A v \in Dispatchers : v # w => task[v][e] = "idle"

IInv ==
  /\ Typed /\ OneEventPerTransition /\ CommittedOnce /\ AbsentUntouched
  /\ WaitingIsClaimable /\ CompletingIsHandled /\ DeliveredWasHandled
  /\ DeadHasOpenLetter /\ Exclusive

-----------------------------------------------------------------------------
(* Lemmas about the parts *)

\* There are never more versions than events to account for them.
LEMMA VersionBound ==
  ASSUME Typed, OneEventPerTransition
  PROVE  version <= Cardinality(Events) /\ version < NotRead
  <1>1. IsFiniteSet(Events) BY OutboxAssumption
  <1>2. Present \in SUBSET Events BY DEF Present
  <1>3. Cardinality(Present) <= Cardinality(Events) BY <1>1, <1>2, FS_Subset
  <1>4. Cardinality(Events) \in Nat BY <1>1, FS_CardinalityType
  <1> QED BY <1>3, <1>4 DEF OneEventPerTransition, Present, Typed, NotRead

\* Writing the row of one more event counts one more.
LEMMA PresentGrows ==
  ASSUME NEW e \in Events, e \notin Present, Present' = Present \cup {e}
  PROVE  Cardinality(Present') = Cardinality(Present) + 1
  <1>1. IsFiniteSet(Present)
    BY OutboxAssumption, FS_Subset DEF Present
  <1> QED BY <1>1, FS_AddElement

\* A move of one dispatcher leaves the others, and its other events, alone.
LEMMA GotoEffect ==
  ASSUME Typed, NEW w \in Dispatchers, NEW e \in Events,
         NEW p \in Steps \cup {"idle"}, Goto(w, e, p)
  PROVE  /\ task' \in [Dispatchers -> [Events -> Steps \cup {"idle"}]]
         /\ task'[w][e] = p
         /\ \A v \in Dispatchers, d \in Events :
              (v # w \/ d # e) => task'[v][d] = task[v][d]
  BY DEF Goto, Typed

-----------------------------------------------------------------------------
(* Initial states *)

\* The inductive invariant holds initially.
LEMMA InitInv == Init => IInv
  <1> SUFFICES ASSUME Init PROVE IInv OBVIOUS
  <1>1. Cardinality(Events) \in Nat BY OutboxAssumption, FS_CardinalityType
  <1>2. Typed
    BY <1>1, OutboxAssumption
    DEF Init, Typed, Rows, AbsentRow, Statuses, IdleDispatcher, NotRead
  <1>3. OneEventPerTransition
    <2>1. {e \in Events : row[e].status # "ABSENT"} = {}
      BY DEF Init, AbsentRow
    <2> QED BY <2>1, FS_EmptySet DEF OneEventPerTransition, Init
  <1>4. CommittedOnce /\ AbsentUntouched /\ CompletingIsHandled
    BY DEF Init, CommittedOnce, AbsentUntouched, CompletingIsHandled, AbsentRow, IdleDispatcher
  <1>5. WaitingIsClaimable /\ DeliveredWasHandled /\ DeadHasOpenLetter
    BY DEF Init, WaitingIsClaimable, DeliveredWasHandled, DeadHasOpenLetter, AbsentRow, Waiting
  <1>6. Exclusive
    BY DEF Init, Exclusive, IdleDispatcher
  <1> QED BY <1>2, <1>3, <1>4, <1>5, <1>6 DEF IInv

-----------------------------------------------------------------------------
(* Steps.  What an action does to the rows it does not add is stated once   *)
(* for all of them: nothing becomes absent, nothing appears.                *)

SameRows == \A e \in Events : row'[e].status = "ABSENT" <=> row[e].status = "ABSENT"

\* The count and the versions are kept by every action but the producers'.
LEMMA CountKept ==
  ASSUME IInv, SameRows, UNCHANGED <<version, expected>>
  PROVE  OneEventPerTransition' /\ CommittedOnce'
  <1>1. {e \in Events : row'[e].status # "ABSENT"} = {e \in Events : row[e].status # "ABSENT"}
    BY DEF SameRows
  <1>2. OneEventPerTransition'
    BY <1>1 DEF IInv, OneEventPerTransition
  <1>3. CommittedOnce'
    BY DEF IInv, CommittedOnce, SameRows
  <1> QED BY <1>2, <1>3

\* Reading the state leaves the rows alone.
LEMMA ReadStateStep ==
  ASSUME IInv, NEW e \in Events, ReadState(e)
  PROVE  IInv'
  <1>1. Typed' BY DEF IInv, Typed, ReadState
  <1>2. OneEventPerTransition' BY DEF IInv, OneEventPerTransition, ReadState
  <1>3. CommittedOnce'
    BY DEF IInv, CommittedOnce, ReadState, Typed
  <1>4. UNCHANGED <<row, letter, task, handled, late>> BY DEF ReadState
  <1>5. AbsentUntouched' /\ CompletingIsHandled' /\ Exclusive'
    BY <1>4 DEF IInv, AbsentUntouched, CompletingIsHandled, Exclusive
  <1>6. WaitingIsClaimable' /\ DeliveredWasHandled' /\ DeadHasOpenLetter'
    BY <1>4 DEF IInv, WaitingIsClaimable, DeliveredWasHandled, DeadHasOpenLetter, Claimable
  <1> QED BY <1>1, <1>2, <1>3, <1>5, <1>6 DEF IInv

\* A transition adds the one event that was absent.
LEMMA TransitionStep ==
  ASSUME IInv, NEW e \in Events, Transition(e)
  PROVE  IInv'
  <1>1. expected[e] = version /\ version \in Nat /\ version < NotRead
    BY VersionBound DEF IInv, Transition, MayTransition, Typed
  <1>2. row[e].status = "ABSENT"
    BY <1>1 DEF IInv, CommittedOnce
  <1>3. /\ row' = [row EXCEPT ![e].status = "PENDING"]
        /\ version' = version + 1
        /\ UNCHANGED <<expected, letter, replays, task, handled, late>>
    BY <1>2 DEF Transition
  <1>4. /\ row'[e].status = "PENDING" /\ row'[e].attempts = 0
        /\ row'[e] \in Rows
        /\ \A d \in Events : d # e => row'[d] = row[d]
    BY <1>2, <1>3 DEF IInv, Typed, Rows, Statuses, AbsentUntouched
  <1>5. Typed'
    BY <1>1, <1>3, <1>4 DEF IInv, Typed
  <1>6. OneEventPerTransition'
    <2>1. e \notin Present BY <1>2 DEF Present
    <2>2. Present' = Present \cup {e} BY <1>4 DEF Present
    <2>3. Cardinality(Present') = Cardinality(Present) + 1 BY <2>1, <2>2, PresentGrows
    <2>4. version = Cardinality(Present) BY DEF IInv, OneEventPerTransition, Present
    <2> QED BY <1>3, <2>3, <2>4 DEF OneEventPerTransition, Present
  <1>7. CommittedOnce'
    BY <1>1, <1>3, <1>4 DEF IInv, CommittedOnce, Typed, NotRead
  <1>8. AbsentUntouched' /\ CompletingIsHandled'
    BY <1>3, <1>4 DEF IInv, AbsentUntouched, CompletingIsHandled
  <1>9. WaitingIsClaimable'
    BY <1>3, <1>4, OutboxAssumption DEF IInv, WaitingIsClaimable, Claimable, Waiting
  <1>10. DeliveredWasHandled' /\ DeadHasOpenLetter'
    BY <1>3, <1>4 DEF IInv, DeliveredWasHandled, DeadHasOpenLetter
  <1>11. Exclusive'
    BY <1>2, <1>3, <1>4 DEF IInv, Exclusive, AbsentUntouched
  <1> QED BY <1>5, <1>6, <1>7, <1>8, <1>9, <1>10, <1>11 DEF IInv

\* A lapse under a dispatcher is noted.
LEMMA LeaseLapseStep ==
  ASSUME IInv, NEW e \in Events, LeaseLapse(e)
  PROVE  IInv'
  <1>1. /\ row' = [row EXCEPT ![e].lease = "lapsed"]
        /\ late' = [late EXCEPT ![e] = late[e] \/ \E w \in Dispatchers : task[w][e] # "idle"]
        /\ UNCHANGED <<version, expected, letter, replays, task, handled>>
    BY DEF LeaseLapse
  <1>2. /\ row'[e] \in Rows
        /\ row'[e].status = row[e].status /\ row'[e].attempts = row[e].attempts
        /\ \A d \in Events : d # e => row'[d] = row[d]
    BY <1>1 DEF IInv, Typed, Rows
  <1>3. SameRows BY <1>2 DEF SameRows
  <1>3a. /\ late' \in [Events -> BOOLEAN]
         /\ \A d \in Events : d # e => late'[d] = late[d]
         /\ late'[e] = (late[e] \/ \E w \in Dispatchers : task[w][e] # "idle")
    BY <1>1, Zenon DEF IInv, Typed
  <1>4. Typed' BY <1>1, <1>2, <1>3a DEF IInv, Typed
  <1>5. AbsentUntouched' /\ CompletingIsHandled'
    BY <1>1, <1>2 DEF IInv, AbsentUntouched, CompletingIsHandled
  <1>6. WaitingIsClaimable' /\ DeliveredWasHandled' /\ DeadHasOpenLetter'
    BY <1>1, <1>2 DEF IInv, WaitingIsClaimable, Claimable, DeliveredWasHandled, DeadHasOpenLetter
  <1>7. Exclusive'
    <2> SUFFICES ASSUME NEW d \in Events, NEW v \in Dispatchers,
                        task'[v][d] # "idle", letter'[d] = "none", ~late'[d]
                 PROVE  /\ row'[d].status = "PROCESSING" /\ row'[d].lease = "live"
                        /\ \A u \in Dispatchers : u # v => task'[u][d] = "idle"
      BY DEF Exclusive
    <2>1. d # e BY <1>1, <1>3a
    <2>2. ~late[d] BY <1>3a, <2>1
    <2> QED BY <1>1, <1>2, <2>1, <2>2 DEF IInv, Exclusive
  <1> QED BY <1>1, <1>3, <1>4, <1>5, <1>6, <1>7, CountKept DEF IInv

\* A claim takes waiting and abandoned rows.
LEMMA ClaimStep ==
  ASSUME IInv, NEW w \in Dispatchers, NEW batch \in SUBSET Events, Claim(w, batch)
  PROVE  IInv'
  <1>1. /\ \A e \in batch : Claimable(e)
        /\ \A e \in Events : task[w][e] = "idle"
        /\ UNCHANGED <<version, expected, letter, replays, handled, late>>
    BY DEF Claim, IdleDispatcher
  <1>2. /\ \A e \in batch : /\ row'[e].status = "PROCESSING"
                            /\ row'[e].attempts = row[e].attempts + 1
                            /\ row'[e].lease = "live"
        /\ \A e \in Events \ batch : row'[e] = row[e]
    BY DEF Claim
  <1>3. /\ \A e \in batch : task'[w][e] = "handling"
        /\ \A e \in Events \ batch : task'[w][e] = "idle"
        /\ \A v \in Dispatchers : v # w => task'[v] = task[v]
        /\ task' \in [Dispatchers -> [Events -> Steps \cup {"idle"}]]
    BY DEF Claim, IInv, Typed, Steps
  <1>4. \A e \in Events : row'[e] \in Rows
    <2>1. row \in [Events -> Rows] /\ MaxAttempts \in Nat
      BY OutboxAssumption DEF IInv, Typed
    <2>2. ASSUME NEW e \in batch PROVE row'[e] \in Rows
      <3>1. row[e].attempts \in 0 .. MaxAttempts /\ row[e].attempts < MaxAttempts
        BY <1>1, <2>1 DEF Rows, Claimable
      <3>2. row[e].attempts + 1 \in 0 .. MaxAttempts BY <2>1, <3>1
      <3>3. row'[e] = [status |-> "PROCESSING", attempts |-> row[e].attempts + 1, lease |-> "live"]
        BY DEF Claim
      <3> QED BY <3>2, <3>3 DEF Rows, Statuses
    <2> QED BY <1>2, <2>1, <2>2
  <1>5. Typed'
    <2>1. row' \in [Events -> Rows] BY <1>4 DEF Claim
    <2> QED BY <2>1, <1>1, <1>3 DEF IInv, Typed
  <1>6. SameRows
    BY <1>1, <1>2 DEF SameRows, Claimable, Waiting
  <1>7. AbsentUntouched'
    BY <1>1, <1>2, <1>3, <1>6 DEF IInv, AbsentUntouched, SameRows
  <1>8. CompletingIsHandled'
    BY <1>1, <1>3 DEF IInv, CompletingIsHandled
  <1>9. WaitingIsClaimable' /\ DeliveredWasHandled' /\ DeadHasOpenLetter'
    BY <1>1, <1>2 DEF IInv, WaitingIsClaimable, Claimable, DeliveredWasHandled,
                      DeadHasOpenLetter, Waiting
  <1>10. Exclusive'
    <2> SUFFICES ASSUME NEW e \in Events, NEW v \in Dispatchers,
                        task'[v][e] # "idle", letter'[e] = "none", ~late'[e]
                 PROVE  /\ row'[e].status = "PROCESSING" /\ row'[e].lease = "live"
                        /\ \A u \in Dispatchers : u # v => task'[u][e] = "idle"
      BY DEF Exclusive
    <2>1. CASE e \in batch
      <3>1. \A u \in Dispatchers : task[u][e] = "idle"
        BY <1>1, <2>1 DEF IInv, Exclusive, Claimable, Waiting
      <3> QED BY <1>2, <1>3, <2>1, <3>1
    <2>2. CASE e \notin batch
      <3>1. v # w /\ task[v][e] # "idle" BY <1>3, <2>2
      <3> QED BY <1>1, <1>2, <1>3, <2>2, <3>1 DEF IInv, Exclusive
    <2> QED BY <2>1, <2>2
  <1> QED BY <1>1, <1>5, <1>6, <1>7, <1>8, <1>9, <1>10, CountKept DEF IInv

\* The handler is called on the row as it is.
LEMMA HandleStep ==
  ASSUME IInv, NEW w \in Dispatchers, NEW e \in Events, Handle(w, e)
  PROVE  IInv'
  <1>1. PICK raised \in BOOLEAN, took \in BOOLEAN :
          /\ took \/ raised
          /\ handled' = [handled EXCEPT ![e] = handled[e] \/ took]
          /\ Goto(w, e, AfterHandler(raised))
    BY DEF Handle
  <1>2. /\ UNCHANGED <<version, expected, row, letter, replays, late>>
        /\ task[w][e] = "handling"
    BY DEF Handle
  <1>3. AfterHandler(raised) \in {"completing", "failing"}
        /\ (AfterHandler(raised) = "completing" => took)
    BY <1>1 DEF AfterHandler
  <1>4. /\ task' \in [Dispatchers -> [Events -> Steps \cup {"idle"}]]
        /\ task'[w][e] = AfterHandler(raised)
        /\ \A v \in Dispatchers, d \in Events :
             (v # w \/ d # e) => task'[v][d] = task[v][d]
    BY <1>1, <1>3, GotoEffect DEF IInv, Steps
  <1>5. /\ handled' \in [Events -> BOOLEAN]
        /\ \A d \in Events : handled[d] => handled'[d]
        /\ took => handled'[e]
    BY <1>1, Zenon DEF IInv, Typed
  <1>6. \A v \in Dispatchers, d \in Events : task'[v][d] = "idle" <=> task[v][d] = "idle"
    BY <1>2, <1>3, <1>4
  <1>7. Typed' BY <1>2, <1>4, <1>5 DEF IInv, Typed
  <1>8. SameRows BY <1>2 DEF SameRows
  <1>9. AbsentUntouched' /\ Exclusive'
    BY <1>2, <1>6 DEF IInv, AbsentUntouched, Exclusive
  <1>10. CompletingIsHandled'
    BY <1>3, <1>4, <1>5 DEF IInv, CompletingIsHandled
  <1>11. WaitingIsClaimable' /\ DeliveredWasHandled' /\ DeadHasOpenLetter'
    BY <1>2, <1>5 DEF IInv, WaitingIsClaimable, Claimable, DeliveredWasHandled, DeadHasOpenLetter
  <1> QED BY <1>2, <1>7, <1>8, <1>9, <1>10, <1>11, CountKept DEF IInv

\* Fewer dispatchers at work: CallFails and Crash.
LEMMA GivingUpStep ==
  ASSUME IInv, UNCHANGED <<version, expected, row, letter, replays, handled, late>>,
         task' \in [Dispatchers -> [Events -> Steps \cup {"idle"}]],
         \A v \in Dispatchers, d \in Events : task'[v][d] \in {task[v][d], "idle"}
  PROVE  IInv'
  <1>1. Typed' BY DEF IInv, Typed
  <1>2. SameRows BY DEF SameRows
  <1>3. AbsentUntouched' BY DEF IInv, AbsentUntouched
  <1>4. CompletingIsHandled' BY DEF IInv, CompletingIsHandled
  <1>5. Exclusive' BY DEF IInv, Exclusive
  <1>6. WaitingIsClaimable' /\ DeliveredWasHandled' /\ DeadHasOpenLetter'
    BY DEF IInv, WaitingIsClaimable, Claimable, DeliveredWasHandled, DeadHasOpenLetter
  <1> QED BY <1>1, <1>2, <1>3, <1>4, <1>5, <1>6, CountKept DEF IInv

\* Delivered by a dispatcher whose handler took the event.
LEMMA CompleteStep ==
  ASSUME IInv, NEW w \in Dispatchers, NEW e \in Events, Complete(w, e)
  PROVE  IInv'
  <1>1. /\ task[w][e] = "completing"
        /\ row' = [row EXCEPT ![e].status = "DELIVERED"]
        /\ Goto(w, e, "idle")
        /\ UNCHANGED <<version, expected, letter, replays, handled, late>>
    BY DEF Complete
  <1>2. /\ task' \in [Dispatchers -> [Events -> Steps \cup {"idle"}]]
        /\ task'[w][e] = "idle"
        /\ \A v \in Dispatchers, d \in Events :
             (v # w \/ d # e) => task'[v][d] = task[v][d]
    BY <1>1, GotoEffect DEF IInv
  <1>3. /\ row'[e].status = "DELIVERED" /\ row'[e] \in Rows
        /\ row' \in [Events -> Rows]
        /\ \A d \in Events : d # e => row'[d] = row[d]
    BY <1>1 DEF IInv, Typed, Rows, Statuses
  <1>4. row[e].status # "ABSENT" /\ handled[e]
    BY <1>1 DEF IInv, AbsentUntouched, CompletingIsHandled
  <1>5. Typed' BY <1>1, <1>2, <1>3 DEF IInv, Typed
  <1>6. SameRows BY <1>3, <1>4 DEF SameRows
  <1>7. CompletingIsHandled'
    BY <1>1, <1>2 DEF IInv, CompletingIsHandled
  <1>7a. AbsentUntouched'
    BY <1>1, <1>2, <1>3, <1>4, <1>6 DEF IInv, AbsentUntouched, SameRows
  <1>8. WaitingIsClaimable' /\ DeliveredWasHandled' /\ DeadHasOpenLetter'
    BY <1>1, <1>3, <1>4 DEF IInv, WaitingIsClaimable, Claimable, DeliveredWasHandled,
                            DeadHasOpenLetter, Waiting
  <1>9. Exclusive'
    BY <1>1, <1>2, <1>3 DEF IInv, Exclusive
  <1> QED BY <1>1, <1>5, <1>6, <1>7, <1>7a, <1>8, <1>9, CountKept DEF IInv

\* Failed: a retry within reach, or a letter.
LEMMA FailStep ==
  ASSUME IInv, NEW w \in Dispatchers, NEW e \in Events, Fail(w, e)
  PROVE  IInv'
  <1>1. /\ task[w][e] = "failing"
        /\ Goto(w, e, "idle")
        /\ UNCHANGED <<version, expected, replays, handled, late>>
    BY DEF Fail
  <1>2. /\ task' \in [Dispatchers -> [Events -> Steps \cup {"idle"}]]
        /\ task'[w][e] = "idle"
        /\ \A v \in Dispatchers, d \in Events :
             (v # w \/ d # e) => task'[v][d] = task[v][d]
    BY <1>1, GotoEffect DEF IInv
  <1>3. /\ row' \in [Events -> Rows]
        /\ letter' \in [Events -> {"none", "OPEN", "REPLAYED"}]
        /\ \A d \in Events : d # e => row'[d] = row[d] /\ letter'[d] = letter[d]
        /\ \/ row'[e].status = "DEAD" /\ letter'[e] = "OPEN"
           \/ /\ row'[e].status = "RETRY" /\ row'[e].attempts < MaxAttempts
              /\ letter'[e] = letter[e]
    <2>1. CASE Exhausted(e) /\ letter' = [letter EXCEPT ![e] = "OPEN"]
               /\ row' = [row EXCEPT ![e].status = "DEAD"]
      BY <2>1 DEF IInv, Typed, Rows, Statuses
    <2>2. CASE ~Exhausted(e) /\ UNCHANGED letter
               /\ row' = [row EXCEPT ![e].status = "RETRY", ![e].lease = "null"]
      <3>1. row \in [Events -> Rows] /\ MaxAttempts \in Nat
        BY OutboxAssumption DEF IInv, Typed
      <3>2. row[e].attempts \in 0 .. MaxAttempts /\ row[e].attempts < MaxAttempts
        BY <2>2, <3>1 DEF Rows, Exhausted
      <3>3. row'[e] = [row[e] EXCEPT !.status = "RETRY", !.lease = "null"]
            /\ row' = [row EXCEPT ![e] = [row[e] EXCEPT !.status = "RETRY", !.lease = "null"]]
        BY <2>2, <3>1, Zenon
      <3>4. row'[e] \in Rows /\ row'[e].status = "RETRY" /\ row'[e].attempts = row[e].attempts
        BY <3>1, <3>3 DEF Rows, Statuses
      <3>5. row' \in [Events -> Rows] /\ \A d \in Events : d # e => row'[d] = row[d]
        BY <3>1, <3>3, <3>4
      <3> QED BY <2>2, <3>2, <3>4, <3>5 DEF IInv, Typed
    <2> QED BY <2>1, <2>2 DEF Fail, LetterOf
  <1>4. row[e].status # "ABSENT"
    BY <1>1 DEF IInv, AbsentUntouched
  <1>5. Typed' BY <1>1, <1>2, <1>3 DEF IInv, Typed
  <1>6. SameRows BY <1>3, <1>4 DEF SameRows
  <1>7. AbsentUntouched' /\ CompletingIsHandled'
    BY <1>1, <1>2, <1>3 DEF IInv, AbsentUntouched, CompletingIsHandled
  <1>8. WaitingIsClaimable' /\ DeliveredWasHandled' /\ DeadHasOpenLetter'
    BY <1>1, <1>3 DEF IInv, WaitingIsClaimable, Claimable, DeliveredWasHandled,
                      DeadHasOpenLetter, Waiting
  <1>9. Exclusive'
    BY <1>1, <1>2, <1>3 DEF IInv, Exclusive
  <1> QED BY <1>1, <1>5, <1>6, <1>7, <1>8, <1>9, CountKept DEF IInv

\* A replayed row waits with no attempt used.
LEMMA ReplayStep ==
  ASSUME IInv, NEW e \in Events, Replay(e)
  PROVE  IInv'
  <1>1. /\ letter[e] # "none"
        /\ row' = [row EXCEPT ![e] = [status |-> "RETRY", attempts |-> 0, lease |-> "null"]]
        /\ letter' = [letter EXCEPT ![e] = "REPLAYED"]
        /\ replays[e] < MaxReplays
        /\ replays' = [replays EXCEPT ![e] = replays[e] + 1]
        /\ UNCHANGED <<version, expected, task, handled, late>>
    BY DEF Replay
  <1>2. /\ row' \in [Events -> Rows]
        /\ row'[e].status = "RETRY" /\ row'[e].attempts = 0
        /\ letter' \in [Events -> {"none", "OPEN", "REPLAYED"}]
        /\ letter'[e] = "REPLAYED"
        /\ \A d \in Events : d # e => row'[d] = row[d] /\ letter'[d] = letter[d]
    BY <1>1, OutboxAssumption DEF IInv, Typed, Rows, Statuses
  <1>3. replays' \in [Events -> 0 .. MaxReplays]
    BY <1>1, OutboxAssumption DEF IInv, Typed
  <1>4. row[e].status # "ABSENT"
    BY <1>1 DEF IInv, AbsentUntouched
  <1>5. Typed' BY <1>1, <1>2, <1>3 DEF IInv, Typed
  <1>6. SameRows BY <1>2, <1>4 DEF SameRows
  <1>7. AbsentUntouched' /\ CompletingIsHandled'
    BY <1>1, <1>2 DEF IInv, AbsentUntouched, CompletingIsHandled
  <1>8. WaitingIsClaimable' /\ DeliveredWasHandled' /\ DeadHasOpenLetter'
    BY <1>1, <1>2, OutboxAssumption
    DEF IInv, WaitingIsClaimable, Claimable, DeliveredWasHandled, DeadHasOpenLetter, Waiting
  <1>9. Exclusive'
    BY <1>1, <1>2 DEF IInv, Exclusive
  <1> QED BY <1>1, <1>5, <1>6, <1>7, <1>8, <1>9, CountKept DEF IInv

\* Every step keeps the inductive invariant.
LEMMA NextInv == IInv /\ [Next]_vars => IInv'
  <1> SUFFICES ASSUME IInv, [Next]_vars PROVE IInv' OBVIOUS
  <1>1. CASE \E e \in Events : ReadState(e) \/ Transition(e) \/ LeaseLapse(e) \/ Replay(e)
    BY <1>1, ReadStateStep, TransitionStep, LeaseLapseStep, ReplayStep
  <1>2. CASE \E w \in Dispatchers, e \in Events : Dispatch(w, e)
    BY <1>2, HandleStep, CompleteStep, FailStep DEF Dispatch
  <1>3. ASSUME NEW w \in Dispatchers, NEW e \in Events, CallFails(w, e) PROVE IInv'
    <2>1. Goto(w, e, "idle") /\ UNCHANGED <<version, expected, row, letter, replays, handled, late>>
      BY <1>3 DEF CallFails
    <2>2. /\ task' \in [Dispatchers -> [Events -> Steps \cup {"idle"}]]
          /\ \A v \in Dispatchers, d \in Events : task'[v][d] \in {task[v][d], "idle"}
      BY <2>1, GotoEffect DEF IInv
    <2> QED BY <2>1, <2>2, GivingUpStep
  <1>4. ASSUME NEW w \in Dispatchers, Crash(w) PROVE IInv'
    <2>1. /\ task' = [task EXCEPT ![w] = IdleDispatcher]
          /\ UNCHANGED <<version, expected, row, letter, replays, handled, late>>
      BY <1>4 DEF Crash
    <2>2. /\ task' \in [Dispatchers -> [Events -> Steps \cup {"idle"}]]
          /\ \A v \in Dispatchers, d \in Events : task'[v][d] \in {task[v][d], "idle"}
      BY <2>1 DEF IInv, Typed, IdleDispatcher
    <2> QED BY <2>1, <2>2, GivingUpStep
  <1>5. CASE \E w \in Dispatchers : \E batch \in SUBSET Events : Claim(w, batch)
    BY <1>5, ClaimStep
  <1>6. CASE UNCHANGED vars
    <2>1. /\ UNCHANGED <<version, expected, row, letter, replays, handled, late>>
          /\ task' \in [Dispatchers -> [Events -> Steps \cup {"idle"}]]
          /\ \A v \in Dispatchers, d \in Events : task'[v][d] \in {task[v][d], "idle"}
      BY <1>6 DEF vars, IInv, Typed
    <2> QED BY <2>1, GivingUpStep
  <1> QED BY <1>1, <1>2, <1>3, <1>4, <1>5, <1>6 DEF Next

\* The inductive invariant is an invariant.
LEMMA Invariance == Spec => []IInv
  BY InitInv, NextInv, PTL DEF Spec

-----------------------------------------------------------------------------
(* Results *)

\* Every variable of the outbox keeps its type; no row is handed out more than
\* max_attempts times between two replays.
THEOREM TypeCorrect == Spec => []TypeOK
  <1>1. IInv => TypeOK
    <2> SUFFICES ASSUME IInv PROVE TypeOK OBVIOUS
    <2>1. version \in 0 .. Cardinality(Events) /\ version < NotRead
          /\ Cardinality(Events) \in Nat
      BY VersionBound, OutboxAssumption, FS_CardinalityType DEF IInv, Typed
    <2>2. \A e \in Events : expected[e] \in 0 .. NotRead
      BY <2>1 DEF IInv, CommittedOnce, Typed, NotRead
    <2> QED BY <2>1, <2>2 DEF IInv, Typed, TypeOK
  <1> QED BY <1>1, Invariance, PTL

\* The transactional outbox of transition_publish_state: transitions and
\* events correspond, one to one.
THEOREM EventsMatchTransitions == Spec => []OneEventPerTransition
  <1>1. IInv => OneEventPerTransition BY DEF IInv
  <1> QED BY <1>1, Invariance, PTL

\* fail_outbox and replay_dead_letter put no row back that claim_outbox_v2
\* would never return.
THEOREM RetriesStayClaimable == Spec => []WaitingIsClaimable
  <1>1. IInv => WaitingIsClaimable BY DEF IInv
  <1> QED BY <1>1, Invariance, PTL

\* complete_outbox is never told a delivery that did not happen.
THEOREM DeliveriesHappened == Spec => []DeliveredWasHandled
  <1>1. IInv => DeliveredWasHandled BY DEF IInv
  <1> QED BY <1>1, Invariance, PTL

\* A buried row always has its open dead letter.
THEOREM BuriedWithLetter == Spec => []DeadHasOpenLetter
  <1>1. IInv => DeadHasOpenLetter BY DEF IInv
  <1> QED BY <1>1, Invariance, PTL

\* No event is dispatched twice at once unless its lease lapsed under a
\* dispatcher or its dead letter was replayed.
THEOREM NoDoubleDispatch == Spec => []OneDispatchPerEvent
  <1>1. IInv => OneDispatchPerEvent BY DEF IInv, Exclusive, OneDispatchPerEvent
  <1> QED BY <1>1, Invariance, PTL

\* A delivered event stays delivered, with the same exceptions.
THEOREM DeliveryIsFinal == Spec => DeliveredStays
  <1>1. IInv /\ [Next]_vars =>
          \A e \in Events : (row[e].status = "DELIVERED" /\ letter[e] = "none" /\ ~late[e])
                              => row'[e].status = "DELIVERED"
    <2> SUFFICES ASSUME IInv, [Next]_vars, NEW e \in Events,
                        row[e].status = "DELIVERED", letter[e] = "none", ~late[e]
                 PROVE  row'[e].status = "DELIVERED"
      OBVIOUS
    <2>1. \A w \in Dispatchers : task[w][e] = "idle"
      BY DEF IInv, Exclusive
    <2>2. row \in [Events -> Rows] BY DEF IInv, Typed
    <2>3. ASSUME NEW d \in Events, ReadState(d) \/ Transition(d) \/ LeaseLapse(d)
          PROVE row'[e].status = "DELIVERED"
      BY <2>2, <2>3 DEF ReadState, Transition, LeaseLapse, Rows
    <2>4. ASSUME NEW d \in Events, Replay(d) PROVE row'[e].status = "DELIVERED"
      BY <2>2, <2>4 DEF Replay
    <2>5. ASSUME NEW w \in Dispatchers, NEW d \in Events, Dispatch(w, d) \/ CallFails(w, d)
          PROVE row'[e].status = "DELIVERED"
      BY <2>1, <2>2, <2>5 DEF Dispatch, Handle, Complete, Fail, CallFails
    <2>6. ASSUME NEW w \in Dispatchers, Crash(w) PROVE row'[e].status = "DELIVERED"
      BY <2>6 DEF Crash
    <2>7. ASSUME NEW w \in Dispatchers, NEW batch \in SUBSET Events, Claim(w, batch)
          PROVE row'[e].status = "DELIVERED"
      BY <2>7 DEF Claim, Claimable, Waiting
    <2>8. CASE UNCHANGED vars BY <2>8 DEF vars
    <2> QED BY <2>3, <2>4, <2>5, <2>6, <2>7, <2>8 DEF Next
  <1>2. Spec => [][IInv /\ [Next]_vars]_vars
    BY Invariance, PTL DEF Spec
  <1> QED BY <1>1, <1>2, PTL DEF DeliveredStays
=============================================================================
