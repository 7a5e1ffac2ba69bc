--------------------------- MODULE Enterprise_proofs ---------------------------
(***************************************************************************)
(* Proofs about what stands around a note and a call, for every value of   *)
(* the constants: the gates a note passes on its way to the platform, the  *)
(* tasks of the agent doors and the suspension of a tenant, the approvals  *)
(* of an enterprise and their audit trail, who its identity provider lets  *)
(* in, the pool that its stores share and the budget of a tenant.  The     *)
(* last part carries theorems over to the sum of the components.           *)
(***************************************************************************)
EXTENDS MCComponents, PublishService_proofs,
        WellFoundedInduction, FiniteSetTheorems, SequenceTheorems, TLAPS

(***************************************************************************)
(* The way of a note.                                                      *)
(***************************************************************************)

Notes == [found : 0..MaxNotes, backed : SUBSET Claims, text : Texts,
          carried : SUBSET (1..MaxNotes), own : SUBSET Claims,
          provider : Nat, tried : Nat, edits : Nat]

\* The references of the package are evidence of the request or the owner's own,
\* and there are none before the text is judged.
NoteIInv ==
    /\ note \in Notes
    /\ verdict.refs \subseteq note.backed \cup note.own
    /\ step \in {"requested", "asking", "written"} => verdict.refs = {}

\* There is a text: the empty one.
LEMMA SomeText ==
    ASSUME MaxNotes \in Nat
    PROVE  (CHOOSE t \in Texts : TRUE) \in Texts
<1>1. [title |-> {}, body |-> {}, banned |-> FALSE, echo |-> 0, literal |-> FALSE] \in Texts
  BY DEF Texts
<1> QED BY <1>1

\* The initial state satisfies the inductive invariant of the note.
LEMMA NoteInitEstablishes == NoteInit => NoteIInv
BY SomeText, NotesAssumption DEF NoteInit, NoteIInv, Notes

\* Every step of the note keeps its inductive invariant: only the request sets
\* what is backed, what the owner adds is his own, and every gate keeps references
\* or drops some.
LEMMA NoteStepPreserves == NoteIInv /\ [NoteNext]_noteVars => NoteIInv'
<1> SUFFICES ASSUME NoteIInv, [NoteNext]_noteVars PROVE NoteIInv'
  OBVIOUS
<1> USE DEF NoteIInv
<1>1. CASE UNCHANGED noteVars \/ Ended
  BY <1>1 DEF noteVars, Ended
<1>2. CASE Prepare
  <2>1. PICK found \in 0..MaxNotes, backed \in SUBSET Claims, text \in Texts :
           note' = [note EXCEPT !.found = found, !.backed = backed, !.text = text]
    BY <1>2 DEF Prepare, Writable
  <2>2. note' \in Notes
    BY <2>1 DEF Notes
  <2> QED BY <1>2, <2>2 DEF Prepare
<1>3. CASE ProviderFails
  BY <1>3 DEF ProviderFails, Notes
<1>4. CASE ProviderAnswers
  <2>1. PICK text \in Writable(note.found), hasBody \in BOOLEAN :
           note' = [note EXCEPT !.text = IF hasBody THEN text
                                         ELSE [note.text EXCEPT !.title = text.title],
                                !.provider = note.tried + 1, !.tried = note.tried + 1]
    BY <1>4 DEF ProviderAnswers
  <2>2. text \in Texts /\ [note.text EXCEPT !.title = text.title] \in Texts
    BY DEF Writable, Texts, Notes
  <2>3. PICK x \in Texts, n \in Nat :
           note' = [note EXCEPT !.text = x, !.provider = n, !.tried = n]
    <3>1. note.tried + 1 \in Nat
      BY DEF Notes
    <3> QED BY <2>1, <2>2, <3>1
  <2>4. note' \in Notes /\ note'.backed = note.backed /\ note'.own = note.own
    BY <2>3 DEF Notes
  <2> QED BY <1>4, <2>4 DEF ProviderAnswers
<1>5. CASE FallsBack \/ Gate \/ FromHot
  BY <1>5 DEF FallsBack, Gate, FromHot
<1>6. CASE Deliver
  <2>1. GenerationVerdict(note.text).refs \subseteq note.backed
    BY DEF GenerationVerdict, Verified
  <2>2. CASE UNCHANGED <<note, verdict>> /\ step' = "failed"
    BY <2>2
  <2>3. CASE /\ note' = [note EXCEPT !.carried = {k \in 1..note.found : k <= Carried}]
             /\ verdict' = GenerationVerdict(note.text) /\ step' = "generated"
    <3>1. {k \in 1..note.found : k <= Carried} \subseteq 1..MaxNotes
      BY NotesAssumption DEF Notes
    <3>2. note' \in Notes /\ note'.backed = note.backed /\ note'.own = note.own
      BY <2>3, <3>1 DEF Notes
    <3> QED BY <2>1, <2>3, <3>2
  <2> QED BY <1>6, <2>2, <2>3 DEF Deliver
<1>7. CASE Edit
  <2>0. PICK own \in SUBSET Claims :
           /\ \E text \in Writable(note.found), carried \in SUBSET note.carried :
                note' = [note EXCEPT !.text = text, !.carried = carried,
                                     !.own = note.own \cup own, !.edits = note.edits + 1]
           /\ \E left \in SUBSET verdict.refs, blocked \in BOOLEAN :
                verdict' = [refs |-> left \cup own, blocked |-> blocked]
    BY <1>7 DEF Edit
  <2>1. PICK text \in Writable(note.found), carried \in SUBSET note.carried :
           note' = [note EXCEPT !.text = text, !.carried = carried,
                                !.own = note.own \cup own, !.edits = note.edits + 1]
    BY <2>0
  <2>2. PICK x \in Texts, c \in SUBSET (1..MaxNotes), o \in SUBSET Claims, n \in Nat :
           /\ note' = [note EXCEPT !.text = x, !.carried = c, !.own = o, !.edits = n]
           /\ o = note.own \cup own
    <3>1. note.edits + 1 \in Nat /\ text \in Texts /\ carried \in SUBSET (1..MaxNotes)
          /\ note.own \cup own \in SUBSET Claims
      BY DEF Notes, Writable
    <3> QED BY <2>1, <3>1
  <2>3. note' \in Notes /\ note'.backed = note.backed /\ note'.own = note.own \cup own
    BY <2>2 DEF Notes
  <2>4. verdict'.refs \subseteq note'.backed \cup note'.own
    BY <2>0, <2>3
  <2> QED BY <1>7, <2>3, <2>4 DEF Edit
<1>8. CASE CreateDraft \/ ApproveNote \/ SubmitNote
  <2>1. \A semantic : Reverified(note.text, verdict.refs, semantic).refs \subseteq note.backed \cup note.own
    BY DEF Reverified, Verified
  <2>2. /\ note' = note /\ step' \in {"drafted", "approved", "submitted", "refused"}
        /\ \E semantic : verdict' = Reverified(note.text, verdict.refs, semantic)
    BY <1>8 DEF CreateDraft, ApproveNote, SubmitNote
  <2> QED BY <2>1, <2>2
<1>9. CASE EmbedderTurns \/ CoverDeleted \/ \E c \in evidence : Expires(c)
  BY <1>9 DEF EmbedderTurns, CoverDeleted, Expires
<1> QED BY <1>1, <1>2, <1>3, <1>4, <1>5, <1>6, <1>7, <1>8, <1>9 DEF NoteNext

\* The inductive invariant of the note holds in every behaviour.
THEOREM NoteInvariance == NoteSpec => []NoteIInv
BY NoteInitEstablishes, NoteStepPreserves, PTL DEF NoteSpec

\* A text is submitted only past a gate that has just judged it, whatever package
\* its owner brought back: no claim without evidence of the request or of his own
\* that is valid at that moment, no banned phrase, no close echo of a note left in
\* the package, no deleted cover (publication_gate.py, service.py).
THEOREM NoteStandsWhenSubmitted == NoteSpec => SubmittedNoteStands
<1> DEFINE Stands == step' = "submitted" /\ step # "submitted" =>
         /\ note.text.title \cup note.text.body \subseteq (note.backed \cup note.own) \cap evidence
         /\ ~note.text.banned
         /\ ~TooClose(note.text, note.carried, embedder)
         /\ cover # "deleted"
<1>1. NoteIInv /\ [NoteNext]_noteVars => Stands
  <2> SUFFICES ASSUME NoteIInv, [NoteNext]_noteVars, step' = "submitted", step # "submitted"
               PROVE  Stands
    OBVIOUS
  <2>1. SubmitNote
    BY DEF NoteNext, noteVars, Prepare, ProviderFails, ProviderAnswers, FallsBack, Deliver,
           Gate, FromHot, Edit, CreateDraft, ApproveNote, Expires, EmbedderTurns,
           CoverDeleted, Ended
  <2>2. /\ Publishable(Reverified(note.text, verdict.refs, embedder)) /\ CoverResolves
    BY <2>1 DEF SubmitNote
  <2> QED BY <2>2 DEF NoteIInv, Publishable, Reverified, Verified, CoverResolves
<1>2. [][Stands]_noteVars => SubmittedNoteStands
  BY PTL DEF SubmittedNoteStands
<1> QED BY <1>1, <1>2, NoteInvariance, PTL DEF NoteSpec

-----------------------------------------------------------------------------
(***************************************************************************)
(* The doors of the agents.                                                *)
(***************************************************************************)

OpenCalls == [stage : {"asked", "running", "acted"}, door : {"mcp", "a2a"},
              who : Principals, tool : {r[2] : r \in Asked}]
EndedCalls == [stage : {"done"}, door : {"mcp", "a2a"}]

\* The handler of an evaluated tool that runs although its tenant is suspended
\* was running when it was suspended.
SuspendedWorkIsOld ==
    \A id \in CallIds :
        /\ calls[id].stage = "running"
        /\ Evaluated(calls[id].tool) /\ calls[id].who.tenant \notin activeTenants
        => id \in ownFlight

\* Only a call under way is being cancelled.
OnlyOpenCallsStop == \A id \in cancelled : id \in CallIds /\ Unfinished(id)

GatewayIInv ==
    /\ calls \in [CallIds -> {NoCall} \cup OpenCalls \cup EndedCalls]
    /\ taskTable \subseteq CallIds
    /\ OnlyOpenCallsStop
    /\ SuspendedWorkIsOld
    /\ ForgottenTasksStop

\* The initial state satisfies the inductive invariant of the doors.
LEMMA GatewayInitEstablishes == GatewayInit => GatewayIInv
BY DEF GatewayInit, GatewayIInv, SuspendedWorkIsOld, ForgottenTasksStop, OnlyOpenCallsStop,
       NoCall, OfA2A

\* What has not ended is a call with all its fields, and the other way round.
LEMMA CallShape ==
    ASSUME GatewayIInv, NEW id \in CallIds
    PROVE  /\ Unfinished(id) <=> calls[id] \in OpenCalls
           /\ Unfinished(id) => calls[id].who.tenant \in CallTenants
BY DEF GatewayIInv, Unfinished, OpenCalls, EndedCalls, NoCall, CallTenants, Principals

\* A step changes one call; the invariant holds of the others as long as what
\* leaves the table is cancelled, nothing is restored to life, and no tenant
\* and nothing in flight is forgotten.
LEMMA OneCallKeeps ==
    ASSUME GatewayIInv, NEW id \in CallIds,
           NEW c \in {NoCall} \cup OpenCalls \cup EndedCalls,
           calls' = [calls EXCEPT ![id] = c],
           \A i \in CallIds \ {id} : OfA2A(i) /\ Unfinished(i) /\ i \in taskTable \cup cancelled
               => i \in taskTable' \cup cancelled',
           c.stage \in {"asked", "running", "acted"} /\ c.door = "a2a"
               => id \in taskTable' \cup cancelled',
           taskTable' \subseteq CallIds, cancelled' \subseteq CallIds,
           \A i \in cancelled' \ {id} : Unfinished(i),
           id \in cancelled' => c.stage \in {"asked", "running", "acted"},
           activeTenants' = activeTenants, ownFlight' = ownFlight,
           c.stage = "running" /\ Evaluated(c.tool) => c.who.tenant \in activeTenants
    PROVE  GatewayIInv'
<1>1. calls' \in [CallIds -> {NoCall} \cup OpenCalls \cup EndedCalls] /\ calls'[id] = c
      /\ \A i \in CallIds \ {id} : calls'[i] = calls[i]
  BY DEF GatewayIInv
<1>2. SuspendedWorkIsOld'
  BY <1>1 DEF GatewayIInv, SuspendedWorkIsOld
<1>3. ASSUME NEW i \in CallIds, OfA2A(i)', Unfinished(i)'
      PROVE  i \in taskTable' \cup cancelled'
  <2>1. CASE i = id
    BY <1>1, <1>3, <2>1 DEF OfA2A, Unfinished
  <2>2. CASE i # id
    <3>1. OfA2A(i) /\ Unfinished(i)
      BY <1>1, <1>3, <2>2 DEF OfA2A, Unfinished
    <3> QED BY <2>2, <3>1 DEF GatewayIInv, ForgottenTasksStop
  <2> QED BY <2>1, <2>2
<1>4. OnlyOpenCallsStop'
  BY <1>1 DEF OnlyOpenCallsStop, Unfinished
<1> QED BY <1>1, <1>2, <1>3, <1>4 DEF GatewayIInv, ForgottenTasksStop

\* A step that changes no call keeps the invariant if what leaves the table
\* unfinished is cancelled.
LEMMA NoCallKeeps ==
    ASSUME GatewayIInv, calls' = calls,
           \A i \in CallIds : Unfinished(i) /\ i \in taskTable \cup cancelled
               => i \in taskTable' \cup cancelled',
           taskTable' \subseteq CallIds,
           \A i \in cancelled' : i \in CallIds /\ Unfinished(i),
           SuspendedWorkIsOld'
    PROVE  GatewayIInv'
BY DEF GatewayIInv, ForgottenTasksStop, OnlyOpenCallsStop, OfA2A, Unfinished

\* A clean-up cancels what it drops at work, and nothing that has ended.
LEMMA CleanUpStops ==
    ASSUME GatewayIInv
    PROVE  /\ Kept \subseteq CallIds
           /\ \A i \in taskTable \cup cancelled : Unfinished(i) => i \in Kept \cup Stops(Kept)
           /\ \A i \in Stops(Kept) : i \in CallIds /\ Unfinished(i)
BY DEF Stops, Kept, GatewayIInv, OnlyOpenCallsStop

\* An open call keeps its fields when its stage moves on.
LEMMA StageMoves ==
    ASSUME GatewayIInv, NEW id \in CallIds, Unfinished(id),
           NEW stage \in {"asked", "running", "acted"}
    PROVE  LET c == [calls[id] EXCEPT !.stage = stage]
           IN  /\ c \in OpenCalls /\ c.stage = stage
               /\ c.door = calls[id].door /\ c.who = calls[id].who /\ c.tool = calls[id].tool
               /\ [calls EXCEPT ![id].stage = stage] = [calls EXCEPT ![id] = c]
<1>1. calls[id] \in OpenCalls
  BY CallShape
<1> QED BY <1>1 DEF OpenCalls

\* A new call takes its place in the table, after the clean-up.
LEMMA AskKeeps ==
    ASSUME GatewayIInv, NEW r \in Asked, AskMcp(r[1], r[2]) \/ AskA2A(r[1], r[2])
    PROVE  GatewayIInv'
<1>1. \A door \in {"mcp", "a2a"} : LET c == NewCall(door, r[1], r[2])
                                  IN  c \in OpenCalls /\ c.stage = "asked" /\ c.door = door
  BY DEF NewCall, OpenCalls, Principals
<1>2. PICK id \in CallIds : id = NextId
  BY DEF AskMcp, AskA2A
<1>3. CASE AskMcp(r[1], r[2])
  BY <1>1, <1>2, <1>3, OneCallKeeps DEF AskMcp, GatewayIInv, OnlyOpenCallsStop
<1>4. CASE AskA2A(r[1], r[2])
  <2>1. taskTable' = Kept \cup {id} /\ cancelled' = Stops(Kept)
        /\ calls' = [calls EXCEPT ![id] = NewCall("a2a", r[1], r[2])]
        /\ activeTenants' = activeTenants /\ ownFlight' = ownFlight
    BY <1>2, <1>4 DEF AskA2A
  <2>2. /\ taskTable' \subseteq CallIds /\ cancelled' \subseteq CallIds
        /\ \A i \in taskTable \cup cancelled : Unfinished(i) => i \in taskTable' \cup cancelled'
        /\ \A i \in cancelled' : Unfinished(i)
    BY <2>1, CleanUpStops
  <2> QED BY <1>1, <2>1, <2>2, OneCallKeeps
<1> QED BY <1>3, <1>4

\* A call that ends, by an answer or an interruption, leaves the others alone.
LEMMA EndKeeps ==
    ASSUME GatewayIInv, NEW id \in CallIds, Unfinished(id),
           calls' = [calls EXCEPT ![id] = EndedCall(id)],
           taskTable' = taskTable, cancelled' = cancelled \ {id},
           activeTenants' = activeTenants, ownFlight' = ownFlight
    PROVE  GatewayIInv'
<1>1. EndedCall(id) \in EndedCalls /\ EndedCall(id).stage = "done"
  BY CallShape DEF EndedCall, EndedCalls, OpenCalls
<1> QED BY <1>1, OneCallKeeps DEF GatewayIInv, OnlyOpenCallsStop

\* The checks let a call of an evaluated tool run only for an active tenant.
LEMMA PassChecksKeeps ==
    ASSUME GatewayIInv, NEW id \in CallIds, PassChecks(id)
    PROVE  GatewayIInv'
<1>1. Unfinished(id) /\ calls[id] \in OpenCalls
  BY CallShape DEF PassChecks, Unfinished
<1>2. CASE \E result, told : Answer(id, result, told)
  BY <1>1, <1>2, EndKeeps DEF PassChecks, Answer
<1>3. CASE ~ \E result, told : Answer(id, result, told)
  <2>1. PICK provider \in Models \cup {Unnamed}, approved \in BOOLEAN :
          /\ Permitted(calls[id].who, calls[id].tool, provider, approved)
          /\ calls' = [calls EXCEPT ![id].stage = "running"]
    BY <1>3 DEF PassChecks
  <2>2. PICK c : c = [calls[id] EXCEPT !.stage = "running"]
    OBVIOUS
  <2>3. c \in OpenCalls /\ c.stage = "running" /\ c.door = calls[id].door
        /\ c.who = calls[id].who /\ c.tool = calls[id].tool
        /\ calls' = [calls EXCEPT ![id] = c]
    BY <1>1, <2>1, <2>2, StageMoves
  <2>4. Evaluated(c.tool) => c.who.tenant \in activeTenants
    BY <2>1, <2>3 DEF Permitted, Evaluate
  <2>5. c.door = "a2a" => id \in taskTable \cup cancelled
    BY <1>1, <2>3 DEF GatewayIInv, ForgottenTasksStop, OfA2A, Unfinished
  <2> QED BY <1>3, <2>3, <2>4, <2>5, OneCallKeeps DEF PassChecks, GatewayIInv, OnlyOpenCallsStop
<1> QED BY <1>2, <1>3

\* A handler that acts goes on as the call it was.
LEMMA ActKeeps ==
    ASSUME GatewayIInv, NEW id \in CallIds, Act(id)
    PROVE  GatewayIInv'
<1>1. Unfinished(id) /\ calls[id] \in OpenCalls
  BY CallShape DEF Act, Unfinished
<1>2. PICK c : c = [calls[id] EXCEPT !.stage = "acted"]
  OBVIOUS
<1>3. c \in OpenCalls /\ c.stage = "acted" /\ c.door = calls[id].door
      /\ calls' = [calls EXCEPT ![id] = c]
  BY <1>1, <1>2, StageMoves DEF Act
<1>4. c.door = "a2a" => id \in taskTable \cup cancelled
  BY <1>1, <1>3 DEF GatewayIInv, ForgottenTasksStop, OfA2A, Unfinished
<1> QED BY <1>3, <1>4, OneCallKeeps DEF Act, GatewayIInv, OnlyOpenCallsStop

\* Suspending a tenant notes its running handlers, reinstating it forgets them
\* and keeps those of the tenants that stay suspended.
LEMMA SuspensionKeeps ==
    ASSUME GatewayIInv, NEW t \in CallTenants, Suspend(t) \/ Reinstate(t)
    PROVE  GatewayIInv'
<1>1. calls' = calls /\ taskTable' = taskTable /\ cancelled' = cancelled
  BY DEF Suspend, Reinstate, taskVars
<1>2. ASSUME NEW id \in CallIds, calls[id].stage = "running", Evaluated(calls[id].tool),
             calls[id].who.tenant \notin activeTenants'
      PROVE  id \in ownFlight'
  <2>1. calls[id].who.tenant \in CallTenants
    BY <1>2, CallShape DEF Unfinished
  <2>2. CASE Suspend(t)
    BY <1>2, <2>2 DEF Suspend, InFlight, GatewayIInv, SuspendedWorkIsOld
  <2>3. CASE Reinstate(t)
    BY <1>2, <2>1, <2>3 DEF Reinstate, InFlight, GatewayIInv, SuspendedWorkIsOld
  <2> QED BY <2>2, <2>3
<1>3. SuspendedWorkIsOld'
  BY <1>1, <1>2 DEF SuspendedWorkIsOld
<1> QED BY <1>1, <1>3, NoCallKeeps DEF GatewayIInv, OnlyOpenCallsStop

\* A request that cleans up, a client that goes away, and the passing of time.
LEMMA TableStepsKeep ==
    ASSUME GatewayIInv,
           \/ \E who \in Principals : TasksRequest(who)
           \/ \E id \in CallIds : Disconnect(id)
           \/ TasksAge
    PROVE  GatewayIInv'
<1>1. calls' = calls /\ activeTenants' = activeTenants /\ ownFlight' = ownFlight
  BY DEF TasksRequest, Disconnect, TasksAge
<1>2. SuspendedWorkIsOld'
  BY <1>1 DEF GatewayIInv, SuspendedWorkIsOld
<1>3. ASSUME NEW who, TasksRequest(who) PROVE GatewayIInv'
  <2>1. taskTable' = Kept /\ cancelled' = Stops(Kept)
    BY <1>3 DEF TasksRequest
  <2> QED BY <1>1, <1>2, <2>1, CleanUpStops, NoCallKeeps
<1>4. ASSUME NEW id \in CallIds, Disconnect(id) PROVE GatewayIInv'
  BY <1>1, <1>2, <1>4, NoCallKeeps DEF Disconnect, GatewayIInv, OnlyOpenCallsStop
<1>5. CASE TasksAge
  BY <1>1, <1>2, <1>5, NoCallKeeps DEF TasksAge, GatewayIInv, OnlyOpenCallsStop
<1> QED BY <1>3, <1>4, <1>5

\* Every step of the doors keeps their inductive invariant.
LEMMA GatewayStepPreserves == GatewayIInv /\ [GatewayNext]_gatewayVars => GatewayIInv'
<1> SUFFICES ASSUME GatewayIInv, [GatewayNext]_gatewayVars PROVE GatewayIInv'
  OBVIOUS
<1>1. CASE UNCHANGED gatewayVars
  BY <1>1, NoCallKeeps
  DEF gatewayVars, taskVars, GatewayIInv, OnlyOpenCallsStop, SuspendedWorkIsOld
<1>2. ASSUME NEW r \in Asked, AskMcp(r[1], r[2]) \/ AskA2A(r[1], r[2]) PROVE GatewayIInv'
  BY <1>2, AskKeeps
<1>3. ASSUME NEW id \in CallIds, PassChecks(id) PROVE GatewayIInv'
  BY <1>3, PassChecksKeeps
<1>4. ASSUME NEW id \in CallIds, Act(id) PROVE GatewayIInv'
  BY <1>4, ActKeeps
<1>5. ASSUME NEW id \in CallIds, Return(id) PROVE GatewayIInv'
  <2>1. Unfinished(id) /\ \E result, told : Answer(id, result, told)
    BY <1>5 DEF Return, Unfinished
  <2>2. calls' = [calls EXCEPT ![id] = EndedCall(id)]
    BY <2>1 DEF Answer
  <2>3. taskTable' = taskTable /\ cancelled' = cancelled \ {id}
        /\ activeTenants' = activeTenants /\ ownFlight' = ownFlight
    BY <1>5 DEF Return
  <2> QED BY <2>1, <2>2, <2>3, EndKeeps
<1>6. ASSUME NEW id \in CallIds, Interrupted(id) PROVE GatewayIInv'
  BY <1>6, EndKeeps DEF Interrupted, GatewayIInv, OnlyOpenCallsStop
<1>7. ASSUME NEW t \in CallTenants, Suspend(t) \/ Reinstate(t) PROVE GatewayIInv'
  BY <1>7, SuspensionKeeps
<1>8. CASE \/ \E who \in Principals : TasksRequest(who)
           \/ \E id \in CallIds : Disconnect(id)
           \/ TasksAge
  BY <1>8, TableStepsKeep
<1> QED BY <1>1, <1>2, <1>3, <1>4, <1>5, <1>6, <1>7, <1>8 DEF GatewayNext

\* The inductive invariant of the doors holds in every behaviour.
THEOREM GatewayInvariance == GatewaySpec => []GatewayIInv
BY GatewayInitEstablishes, GatewayStepPreserves, PTL DEF GatewaySpec

\* A task that the table of A2A has dropped, by age or by number, has ended or is
\* being cancelled (_cleanup_tasks).
THEOREM NoTaskWorksUnseen == GatewaySpec => []ForgottenTasksStop
<1>1. GatewayIInv => ForgottenTasksStop
  BY DEF GatewayIInv
<1> QED BY <1>1, GatewayInvariance, PTL

\* For a suspended tenant nothing begins to act: what acts had passed the checks
\* before the suspension (EnterprisePolicyEngine.evaluate).
THEOREM SuspensionHolds == GatewaySpec => SuspensionStopsNewWork
<1> DEFINE NoNewWork ==
      \A id \in CallIds :
         calls[id].stage = "running" /\ calls'[id].stage = "acted"
           /\ Evaluated(calls[id].tool) /\ calls[id].who.tenant \notin activeTenants
         => id \in ownFlight
<1>1. GatewayIInv => NoNewWork
  BY DEF GatewayIInv, SuspendedWorkIsOld
<1>2. [][NoNewWork]_gatewayVars => SuspensionStopsNewWork
  BY PTL DEF SuspensionStopsNewWork
<1> QED BY <1>1, <1>2, GatewayInvariance, PTL DEF GatewaySpec

(***************************************************************************)
(* Approvals and their audit trail.                                        *)
(***************************************************************************)

Ballots == [by : Actors, vote : {"APPROVE", "REJECT"}]
Workflows ==
    [state : {"NONE", "PENDING", "APPROVED", "REJECTED", "EXPIRED"},
     by : Actors \cup {NoActor}, quorum : Nat, separate : BOOLEAN,
     votes : Seq(Ballots), expired : BOOLEAN]
Deciders ==
    [at : {"idle", "auditing", "writing", "deciding"}, actor : Actors \cup {NoActor},
     vote : {"none", "CREATE", "APPROVE", "REJECT"}, copy : Workflows, last : Nat]
AuditLines ==
    [prev : Nat, actor : Actors \cup {NoActor},
     vote : {"none", "CREATE", "APPROVE", "REJECT"}, end : LineEnds]

GovernanceTypeOK ==
    /\ policy \in [quorum : Quorums, separate : BOOLEAN]
    /\ workflow \in Workflows
    /\ process \in [Processes -> Deciders]
    /\ trail \in Seq(AuditLines)
    /\ trailLock \in Processes \cup {NoProcess}

\* What the votes of a workflow, or of a copy of one, say about its state.
Sound(a) ==
    /\ a.state \in {"NONE", "PENDING", "APPROVED"} => Voters(a, "REJECT") = {}
    /\ a.state = "APPROVED" => Cardinality(Voters(a, "APPROVE")) >= a.quorum
    /\ a.separate => a.by \notin VotersAll(a)
    /\ a.state = "NONE" => a.votes = <<>>

\* Whoever decides has a sound copy of a workflow that was pending.
CopiesAreSound ==
    \A p \in Processes : process[p].at = "deciding" =>
        process[p].copy.state = "PENDING" /\ Sound(process[p].copy)

\* Whoever writes a line holds the lock, and has read the line that is still the
\* last one and can be parsed.
WriterHasTheEnd ==
    \A p \in Processes : process[p].at = "writing" =>
        /\ trailLock = p /\ process[p].last = Len(trail)
        /\ ~UnreadableLast

\* A vote on its way to the ledger is in the workflow.
VotesOnTheWay ==
    \A p \in Processes :
        process[p].at \in {"auditing", "writing"} /\ process[p].vote \in {"APPROVE", "REJECT"} =>
            process[p].actor \in Voters(workflow, process[p].vote)

GovernanceIInv ==
    /\ GovernanceTypeOK
    /\ Sound(workflow) /\ CopiesAreSound
    /\ WriterHasTheEnd /\ AllButLastLineVerifies
    /\ (~overtaken => VotesOnTheWay) /\ VotesStand

\* There is no voter without votes, and the two sets of voters depend on the
\* votes alone.
LEMMA VotersOfVotes ==
    ASSUME NEW a, NEW b, a.votes = b.votes
    PROVE  /\ \A v : Voters(a, v) = Voters(b, v)
           /\ VotersAll(a) = VotersAll(b)
           /\ a.votes = <<>> => VotersAll(a) = {} /\ \A v : Voters(a, v) = {}
BY DEF Voters, VotersAll

\* A vote that is cast is counted for its actor, and for nobody else.
LEMMA VotersOfBallot ==
    ASSUME NEW a \in Workflows, NEW b \in Workflows, NEW e,
           b.votes = Append(a.votes, e)
    PROVE  /\ Voters(b, e.vote) = Voters(a, e.vote) \cup {e.by}
           /\ \A w : w # e.vote => Voters(b, w) = Voters(a, w)
           /\ VotersAll(b) = VotersAll(a) \cup {e.by}
<1> DEFINE n == Len(a.votes)
<1>1. a.votes \in Seq(Ballots) /\ n \in Nat /\ DOMAIN a.votes = 1 .. n
  BY DEF Workflows
<1>2. DOMAIN b.votes = 1 .. n + 1 /\ b.votes[n + 1] = e
  BY <1>1
<1>3. \A i \in 1 .. n : b.votes[i] = a.votes[i]
  BY <1>1
<1>4. \A i : i \in DOMAIN b.votes <=> i \in DOMAIN a.votes \/ i = n + 1
  BY <1>1, <1>2
<1>5. n + 1 \notin DOMAIN a.votes
  BY <1>1
<1>6. b.votes[n + 1] = e
  BY <1>2
<1>7. \A i \in DOMAIN a.votes : b.votes[i] = a.votes[i]
  BY <1>1, <1>3
<1>8. VotersAll(b) = VotersAll(a) \cup {e.by}
  BY <1>4, <1>6, <1>7 DEF VotersAll
<1>9. Voters(b, e.vote) = Voters(a, e.vote) \cup {e.by}
  BY <1>4, <1>5, <1>6, <1>7 DEF Voters
<1>10. ASSUME NEW w, w # e.vote PROVE Voters(b, w) = Voters(a, w)
  BY <1>4, <1>5, <1>6, <1>7, <1>10 DEF Voters
<1> QED BY <1>8, <1>9, <1>10

\* The initial state satisfies the inductive invariant of the approvals.
LEMMA GovernanceInitEstablishes == GovernanceInit => GovernanceIInv
<1> SUFFICES ASSUME GovernanceInit PROVE GovernanceIInv
  OBVIOUS
<1>1. NoWorkflow \in Workflows
  BY DEF NoWorkflow, Workflows
<1>2. Resting \in Deciders
  BY <1>1 DEF Resting, Deciders
<1>3. GovernanceTypeOK
  BY <1>1, <1>2 DEF GovernanceInit, GovernanceTypeOK
<1>4. Sound(workflow)
  <2>1. workflow.votes = <<>> /\ workflow.state = "NONE"
    BY DEF GovernanceInit, NoWorkflow
  <2> QED BY <2>1, VotersOfVotes DEF Sound
<1>5. CopiesAreSound /\ WriterHasTheEnd /\ VotesOnTheWay
  BY DEF GovernanceInit, CopiesAreSound, WriterHasTheEnd, VotesOnTheWay, Resting
<1>6. AllButLastLineVerifies /\ VotesStand
  BY DEF GovernanceInit, AllButLastLineVerifies, VotesStand
<1> QED BY <1>3, <1>4, <1>5, <1>6 DEF GovernanceIInv

\* A change of policy, the passing of expires_at and a publication leave the
\* votes and the state of the workflow, and what the processes do.
LEMMA GovernanceAsideKeeps ==
    ASSUME GovernanceIInv, UpdatePolicy \/ ApprovalExpires \/ Require \/ UNCHANGED governanceVars
    PROVE  GovernanceIInv'
<1> USE DEF GovernanceIInv
<1>1. /\ process' = process /\ trail' = trail /\ trailLock' = trailLock
      /\ overtaken' = overtaken
  BY DEF UpdatePolicy, ApprovalExpires, Require, governanceVars
<1>2. /\ workflow'.votes = workflow.votes /\ workflow'.state = workflow.state
      /\ workflow'.by = workflow.by /\ workflow'.quorum = workflow.quorum
      /\ workflow'.separate = workflow.separate /\ workflow' \in Workflows
  BY DEF UpdatePolicy, ApprovalExpires, Require, governanceVars, GovernanceTypeOK, Workflows
<1>3. policy' \in [quorum : Quorums, separate : BOOLEAN]
  BY DEF UpdatePolicy, ApprovalExpires, Require, governanceVars, GovernanceTypeOK
<1>4. (released => workflow.state = "APPROVED") => (released' => workflow.state = "APPROVED")
  BY DEF UpdatePolicy, ApprovalExpires, Require, governanceVars
<1>5. PICK w : w = workflow'
  OBVIOUS
<1>6. (\A v : Voters(w, v) = Voters(workflow, v)) /\ VotersAll(w) = VotersAll(workflow)
  BY <1>2, <1>5, VotersOfVotes
<1>7. GovernanceTypeOK'
  BY <1>1, <1>2, <1>3 DEF GovernanceTypeOK
<1>8. Sound(w)
  BY <1>2, <1>5, <1>6 DEF Sound
<1>9. Sound(workflow)'
  BY <1>5, <1>8 DEF Sound, Voters, VotersAll
<1>10. CopiesAreSound' /\ WriterHasTheEnd' /\ AllButLastLineVerifies'
  BY <1>1 DEF CopiesAreSound, WriterHasTheEnd, UnreadableLast, SharesLine, AllButLastLineVerifies
<1>11. \A v : Voters(workflow, v)' = Voters(workflow, v)
  BY <1>5, <1>6
<1>12. (~overtaken => VotesOnTheWay)'
  BY <1>1, <1>11 DEF VotesOnTheWay
<1>13. VotesStand'
  BY <1>1, <1>2, <1>4, <1>11 DEF VotesStand
<1> QED BY <1>7, <1>9, <1>10, <1>12, <1>13

\* A workflow that is created has no votes, as there were none before it.
LEMMA CreateKeeps ==
    ASSUME GovernanceIInv, NEW p \in Processes, NEW u \in Actors, Create(p, u)
    PROVE  GovernanceIInv'
<1> USE DEF GovernanceIInv, GovernanceTypeOK
<1>1. policy.quorum \in Nat /\ policy.separate \in BOOLEAN
  BY GovernanceAssumption
<1>2. PICK w : w = [NoWorkflow EXCEPT !.state = "PENDING", !.by = u,
                       !.quorum = policy.quorum, !.separate = policy.separate]
  OBVIOUS
<1>3. w = [state |-> "PENDING", by |-> u, quorum |-> policy.quorum,
           separate |-> policy.separate, votes |-> <<>>, expired |-> FALSE]
  BY <1>2 DEF NoWorkflow
<1>4. w \in Workflows
  BY <1>1, <1>3 DEF Workflows
<1>5. workflow' = w /\ workflow.votes = <<>> /\ w.votes = <<>> /\ workflow.state = "NONE"
  <2>1. workflow.state = "NONE" /\ workflow' = w
    BY <1>2 DEF Create
  <2> QED BY <1>3, <2>1 DEF Sound
<1>6. PICK d : d = [Resting EXCEPT !.at = "auditing", !.actor = u, !.vote = "CREATE"]
  OBVIOUS
<1>7. d = [at |-> "auditing", actor |-> u, vote |-> "CREATE", copy |-> NoWorkflow, last |-> 0]
  BY <1>6 DEF Resting
<1>8. d \in Deciders
  BY <1>7 DEF Deciders, NoWorkflow, Workflows
<1>9. process' = [process EXCEPT ![p] = d] /\ process' \in [Processes -> Deciders]
  BY <1>6, <1>8 DEF Create
<1>10. /\ policy' = policy /\ trail' = trail /\ trailLock' = trailLock
       /\ overtaken' = overtaken /\ released' = released
  BY DEF Create
<1>11. (\A v : Voters(w, v) = {} /\ Voters(workflow, v) = {}) /\ VotersAll(w) = {}
  BY <1>5, VotersOfVotes
<1>12. Sound(workflow)'
  <2>1. Sound(w)
    BY <1>3, <1>11 DEF Sound
  <2> QED BY <1>5, <2>1 DEF Sound, Voters, VotersAll
<1>13. \A q \in Processes : process'[q] = process[q] \/ (q = p /\ process'[q] = d)
  BY <1>9
<1>14. CopiesAreSound' /\ WriterHasTheEnd' /\ AllButLastLineVerifies'
  BY <1>7, <1>10, <1>13 DEF CopiesAreSound, WriterHasTheEnd, UnreadableLast, SharesLine, AllButLastLineVerifies
<1>15. \A v : Voters(workflow, v)' = Voters(workflow, v)
  BY <1>5 DEF Voters
<1>16. (~overtaken => VotesOnTheWay)'
  BY <1>7, <1>10, <1>13, <1>15 DEF VotesOnTheWay
<1>17. VotesStand'
  BY <1>5, <1>10, <1>15 DEF VotesStand
<1>18. GovernanceTypeOK'
  BY <1>4, <1>5, <1>9, <1>10
<1> QED BY <1>12, <1>14, <1>16, <1>17, <1>18

\* decide begins with a copy of the workflow, which is as sound as the workflow.
LEMMA LoadApprovalKeeps ==
    ASSUME GovernanceIInv, NEW p \in Processes, LoadApproval(p)
    PROVE  GovernanceIInv'
<1> USE DEF GovernanceIInv, GovernanceTypeOK
<1>1. PICK d : d = [Resting EXCEPT !.at = "deciding", !.copy = workflow]
  OBVIOUS
<1>2. d = [at |-> "deciding", actor |-> NoActor, vote |-> "none", copy |-> workflow, last |-> 0]
  BY <1>1 DEF Resting
<1>3. d \in Deciders
  BY <1>2 DEF Deciders
<1>4. process' = [process EXCEPT ![p] = d] /\ process' \in [Processes -> Deciders]
  BY <1>1, <1>3 DEF LoadApproval
<1>5. /\ policy' = policy /\ workflow' = workflow /\ trail' = trail
      /\ trailLock' = trailLock /\ overtaken' = overtaken /\ released' = released
      /\ workflow.state = "PENDING"
  BY DEF LoadApproval
<1>6. \A q \in Processes : process'[q] = process[q] \/ (q = p /\ process'[q] = d)
  BY <1>4
<1>7. CopiesAreSound' /\ WriterHasTheEnd' /\ AllButLastLineVerifies'
  BY <1>2, <1>5, <1>6 DEF CopiesAreSound, WriterHasTheEnd, UnreadableLast, SharesLine, AllButLastLineVerifies
<1>8. (~overtaken => VotesOnTheWay)' /\ VotesStand'
  BY <1>2, <1>5, <1>6 DEF VotesOnTheWay, VotesStand
<1> QED BY <1>4, <1>5, <1>7, <1>8

\* A process that goes back to rest with the audit file as it is leaves all true.
LEMMA RestKeeps ==
    ASSUME GovernanceIInv, NEW p \in Processes, process' = [process EXCEPT ![p] = Resting],
           trailLock' = trailLock \/ (trailLock = p /\ trailLock' = NoProcess),
           UNCHANGED <<policy, workflow, trail, overtaken, released>>
    PROVE  GovernanceIInv'
<1> USE DEF GovernanceIInv, GovernanceTypeOK
<1>1. Resting \in Deciders
  BY DEF Resting, Deciders, NoWorkflow, Workflows
<1>2. process' \in [Processes -> Deciders]
  BY <1>1
<1>3. \A q \in Processes : (q # p /\ process'[q] = process[q]) \/ (q = p /\ process'[q].at = "idle")
  BY DEF Resting
<1>4. CopiesAreSound' /\ WriterHasTheEnd' /\ AllButLastLineVerifies'
  BY <1>3 DEF CopiesAreSound, WriterHasTheEnd, UnreadableLast, SharesLine, AllButLastLineVerifies
<1>5. (~overtaken => VotesOnTheWay)' /\ VotesStand'
  BY <1>3 DEF VotesOnTheWay, VotesStand
<1> QED BY <1>2, <1>4, <1>5

\* The line of the writer follows the last line, which is complete, and records a
\* vote that the workflow has.
LEMMA AppendKeeps ==
    ASSUME GovernanceIInv, NEW p \in Processes, process[p].at = "writing", NEW end \in LineEnds,
           process' = [process EXCEPT ![p] = Resting],
           trail' = Append(trail, Line(p, end)), trailLock' = NoProcess,
           UNCHANGED <<policy, workflow, overtaken, released>>
    PROVE  GovernanceIInv'
<1> USE DEF GovernanceIInv, GovernanceTypeOK
<1>1. Resting \in Deciders /\ Resting.at = "idle"
  BY DEF Resting, Deciders, NoWorkflow, Workflows
<1>2. process' \in [Processes -> Deciders]
  BY <1>1
<1>3. \A q \in Processes : (q # p /\ process'[q] = process[q]) \/ (q = p /\ process'[q].at = "idle")
  BY <1>1
<1>4. PICK n \in Nat : n = Len(trail) /\ DOMAIN trail = 1 .. n
  OBVIOUS
<1>5. /\ trailLock = p /\ process[p].last = n
      /\ n # 0 => trail[n].end # "cut"
      /\ n > 1 => trail[n - 1].end # "open"
  BY <1>4 DEF WriterHasTheEnd, UnreadableLast, SharesLine
<1>6. PICK entry : /\ entry = Line(p, end) /\ entry.prev = n /\ entry.actor = process[p].actor
                  /\ entry.vote = process[p].vote /\ entry.end = end
  BY <1>5 DEF Line
<1>7. entry \in AuditLines
  BY <1>4, <1>5, <1>6 DEF Line, AuditLines, Deciders
<1>8. trail' \in Seq(AuditLines) /\ Len(trail') = n + 1 /\ DOMAIN trail' = 1 .. n + 1
  BY <1>4, <1>6, <1>7
<1>9. trail'[n + 1] = entry /\ \A i \in 1 .. n : trail'[i] = trail[i]
  BY <1>4, <1>6, <1>7
<1>10. \A q \in Processes : process'[q].at # "writing"
  BY <1>3, <1>5 DEF WriterHasTheEnd
<1>11. AllButLastLineVerifies'
  <2>1. ASSUME NEW i \in 1 .. n + 1
        PROVE  /\ trail'[i].prev = i - 1
               /\ trail'[i].end = "cut" => i = n + 1
               /\ trail'[i].end = "open" => i >= n
    <3>1. CASE i = n + 1
      <4>1. i - 1 = n /\ i >= n
        BY <3>1
      <4>2. trail'[i] = entry
        BY <1>9, <3>1
      <4> QED BY <1>6, <3>1, <4>1, <4>2
    <3>2. CASE i \in 1 .. n
      <4>1. /\ trail'[i] = trail[i] /\ trail[i].prev = i - 1
            /\ trail[i].end = "cut" => i = n
            /\ trail[i].end = "open" => i >= n - 1
        BY <1>4, <1>9, <3>2 DEF AllButLastLineVerifies
      <4>2. trail[i].end # "cut"
        BY <1>5, <3>2, <4>1
      <4>3. trail[i].end = "open" => i >= n
        <5>1. i = n - 1 => n > 1 /\ trail[i] = trail[n - 1]
          BY <3>2
        <5>2. i >= n - 1 => i = n - 1 \/ i >= n
          BY <3>2
        <5> QED BY <1>5, <4>1, <5>1, <5>2
      <4> QED BY <4>1, <4>2, <4>3
    <3>3. i \in 1 .. n \/ i = n + 1
      OBVIOUS
    <3> QED BY <3>1, <3>2, <3>3
  <2>2. Len(trail') = n + 1 /\ (n + 1) - 1 = n
    BY <1>8
  <2> QED BY <1>8, <2>1, <2>2 DEF AllButLastLineVerifies
<1>12. CopiesAreSound' /\ WriterHasTheEnd'
  BY <1>3, <1>10 DEF CopiesAreSound, WriterHasTheEnd, UnreadableLast, SharesLine
<1>13. (~overtaken => VotesOnTheWay)'
  BY <1>3 DEF VotesOnTheWay
<1>14. VotesStand'
  <2> SUFFICES ASSUME ~overtaken
               PROVE  /\ \A i \in 1 .. n + 1 :
                           trail'[i].vote \in {"APPROVE", "REJECT"} /\ trail'[i].end # "cut" =>
                             trail'[i].actor \in Voters(workflow, trail'[i].vote)
                      /\ released => workflow.state = "APPROVED"
    BY <1>8 DEF VotesStand
  <2>1. entry.vote \in {"APPROVE", "REJECT"} => entry.actor \in Voters(workflow, entry.vote)
    BY <1>6 DEF VotesOnTheWay
  <2>2. \A i \in 1 .. n : trail[i].vote \in {"APPROVE", "REJECT"} /\ trail[i].end # "cut" =>
                             trail[i].actor \in Voters(workflow, trail[i].vote)
    BY <1>4 DEF VotesStand
  <2>3. \A i \in 1 .. n + 1 : i \in 1 .. n \/ i = n + 1
    BY <1>4
  <2>4. released => workflow.state = "APPROVED"
    BY DEF VotesStand
  <2> QED BY <1>9, <2>1, <2>2, <2>3, <2>4
<1>15. Sound(workflow)'
  OBVIOUS
<1> QED BY <1>2, <1>8, <1>11, <1>12, <1>13, <1>14, <1>15

\* append locks the file and reads its last line, unless that line cannot be parsed.
LEMMA LockTrailKeeps ==
    ASSUME GovernanceIInv, NEW p \in Processes, LockTrail(p)
    PROVE  GovernanceIInv'
<1>1. CASE UnreadableLast
  BY <1>1, RestKeeps DEF LockTrail
<1>2. CASE ~UnreadableLast
  <2> USE DEF GovernanceIInv, GovernanceTypeOK
  <2>1. PICK d : d = [process[p] EXCEPT !.at = "writing", !.last = Len(trail)]
    OBVIOUS
  <2>2. /\ process[p].at = "auditing" /\ trailLock = NoProcess /\ trailLock' = p
        /\ process' = [process EXCEPT ![p].at = "writing", ![p].last = Len(trail)]
        /\ UNCHANGED <<policy, workflow, trail, overtaken, released>>
    BY <1>2 DEF LockTrail
  <2>3. d \in Deciders /\ d.at = "writing" /\ d.last = Len(trail)
        /\ d.actor = process[p].actor /\ d.vote = process[p].vote
    <3>1. process[p] \in Deciders /\ Len(trail) \in Nat
      OBVIOUS
    <3> QED BY <2>1, <3>1 DEF Deciders
  <2>4. process' = [process EXCEPT ![p] = d] /\ process' \in [Processes -> Deciders]
    BY <2>1, <2>2, <2>3
  <2>5. \A q \in Processes : (q # p /\ process'[q] = process[q]) \/ (q = p /\ process'[q] = d)
    BY <2>4
  <2>6. CopiesAreSound' /\ AllButLastLineVerifies'
    BY <2>2, <2>3, <2>5 DEF CopiesAreSound, AllButLastLineVerifies
  <2>7. WriterHasTheEnd'
    BY <1>2, <2>2, <2>3, <2>5, GovernanceAssumption DEF WriterHasTheEnd, UnreadableLast, SharesLine
  <2>8. (~overtaken => VotesOnTheWay)' /\ VotesStand'
    BY <2>2, <2>3, <2>5 DEF VotesOnTheWay, VotesStand
  <2> QED BY <2>2, <2>4, <2>6, <2>7, <2>8
<1> QED BY <1>1, <1>2

\* A copy with one vote more, whose verdict is the one the votes call for, is
\* sound if the copy was and the voter was not refused.
LEMMA VoteIsSound ==
    ASSUME NEW a \in Workflows, a.state = "PENDING", Sound(a),
           NEW u \in Actors, ~Refused(a, u), NEW v \in {"APPROVE", "REJECT"},
           NEW b \in Workflows, b.votes = Append(a.votes, [by |-> u, vote |-> v]),
           b.by = a.by, b.quorum = a.quorum, b.separate = a.separate,
           b.state = VerdictOn(b, v)
    PROVE  Sound(b) /\ b.state \in {"PENDING", "APPROVED", "REJECTED"}
<1>1. /\ Voters(b, v) = Voters(a, v) \cup {u}
      /\ \A w : w # v => Voters(b, w) = Voters(a, w)
      /\ VotersAll(b) = VotersAll(a) \cup {u}
  <2>1. PICK e : e = [by |-> u, vote |-> v]
    OBVIOUS
  <2>2. b.votes = Append(a.votes, e) /\ e.by = u /\ e.vote = v
    BY <2>1
  <2> QED BY <2>2, VotersOfBallot
<1>2. b.state = CASE v = "REJECT" -> "REJECTED"
                  [] v = "APPROVE" /\ Cardinality(Voters(b, "APPROVE")) >= b.quorum -> "APPROVED"
                  [] OTHER -> "PENDING"
  BY DEF VerdictOn
<1>3. /\ b.state \in {"PENDING", "APPROVED", "REJECTED"}
      /\ b.state \in {"PENDING", "APPROVED"} => v = "APPROVE"
      /\ b.state = "APPROVED" => Cardinality(Voters(b, "APPROVE")) >= b.quorum
  BY <1>2
<1>4. v = "APPROVE" => Voters(b, "REJECT") = Voters(a, "REJECT")
  BY <1>1
<1>5. Voters(a, "REJECT") = {} /\ (a.separate => a.by \notin VotersAll(a) /\ u # a.by)
  BY DEF Sound, Refused
<1> QED BY <1>1, <1>3, <1>4, <1>5 DEF Sound

\* What save_approval puts on file keeps the invariant: a sound workflow that is
\* not the absence of one, and whose votes are those that were there and the one
\* that goes to the ledger, unless it overtakes another decision.
LEMMA SavedKeeps ==
    ASSUME GovernanceIInv, NEW p \in Processes, process[p].at = "deciding",
           NEW b \in Workflows, Sound(b), b.state # "NONE", workflow' = b,
           overtaken' = (overtaken \/ workflow.votes # process[p].copy.votes
                                   \/ workflow.state # process[p].copy.state),
           NEW d \in Deciders, process' = [process EXCEPT ![p] = d],
           d.at \in {"idle", "auditing"},
           d.at = "auditing" => d.actor \in Voters(b, d.vote),
           \A v : Voters(process[p].copy, v) \subseteq Voters(b, v),
           UNCHANGED <<policy, trail, trailLock, released>>
    PROVE  GovernanceIInv'
<1> USE DEF GovernanceIInv, GovernanceTypeOK
<1>1. process' \in [Processes -> Deciders]
  OBVIOUS
<1>2. \A q \in Processes : (q # p /\ process'[q] = process[q]) \/ (q = p /\ process'[q] = d)
  OBVIOUS
<1>3. CopiesAreSound' /\ WriterHasTheEnd' /\ AllButLastLineVerifies'
  BY <1>2 DEF CopiesAreSound, WriterHasTheEnd, UnreadableLast, SharesLine, AllButLastLineVerifies
<1>4. Sound(workflow)'
  OBVIOUS
<1>5. CASE overtaken'
  BY <1>1, <1>3, <1>4, <1>5 DEF VotesStand
<1>6. CASE ~overtaken'
  <2>1. /\ ~overtaken /\ workflow.votes = process[p].copy.votes /\ workflow.state = "PENDING"
    BY <1>6 DEF CopiesAreSound
  <2>2. \A v : Voters(workflow, v) \subseteq Voters(b, v)
    <3>1. \A v : Voters(workflow, v) = Voters(process[p].copy, v)
      BY <2>1, VotersOfVotes
    <3> QED BY <3>1
  <2>3. VotesOnTheWay'
    BY <1>2, <2>1, <2>2 DEF VotesOnTheWay
  <2>4. VotesStand'
    <3>1. ~released
      BY <2>1 DEF VotesStand
    <3> QED BY <2>1, <2>2, <3>1 DEF VotesStand
  <2> QED BY <1>1, <1>3, <1>4, <2>3, <2>4
<1> QED BY <1>5, <1>6

\* decide: an expired workflow is saved as such, a refused vote changes nothing,
\* and any other vote is counted.
LEMMA DecideKeeps ==
    ASSUME GovernanceIInv, NEW p \in Processes, NEW u \in Actors,
           NEW v \in {"APPROVE", "REJECT"}, DecideWorkflow(p, u, v)
    PROVE  GovernanceIInv'
<1>1. PICK a : a = process[p].copy
  OBVIOUS
<1>2. /\ process[p].at = "deciding" /\ a \in Workflows
      /\ a.state = "PENDING" /\ Sound(a)
  BY <1>1 DEF DecideWorkflow, GovernanceIInv, GovernanceTypeOK, Deciders, CopiesAreSound
<1>3. UNCHANGED <<policy, trail, trailLock, released>>
  BY DEF DecideWorkflow
<1>4. workflow.expired \in BOOLEAN
  BY DEF GovernanceIInv, GovernanceTypeOK, Workflows
<1>5. Resting \in Deciders /\ Resting.at = "idle"
  BY DEF Resting, Deciders, NoWorkflow, Workflows
<1>6. CASE workflow.expired
  <2>1. PICK b : b = [[a EXCEPT !.state = "EXPIRED"] EXCEPT !.expired = workflow.expired]
    OBVIOUS
  <2>2. /\ SaveCopy(p, [a EXCEPT !.state = "EXPIRED"])
        /\ process' = [process EXCEPT ![p] = Resting]
    BY <1>1, <1>6 DEF DecideWorkflow
  <2>3. b \in Workflows /\ b.state = "EXPIRED" /\ b.votes = a.votes
        /\ b.by = a.by /\ b.separate = a.separate
    BY <1>2, <1>4, <2>1 DEF Workflows
  <2>4. (\A w : Voters(b, w) = Voters(a, w)) /\ VotersAll(b) = VotersAll(a)
    BY <2>3, VotersOfVotes
  <2>5. Sound(b)
    BY <1>2, <2>3, <2>4 DEF Sound
  <2>6. /\ workflow' = b
        /\ overtaken' = (overtaken \/ workflow.votes # process[p].copy.votes
                                   \/ workflow.state # process[p].copy.state)
    BY <2>1, <2>2 DEF SaveCopy
  <2> QED BY <1>1, <1>2, <1>3, <1>5, <2>2, <2>3, <2>4, <2>5, <2>6, SavedKeeps
<1>7. CASE ~workflow.expired /\ Refused(a, u)
  <2>1. /\ process' = [process EXCEPT ![p] = Resting]
        /\ UNCHANGED <<workflow, overtaken>>
    BY <1>1, <1>7 DEF DecideWorkflow
  <2> QED BY <1>3, <2>1, RestKeeps
<1>8. CASE ~workflow.expired /\ ~Refused(a, u)
  <2>1. PICK voted : voted = [a EXCEPT !.votes = Append(@, [by |-> u, vote |-> v])]
    OBVIOUS
  <2>2. PICK b : b = [[voted EXCEPT !.state = VerdictOn(voted, v)]
                         EXCEPT !.expired = workflow.expired]
    OBVIOUS
  <2>3. PICK d : d = [Resting EXCEPT !.at = "auditing", !.actor = u, !.vote = v]
    OBVIOUS
  <2>4. /\ SaveCopy(p, [voted EXCEPT !.state = VerdictOn(voted, v)])
        /\ process' = [process EXCEPT ![p] = d]
    BY <1>1, <1>8, <2>1, <2>3 DEF DecideWorkflow
  <2>5. d = [at |-> "auditing", actor |-> u, vote |-> v, copy |-> NoWorkflow, last |-> 0]
    BY <2>3 DEF Resting
  <2>6. d \in Deciders
    BY <2>5 DEF Deciders, NoWorkflow, Workflows
  <2>7. Append(a.votes, [by |-> u, vote |-> v]) \in Seq(Ballots)
    BY <1>2 DEF Workflows, Ballots
  <2>8. voted \in Workflows /\ voted.votes = Append(a.votes, [by |-> u, vote |-> v])
        /\ voted.by = a.by /\ voted.quorum = a.quorum /\ voted.separate = a.separate
    BY <1>2, <2>1, <2>7 DEF Workflows
  <2>9. VerdictOn(voted, v) \in {"PENDING", "APPROVED", "REJECTED"}
    BY DEF VerdictOn
  <2>10. b \in Workflows /\ b.state = VerdictOn(voted, v) /\ b.votes = voted.votes
         /\ b.by = a.by /\ b.quorum = a.quorum /\ b.separate = a.separate
    BY <1>4, <2>2, <2>8, <2>9 DEF Workflows
  <2>11. VerdictOn(b, v) = VerdictOn(voted, v)
    <3>1. \A w : Voters(b, w) = Voters(voted, w)
      BY <2>10, VotersOfVotes
    <3> QED BY <2>8, <2>10, <3>1 DEF VerdictOn
  <2>12. Sound(b) /\ b.state \in {"PENDING", "APPROVED", "REJECTED"}
    BY <1>2, <1>8, <2>8, <2>10, <2>11, VoteIsSound
  <2>13. Voters(b, v) = Voters(a, v) \cup {u} /\ \A w : w # v => Voters(b, w) = Voters(a, w)
    <3>1. PICK e : e = [by |-> u, vote |-> v]
      OBVIOUS
    <3>2. b.votes = Append(a.votes, e) /\ e.by = u /\ e.vote = v
      BY <2>8, <2>10, <3>1
    <3>3. a \in Workflows /\ b \in Workflows
      BY <1>2, <2>10
    <3>4. /\ Voters(b, e.vote) = Voters(a, e.vote) \cup {e.by}
          /\ \A w : w # e.vote => Voters(b, w) = Voters(a, w)
      BY <3>2, <3>3, VotersOfBallot
    <3> QED BY <3>2, <3>4
  <2>14. /\ workflow' = b
         /\ overtaken' = (overtaken \/ workflow.votes # process[p].copy.votes
                                    \/ workflow.state # process[p].copy.state)
    BY <2>2, <2>4 DEF SaveCopy
  <2>15. d.at = "auditing" /\ d.actor \in Voters(b, d.vote)
    BY <2>5, <2>13
  <2>16. b.state # "NONE" /\ \A w : Voters(process[p].copy, w) \subseteq Voters(b, w)
    BY <1>1, <2>12, <2>13
  <2> QED BY <1>2, <1>3, <2>4, <2>6, <2>10, <2>12, <2>14, <2>15, <2>16, SavedKeeps
<1> QED BY <1>4, <1>6, <1>7, <1>8

\* Every step of the approvals keeps their inductive invariant.
LEMMA GovernanceStepPreserves ==
    GovernanceIInv /\ [GovernanceNext]_governanceVars => GovernanceIInv'
<1> SUFFICES ASSUME GovernanceIInv, [GovernanceNext]_governanceVars PROVE GovernanceIInv'
  OBVIOUS
<1>1. CASE UpdatePolicy \/ ApprovalExpires \/ Require \/ UNCHANGED governanceVars
  BY <1>1, GovernanceAsideKeeps
<1>2. ASSUME NEW p \in Processes, LoadApproval(p) PROVE GovernanceIInv'
  BY <1>2, LoadApprovalKeeps
<1>3. ASSUME NEW p \in Processes, LockTrail(p) PROVE GovernanceIInv'
  BY <1>3, LockTrailKeeps
<1>4. ASSUME NEW p \in Processes, WriteLine(p) PROVE GovernanceIInv'
  <2>1. process' = [process EXCEPT ![p] = Resting] /\ UNCHANGED <<policy, workflow, overtaken, released>>
    BY <1>4 DEF WriteLine
  <2>2. process[p].at = "writing" /\ trailLock = p /\ trailLock' = NoProcess
    BY <1>4 DEF WriteLine, GovernanceIInv, WriterHasTheEnd
  <2>3. CASE trail' = trail
    BY <2>1, <2>2, <2>3, RestKeeps
  <2>4. ASSUME NEW end \in LineEnds, trail' = Append(trail, Line(p, end)) PROVE GovernanceIInv'
    BY <2>1, <2>2, <2>4, AppendKeeps
  <2>5. trail' = trail \/ \E end \in LineEnds : trail' = Append(trail, Line(p, end))
    BY <1>4 DEF WriteLine, Written
  <2> QED BY <2>3, <2>4, <2>5
<1>5. ASSUME NEW p \in Processes, Die(p) PROVE GovernanceIInv'
  <2>1. process' = [process EXCEPT ![p] = Resting] /\ UNCHANGED <<policy, workflow, overtaken, released>>
    BY <1>5 DEF Die
  <2>2. trailLock' = IF trailLock = p THEN NoProcess ELSE trailLock
    BY <1>5 DEF Die
  <2>3. CASE trail' = trail
    BY <2>1, <2>2, <2>3, RestKeeps
  <2>4. ASSUME process[p].at = "writing", NEW end \in LineEnds, trail' = Append(trail, Line(p, end))
        PROVE  GovernanceIInv'
    <3>1. trailLock' = NoProcess
      BY <2>2, <2>4 DEF GovernanceIInv, WriterHasTheEnd
    <3> QED BY <2>1, <2>4, <3>1, AppendKeeps
  <2>5. \/ trail' = trail
        \/ process[p].at = "writing" /\ \E end \in LineEnds : trail' = Append(trail, Line(p, end))
    BY <1>5 DEF Die, Written
  <2> QED BY <2>3, <2>4, <2>5
<1>6. ASSUME NEW p \in Processes, NEW u \in Actors, Create(p, u) PROVE GovernanceIInv'
  BY <1>6, CreateKeeps
<1>7. ASSUME NEW p \in Processes, NEW u \in Actors, NEW v \in {"APPROVE", "REJECT"},
             DecideWorkflow(p, u, v)
      PROVE  GovernanceIInv'
  BY <1>7, DecideKeeps
<1> QED BY <1>1, <1>2, <1>3, <1>4, <1>5, <1>6, <1>7 DEF GovernanceNext

\* The inductive invariant of the approvals holds in every behaviour.
THEOREM GovernanceInvariance == GovernanceSpec => []GovernanceIInv
BY GovernanceInitEstablishes, GovernanceStepPreserves, PTL DEF GovernanceSpec

\* An approved workflow has its quorum of distinct approvers, no rejection, and
\* not its requester among the voters when duties are separate, whatever the
\* processes overwrite (decide, save_approval).
THEOREM ApprovalHasItsQuorum == GovernanceSpec => []ApprovedByQuorum
<1>1. GovernanceIInv => ApprovedByQuorum
  BY DEF GovernanceIInv, Sound, ApprovedByQuorum
<1> QED BY <1>1, GovernanceInvariance, PTL

\* The ledger's votes are in the workflow and a publication went ahead on an
\* approved one, while no process saved a stale copy.
THEOREM RecordedVotesStand == GovernanceSpec => []VotesStand
<1>1. GovernanceIInv => VotesStand
  BY DEF GovernanceIInv
<1> QED BY <1>1, GovernanceInvariance, PTL

\* All lines of the audit file but the last verify as a chain, wherever writers
\* died or their writes failed: in the middle of a record, or between a record
\* and its newline (append and _last, under the lock of the file).
THEOREM TrailIsAChain == GovernanceSpec => []AllButLastLineVerifies
<1>1. GovernanceIInv => AllButLastLineVerifies
  BY DEF GovernanceIInv
<1> QED BY <1>1, GovernanceInvariance, PTL

(***************************************************************************)
(* Who is let in.                                                          *)
(***************************************************************************)

UserRows == [id : UserIds, name : UserNames, active : BOOLEAN, roles : SUBSET ManagedRoles]
Changes == {"create", "replace", "roles", "activate", "deactivate", "displayName"}

\* A handler between its read and its write holds the row it read and a copy that
\* differs from it by what was asked.
HandlerOK(e) ==
    \/ e = NotEditing
    \/ /\ e.op \in Changes
       /\ e.row \in UserRows /\ e.copy \in UserRows /\ e.copy.id = e.row.id
       /\ e.op = "roles" => e.copy.active = e.row.active
       /\ e.op = "activate" => e.copy.active = TRUE /\ e.copy.roles = e.row.roles
       /\ e.op = "deactivate" => e.copy.active = FALSE /\ e.copy.roles = e.row.roles
       /\ e.op = "displayName" => e.copy = e.row

UsersOK ==
    /\ users \in Seq(UserRows)
    /\ \A p \in Servers : HandlerOK(editing[p])
    /\ DOMAIN editing = Servers /\ DOMAIN standing = UserIds
    /\ \A id \in UserIds : DOMAIN standing[id] = {"active", "roles"}

\* An id has one row.
IdsAreUnique == \A i, j \in DOMAIN users : users[i].id = users[j].id => i = j

\* Every row says what its last answered request said.
RowsAsAnswered ==
    \A i \in DOMAIN users : /\ standing[users[i].id].active = users[i].active
                            /\ standing[users[i].id].roles = users[i].roles

KeyCaches == [keys : SUBSET SigningKeys, old : BOOLEAN, discovery : {"none", "fresh", "old"}]

\* A cache with a key that lapsed is old: it was filled when the key was offered.
CachesAge ==
    /\ published \in [SigningKeys -> {"offered", "withdrawn", "lapsed"}]
    /\ verifier \in [Verifiers -> KeyCaches]
    /\ \A p \in Verifiers : \A k \in verifier[p].keys :
           published[k] = "lapsed" => verifier[p].old

IdentityIInv ==
    /\ UsersOK /\ IdsAreUnique
    /\ ~staleWrite => RowsAsAnswered
    /\ CachesAge
    /\ AdmittedAsProvisioned /\ LapsedKeyIsRefused

\* The row of a known id is a row of the file with that id.
LEMMA RowOfKnown ==
    ASSUME NEW id, Known(id)
    PROVE  \E i \in DOMAIN users : users[i] = RowOf(id) /\ users[i].id = id
<1>1. \E u \in Rows : u.id = id
  BY DEF Known
<1>2. RowOf(id) \in Rows /\ RowOf(id).id = id
  BY <1>1 DEF RowOf
<1> QED BY <1>2 DEF Rows

\* The managed user of a name that has rows is the one of some row.
LEMMA ManagedHasARow ==
    ASSUME NEW subject, UsersOK, Named(subject) # {}
    PROVE  \E i \in DOMAIN users : Managed(subject) = users[i].id
<1> DEFINE R == OpToRel(<, Nat)
<1>1. IsWellFoundedOn(R, Nat)
  BY NatLessThanWellFounded
<1>2. \A x, y \in Nat : x < y => <<x, y>> \in R
  BY DEF OpToRel
<1> HIDE DEF R
<1>3. PICK S \in SUBSET Nat : S = Named(subject) /\ S # {}
  <2>1. DOMAIN users \subseteq Nat
    BY DEF UsersOK
  <2>2. Named(subject) \subseteq DOMAIN users
    BY DEF Named
  <2> QED BY <2>1, <2>2
<1>4. PICK x \in S : \A y \in S : ~ (<<y, x>> \in R)
  <2>1. S \subseteq Nat
    OBVIOUS
  <2> QED BY <1>1, <1>3, <2>1, WFMin
<1>5. \A y \in S : x <= y
  <2>1. ASSUME NEW y \in S PROVE x <= y
    <3>1. x \in Nat /\ y \in Nat
      OBVIOUS
    <3>2. ~ (y < x)
      BY <1>2, <1>4, <3>1
    <3> QED BY <3>1, <3>2
  <2> QED BY <2>1
<1>6. PICK least : least = CHOOSE i \in S : \A j \in S : i <= j
  OBVIOUS
<1>7. least \in S
  BY <1>4, <1>5, <1>6
<1>8. least \in DOMAIN users
  BY <1>3, <1>7 DEF Named
<1>9. Managed(subject) = users[least].id
  BY <1>3, <1>6 DEF Managed
<1> QED BY <1>8, <1>9

\* The initial state satisfies the inductive invariant of identities.
LEMMA IdentityInitEstablishes == IdentityInit => IdentityIInv
<1> SUFFICES ASSUME IdentityInit PROVE IdentityIInv
  OBVIOUS
<1>1. UsersOK
  BY DEF IdentityInit, UsersOK, HandlerOK, Unprovisioned
<1>2. IdsAreUnique /\ RowsAsAnswered
  BY DEF IdentityInit, IdsAreUnique, RowsAsAnswered
<1>3. CachesAge
  BY DEF IdentityInit, CachesAge, KeyCaches
<1>4. AdmittedAsProvisioned /\ LapsedKeyIsRefused
  BY DEF IdentityInit, AdmittedAsProvisioned, LapsedKeyIsRefused, NoPrincipal
<1> QED BY <1>1, <1>2, <1>3, <1>4 DEF IdentityIInv

\* A handler that begins holds what it read.
LEMMA BeginKeeps ==
    ASSUME IdentityIInv, NEW p \in Servers, NEW e, HandlerOK(e),
           editing' = [editing EXCEPT ![p] = e],
           UNCHANGED <<users, published, verifier, admitted, standing, staleWrite>>
    PROVE  IdentityIInv'
<1> USE DEF IdentityIInv
<1>1. UsersOK'
  <2>1. \A q \in Servers : editing'[q] = editing[q] \/ editing'[q] = e
    BY DEF UsersOK
  <2> QED BY <2>1 DEF UsersOK
<1>2. IdsAreUnique' /\ (~staleWrite => RowsAsAnswered)'
  BY DEF IdsAreUnique, RowsAsAnswered
<1>3. CachesAge' /\ AdmittedAsProvisioned' /\ LapsedKeyIsRefused'
  BY DEF CachesAge, AdmittedAsProvisioned, LapsedKeyIsRefused
<1> QED BY <1>1, <1>2, <1>3

\* A request to create a user, or to change one, begins with a copy in order.
LEMMA BeginsKeep ==
    ASSUME IdentityIInv, NEW p \in Servers, NEW id \in UserIds,
           \/ \E change \in {"roles", "activate", "deactivate", "displayName"} :
                 BeginPatch(p, id, change)
           \/ \E name \in UserNames, active \in BOOLEAN, roles \in SUBSET ManagedRoles :
                 BeginCreate(p, id, name, active, roles) \/ BeginReplace(p, id, name, active, roles)
    PROVE  IdentityIInv'
<1>1. ASSUME NEW change \in {"roles", "activate", "deactivate", "displayName"},
             BeginPatch(p, id, change)
      PROVE  IdentityIInv'
  <2>1. PICK r \in UserRows : r = RowOf(id) /\ r.id = id
    <3>1. Known(id)
      BY <1>1 DEF BeginPatch
    <3> QED BY <3>1, RowOfKnown DEF IdentityIInv, UsersOK
  <2>2. PICK u \in Patched(r, change) :
           editing' = [editing EXCEPT ![p] = [op |-> change, row |-> r, copy |-> u]]
    BY <1>1, <2>1 DEF BeginPatch
  <2>3. PICK e : e = [op |-> change, row |-> r, copy |-> u]
    OBVIOUS
  <2>4. change \in Changes /\ e.op = change /\ e.row = r /\ e.copy = u
    BY <2>3 DEF Changes
  <2>5. HandlerOK(e)
    <3>1. CASE change = "roles"
      <4>1. PICK s \in SUBSET ManagedRoles : u = [r EXCEPT !.roles = s]
        BY <2>2, <3>1 DEF Patched
      <4>2. u \in UserRows /\ u.id = r.id /\ u.active = r.active
        BY <2>1, <4>1 DEF UserRows
      <4> QED BY <2>3, <2>4, <3>1, <4>2 DEF HandlerOK
    <3>2. CASE change = "activate" \/ change = "deactivate"
      <4>1. PICK b \in BOOLEAN : u = [r EXCEPT !.active = b] /\ (b <=> change = "activate")
        BY <2>2, <3>2 DEF Patched
      <4>2. u \in UserRows /\ u.id = r.id /\ u.roles = r.roles /\ u.active = b
        BY <2>1, <4>1 DEF UserRows
      <4> QED BY <2>3, <2>4, <3>2, <4>1, <4>2 DEF HandlerOK
    <3>3. CASE change = "displayName"
      <4>1. u = r
        BY <2>2, <3>3 DEF Patched
      <4> QED BY <2>3, <2>4, <3>3, <4>1 DEF HandlerOK
    <3> QED BY <3>1, <3>2, <3>3
  <2> QED BY <1>1, <2>1, <2>2, <2>3, <2>5, BeginKeeps DEF BeginPatch
<1>2. ASSUME NEW name \in UserNames, NEW active \in BOOLEAN, NEW roles \in SUBSET ManagedRoles,
             BeginCreate(p, id, name, active, roles)
      PROVE  IdentityIInv'
  <2>1. PICK u : u = [id |-> id, name |-> name, active |-> active, roles |-> roles]
    OBVIOUS
  <2>2. PICK e : e = [op |-> "create", row |-> u, copy |-> u]
    OBVIOUS
  <2>3. u \in UserRows
    BY <2>1 DEF UserRows
  <2>4. HandlerOK(e)
    BY <2>2, <2>3 DEF HandlerOK, Changes
  <2> QED BY <1>2, <2>1, <2>2, <2>4, BeginKeeps DEF BeginCreate
<1>3. ASSUME NEW name \in UserNames, NEW active \in BOOLEAN, NEW roles \in SUBSET ManagedRoles,
             BeginReplace(p, id, name, active, roles)
      PROVE  IdentityIInv'
  <2>1. PICK r \in UserRows : r = RowOf(id) /\ r.id = id
    <3>1. Known(id)
      BY <1>3 DEF BeginReplace
    <3> QED BY <3>1, RowOfKnown DEF IdentityIInv, UsersOK
  <2>2. PICK u : u = Replaced(r, name, active, roles)
    OBVIOUS
  <2>3. PICK e : e = [op |-> "replace", row |-> r, copy |-> u]
    OBVIOUS
  <2>4. u \in UserRows /\ u.id = r.id
    BY <2>1, <2>2 DEF Replaced, UserRows
  <2>5. HandlerOK(e)
    BY <2>1, <2>3, <2>4 DEF HandlerOK, Changes
  <2> QED BY <1>3, <2>1, <2>2, <2>3, <2>5, BeginKeeps DEF BeginReplace
<1> QED BY <1>1, <1>2, <1>3

\* save_user puts one row of the id on file, and what the request answers about
\* the user is what that row says, if it was read from the row it replaces.
LEMMA SaveUserKeeps ==
    ASSUME IdentityIInv, NEW p \in Servers, SaveUser(p)
    PROVE  IdentityIInv'
<1> USE DEF IdentityIInv
<1>1. PICK e : e = editing[p] /\ e.op # "none"
  BY DEF SaveUser
<1>2. /\ e.op \in Changes /\ e.row \in UserRows /\ e.copy \in UserRows /\ e.copy.id = e.row.id
      /\ e.op = "roles" => e.copy.active = e.row.active
      /\ e.op = "activate" => e.copy.active = TRUE /\ e.copy.roles = e.row.roles
      /\ e.op = "deactivate" => e.copy.active = FALSE /\ e.copy.roles = e.row.roles
      /\ e.op = "displayName" => e.copy = e.row
  BY <1>1 DEF UsersOK, HandlerOK, NotEditing
<1>3. PICK u \in UserRows : u = e.copy
  BY <1>2
<1>4. u.id \in UserIds
  BY DEF UserRows
<1>5. /\ users' = IF Known(u.id) THEN [i \in DOMAIN users |-> IF users[i].id = u.id
                                                              THEN u ELSE users[i]]
                  ELSE Append(users, u)
      /\ staleWrite' = (staleWrite \/ (e.op # "create" /\ e.row \notin Rows))
      /\ standing' = [standing EXCEPT ![u.id] = Said(e.op, u, standing[u.id])]
      /\ editing' = [editing EXCEPT ![p] = NotEditing]
      /\ admitted' = NoPrincipal /\ published' = published /\ verifier' = verifier
  BY <1>1, <1>3 DEF SaveUser
<1>6. PICK n \in Nat : n = Len(users) /\ DOMAIN users = 1 .. n
  BY DEF UsersOK
<1> DEFINE RowsWith(m) ==
         /\ users' \in Seq(UserRows) /\ DOMAIN users' = 1 .. m
         /\ \A i \in 1 .. m :
               \/ i \in 1 .. n /\ users[i].id # u.id /\ users'[i] = users[i]
               \/ users'[i] = u /\ i \in 1 .. n /\ users[i].id = u.id
               \/ users'[i] = u /\ i = n + 1 /\ ~Known(u.id)
<1>7. PICK m \in Nat : RowsWith(m)
  <2>1. users \in Seq(UserRows)
    BY DEF UsersOK
  <2>2. ASSUME Known(u.id) PROVE RowsWith(n)
    <3>1. users' = [i \in 1 .. n |-> IF users[i].id = u.id THEN u ELSE users[i]]
      BY <1>5, <1>6, <2>2
    <3>2. \A i \in 1 .. n : users[i] \in UserRows
      BY <1>6, <2>1
    <3>3. users' \in [1 .. n -> UserRows]
      BY <3>1, <3>2
    <3>4. users' \in Seq(UserRows) /\ DOMAIN users' = 1 .. n
      BY <3>3
    <3>5. \A i \in 1 .. n : users'[i] = IF users[i].id = u.id THEN u ELSE users[i]
      BY <3>1
    <3>6. \A i \in 1 .. n : \/ i \in 1 .. n /\ users[i].id # u.id /\ users'[i] = users[i]
                            \/ users'[i] = u /\ i \in 1 .. n /\ users[i].id = u.id
      BY <3>5
    <3> QED BY <3>4, <3>6
  <2>3. ASSUME ~Known(u.id) PROVE RowsWith(n + 1)
    <3>1. users' = Append(users, u)
      BY <1>5, <2>3
    <3>2. users' \in Seq(UserRows) /\ DOMAIN users' = 1 .. n + 1
      BY <1>6, <2>1, <3>1
    <3>3. users'[n + 1] = u /\ \A i \in 1 .. n : users'[i] = users[i]
      BY <1>6, <2>1, <3>1
    <3>4. \A i \in 1 .. n : users[i].id # u.id
      BY <1>6, <2>3 DEF Known, Rows
    <3>5. \A i \in 1 .. n + 1 : i \in 1 .. n \/ i = n + 1
      OBVIOUS
    <3> QED BY <2>3, <3>2, <3>3, <3>4, <3>5
  <2>4. n + 1 \in Nat
    OBVIOUS
  <2> HIDE DEF RowsWith
  <2> QED BY <2>2, <2>3, <2>4
<1>8. UsersOK'
  <2>1. \A q \in Servers : editing'[q] = editing[q] \/ editing'[q] = NotEditing
    BY <1>5 DEF UsersOK
  <2>2. \A q \in Servers : HandlerOK(editing'[q])
    BY <2>1 DEF UsersOK, HandlerOK
  <2>3. \A id \in UserIds : DOMAIN standing'[id] = {"active", "roles"}
    BY <1>4, <1>5 DEF UsersOK, Said
  <2> QED BY <1>5, <1>7, <2>2, <2>3 DEF UsersOK
<1>9. IdsAreUnique'
  <2>1. \A i \in 1 .. n : ~Known(u.id) => users[i].id # u.id
    BY <1>6 DEF Known, Rows
  <2> QED BY <1>6, <1>7, <2>1 DEF IdsAreUnique
<1>10. ASSUME ~staleWrite' PROVE RowsAsAnswered'
  <2>1. ~staleWrite /\ (e.op # "create" => e.row \in Rows)
    BY <1>5, <1>10
  <2>2. standing'[u.id] = Said(e.op, u, standing[u.id])
    BY <1>4, <1>5 DEF UsersOK
  <2>3. e.op # "create" => /\ standing[u.id].active = e.row.active
                           /\ standing[u.id].roles = e.row.roles
    BY <1>2, <1>3, <2>1 DEF Rows, RowsAsAnswered
  <2>4. standing'[u.id].active = u.active /\ standing'[u.id].roles = u.roles
    <3>1. DOMAIN standing[u.id] = {"active", "roles"}
      BY <1>4 DEF UsersOK
    <3>2. CASE e.op \in {"create", "replace"}
      <4>1. standing'[u.id] = [active |-> u.active, roles |-> u.roles]
        BY <2>2, <3>2 DEF Said
      <4> QED BY <4>1
    <3>3. CASE e.op = "roles"
      <4>1. standing'[u.id] = [standing[u.id] EXCEPT !.roles = u.roles]
        BY <2>2, <3>3 DEF Said
      <4> QED BY <1>2, <1>3, <2>3, <3>1, <3>3, <4>1
    <3>4. CASE e.op = "activate" \/ e.op = "deactivate"
      <4>1. standing'[u.id] = [standing[u.id] EXCEPT !.active = u.active]
        BY <1>2, <1>3, <2>2, <3>4 DEF Said
      <4> QED BY <1>2, <1>3, <2>3, <3>1, <3>4, <4>1
    <3>5. CASE e.op = "displayName"
      <4>1. standing'[u.id] = standing[u.id]
        BY <2>2, <3>5 DEF Said
      <4> QED BY <1>2, <1>3, <2>3, <3>5, <4>1
    <3> QED BY <1>2, <3>2, <3>3, <3>4, <3>5 DEF Changes
  <2>5. \A id \in UserIds : id # u.id => standing'[id] = standing[id]
    BY <1>5 DEF UsersOK
  <2>6. \A i \in 1 .. n : users[i].id \in UserIds
    <3>1. \A i \in 1 .. n : users[i] \in UserRows
      BY <1>6 DEF UsersOK
    <3> QED BY <3>1 DEF UserRows
  <2> QED BY <1>6, <1>7, <2>1, <2>4, <2>5, <2>6 DEF RowsAsAnswered
<1>11. CachesAge'
  BY <1>5 DEF CachesAge
<1>12. AdmittedAsProvisioned' /\ LapsedKeyIsRefused'
  BY <1>5 DEF AdmittedAsProvisioned, LapsedKeyIsRefused, NoPrincipal
<1> QED BY <1>8, <1>9, <1>10, <1>11, <1>12

\* delete_user takes the only row of the id, and nothing is said of the other rows.
LEMMA DeleteUserKeeps ==
    ASSUME IdentityIInv, NEW id \in UserIds, DeleteUser(id)
    PROVE  IdentityIInv'
<1> USE DEF IdentityIInv
<1>1. PICK n \in Nat : n = Len(users) /\ DOMAIN users = 1 .. n
  BY DEF UsersOK
<1>2. PICK at \in 1 .. n :
         /\ users[at].id = id
         /\ users' = [i \in 1 .. (n - 1) |-> users[IF i < at THEN i ELSE i + 1]]
  BY <1>1 DEF DeleteUser
<1>3. /\ standing' = [standing EXCEPT ![id] = [active |-> FALSE, roles |-> {"deleted"}]]
      /\ admitted' = NoPrincipal
      /\ UNCHANGED <<editing, published, verifier, staleWrite>>
  BY DEF DeleteUser
<1> DEFINE Was(i) == IF i < at THEN i ELSE i + 1
<1>4. n - 1 \in Nat
  BY <1>2
<1>5. \A i \in 1 .. (n - 1) : Was(i) \in 1 .. n /\ Was(i) # at
  BY <1>2
<1>6. \A i, j \in 1 .. (n - 1) : Was(i) = Was(j) => i = j
  BY <1>2
<1>7. DOMAIN users' = 1 .. (n - 1) /\ \A i \in 1 .. (n - 1) : users'[i] = users[Was(i)]
  BY <1>2
<1> HIDE DEF Was
<1>8. \A i \in 1 .. n : users[i] \in UserRows /\ users[i].id \in UserIds
  <2>1. \A i \in 1 .. n : users[i] \in UserRows
    BY <1>1 DEF UsersOK
  <2> QED BY <2>1 DEF UserRows
<1>9. users' \in Seq(UserRows)
  <2>1. users' = [i \in 1 .. (n - 1) |-> users[Was(i)]]
    BY <1>2, <1>7
  <2>2. users' \in [1 .. (n - 1) -> UserRows]
    BY <1>5, <1>8, <2>1
  <2> QED BY <1>4, <2>2
<1>10. UsersOK'
  BY <1>3, <1>9 DEF UsersOK
<1>11. IdsAreUnique'
  BY <1>1, <1>5, <1>6, <1>7 DEF IdsAreUnique
<1>12. ASSUME ~staleWrite' PROVE RowsAsAnswered'
  <2>1. RowsAsAnswered
    BY <1>3, <1>12
  <2>2. \A k \in 1 .. n : k # at => users[k].id # id
    BY <1>1, <1>2 DEF IdsAreUnique
  <2>3. \A k \in 1 .. n : k # at => standing'[users[k].id] = standing[users[k].id]
    BY <1>3, <1>8, <2>2 DEF UsersOK
  <2>4. ASSUME NEW i \in 1 .. (n - 1)
        PROVE  /\ standing'[users'[i].id].active = users'[i].active
               /\ standing'[users'[i].id].roles = users'[i].roles
    <3>1. PICK k \in 1 .. n : k # at /\ users'[i] = users[k]
      BY <1>5, <1>7
    <3> QED BY <1>1, <2>1, <2>3, <3>1 DEF RowsAsAnswered
  <2> QED BY <1>7, <2>4 DEF RowsAsAnswered
<1>13. CachesAge'
  BY <1>3 DEF CachesAge
<1>14. AdmittedAsProvisioned' /\ LapsedKeyIsRefused'
  BY <1>3 DEF AdmittedAsProvisioned, LapsedKeyIsRefused, NoPrincipal
<1> QED BY <1>10, <1>11, <1>12, <1>13, <1>14

\* A key lapses when whatever cache has it is old, and a cache only gets older.
LEMMA KeysKeep ==
    ASSUME IdentityIInv,
           (\E k \in SigningKeys : Withdraw(k) \/ Lapse(k)) \/ (\E p \in Verifiers : CacheAges(p))
    PROVE  IdentityIInv'
<1> USE DEF IdentityIInv
<1>1. UNCHANGED <<users, editing, standing, staleWrite>>
  BY DEF Withdraw, Lapse, CacheAges
<1>2. UsersOK' /\ IdsAreUnique' /\ (~staleWrite => RowsAsAnswered)'
  BY <1>1 DEF UsersOK, IdsAreUnique, RowsAsAnswered
<1>3. ASSUME NEW k \in SigningKeys, Withdraw(k) \/ Lapse(k) PROVE IdentityIInv'
  <2>1. /\ published' = [published EXCEPT ![k] = "withdrawn"]
           \/ /\ published' = [published EXCEPT ![k] = "lapsed"]
              /\ \A p \in Verifiers : k \in verifier[p].keys => verifier[p].old
        /\ admitted' = NoPrincipal /\ verifier' = verifier
    BY <1>3 DEF Withdraw, Lapse
  <2>2. CachesAge'
    <3>1. \A p \in Verifiers : verifier[p].keys \subseteq SigningKeys
      BY DEF CachesAge, KeyCaches
    <3> QED BY <2>1, <3>1 DEF CachesAge
  <2>3. AdmittedAsProvisioned' /\ LapsedKeyIsRefused'
    BY <2>1 DEF AdmittedAsProvisioned, LapsedKeyIsRefused, NoPrincipal
  <2> QED BY <1>2, <2>2, <2>3
<1>4. ASSUME NEW p \in Verifiers, CacheAges(p) PROVE IdentityIInv'
  <2>1. /\ \/ verifier' = [verifier EXCEPT ![p].old = TRUE]
           \/ verifier' = [verifier EXCEPT ![p].discovery = "old"]
        /\ published' = published /\ admitted' = admitted
    BY <1>4 DEF CacheAges
  <2>2. verifier' \in [Verifiers -> KeyCaches]
    <3>1. PICK v \in KeyCaches : v = verifier[p]
      BY DEF CachesAge
    <3>2. [v EXCEPT !.old = TRUE] \in KeyCaches /\ [v EXCEPT !.discovery = "old"] \in KeyCaches
      BY DEF KeyCaches
    <3>3. \/ verifier' = [verifier EXCEPT ![p] = [v EXCEPT !.old = TRUE]]
          \/ verifier' = [verifier EXCEPT ![p] = [v EXCEPT !.discovery = "old"]]
      BY <2>1, <3>1
    <3> QED BY <3>2, <3>3 DEF CachesAge
  <2>3. \A q \in Verifiers : /\ verifier'[q].keys = verifier[q].keys
                             /\ verifier[q].old => verifier'[q].old
    BY <2>1 DEF CachesAge, KeyCaches
  <2>4. CachesAge'
    BY <2>1, <2>2, <2>3 DEF CachesAge
  <2>5. AdmittedAsProvisioned' /\ LapsedKeyIsRefused'
    BY <1>1, <2>1 DEF AdmittedAsProvisioned, LapsedKeyIsRefused
  <2> QED BY <1>2, <2>4, <2>5
<1> QED BY <1>3, <1>4

\* The cache that verify leaves is in order, and the key it found has not lapsed.
LEMMA LookupFindsAKeyInTime ==
    ASSUME CachesAge, NEW p \in Verifiers, NEW key \in SigningKeys,
           NEW result \in Lookup(verifier[p], key)
    PROVE  /\ result[1] \in KeyCaches
           /\ \A k \in result[1].keys : published[k] = "lapsed" => result[1].old
           /\ result[2] = TRUE => published[key] # "lapsed"
<1> DEFINE InOrder(c) ==
      c \in KeyCaches /\ \A k \in c.keys : published[k] = "lapsed" => c.old
<1>1. PICK v : v = verifier[p]
  OBVIOUS
<1>2. PICK d : d = Discovered(v)
  OBVIOUS
<1>3. PICK l : l = Loaded(d)
  OBVIOUS
<1>4. InOrder(v)
  BY <1>1 DEF CachesAge
<1>5. InOrder(d)
  BY <1>2, <1>4 DEF Discovered, KeyCaches
<1>6. /\ l.keys = Offered /\ l \in KeyCaches
  BY <1>3, <1>5 DEF Loaded, KeyCaches, Offered
<1>7. InOrder(l)
  BY <1>6 DEF Offered
<1>8. ~Loads(d, FALSE) => ~d.old
  BY DEF Loads
<1>9. \/ result = <<v, FALSE>>
      \/ result = <<d, FALSE>>
      \/ result = <<l, key \in Offered>>
      \/ result = <<d, TRUE>> /\ key \in d.keys /\ ~Loads(d, FALSE)
  BY <1>1, <1>2, <1>3 DEF Lookup
<1> HIDE DEF InOrder
<1>10. key \in Offered => published[key] # "lapsed"
  BY DEF Offered
<1>11. key \in d.keys /\ ~d.old => published[key] # "lapsed"
  BY <1>5 DEF InOrder
<1>12. InOrder(result[1]) /\ (result[2] = TRUE => published[key] # "lapsed")
  <2>1. CASE result = <<v, FALSE>> \/ result = <<d, FALSE>>
    <3>1. PICK c, found : result = <<c, found>> /\ found = FALSE /\ InOrder(c)
      BY <1>4, <1>5, <2>1
    <3>2. result[1] = c /\ result[2] = found
      BY <3>1
    <3> QED BY <3>1, <3>2
  <2>2. CASE result = <<l, key \in Offered>>
    <3>1. result[1] = l /\ result[2] = (key \in Offered)
      BY <2>2
    <3> QED BY <1>7, <1>10, <3>1
  <2>3. CASE result = <<d, TRUE>> /\ key \in d.keys /\ ~Loads(d, FALSE)
    BY <1>5, <1>8, <1>11, <2>3
  <2> QED BY <1>9, <2>1, <2>2, <2>3
<1> QED BY <1>12 DEF InOrder

\* verify lets in whom the row of its user lets in, with the roles of that row.
LEMMA VerifyKeeps ==
    ASSUME IdentityIInv, NEW p \in Verifiers, NEW subject \in UserNames,
           NEW key \in SigningKeys, NEW claims \in TokenClaims, Verify(p, subject, key, claims)
    PROVE  IdentityIInv'
<1> USE DEF IdentityIInv
<1>1. PICK id : id = Managed(subject)
  OBVIOUS
<1>2. PICK result \in Lookup(verifier[p], key) :
        /\ verifier' = [verifier EXCEPT ![p] = result[1]]
        /\ admitted' = IF result[2] /\ ~Barred(id)
                       THEN [id |-> id, subject |-> subject, claims |-> claims, key |-> key,
                             roles |-> claims \cup (IF id = NobodyYet THEN {}
                                                    ELSE RowOf(id).roles)]
                       ELSE NoPrincipal
        /\ UNCHANGED <<users, editing, published, standing, staleWrite>>
  BY <1>1 DEF Verify
<1>3. /\ result[1] \in KeyCaches
      /\ \A k \in result[1].keys : published[k] = "lapsed" => result[1].old
      /\ result[2] = TRUE => published[key] # "lapsed"
  BY <1>2, LookupFindsAKeyInTime
<1>4. UsersOK' /\ IdsAreUnique' /\ (~staleWrite => RowsAsAnswered)'
  BY <1>2 DEF UsersOK, IdsAreUnique, RowsAsAnswered
<1>5. CachesAge'
  <2>1. \A q \in Verifiers : verifier'[q] = verifier[q] \/ verifier'[q] = result[1]
    BY <1>2 DEF CachesAge
  <2> QED BY <1>2, <1>3, <2>1 DEF CachesAge
<1>6. admitted' = NoPrincipal
      \/ /\ admitted'.id = id /\ admitted'.key = key /\ result[2] /\ ~Barred(id)
         /\ admitted'.claims = claims
         /\ id # NobodyYet => admitted'.roles = claims \cup RowOf(id).roles
  BY <1>2
<1>7. LapsedKeyIsRefused'
  BY <1>2, <1>3, <1>6 DEF LapsedKeyIsRefused, NoPrincipal
<1>8. AdmittedAsProvisioned'
  <2>1. CASE admitted' = NoPrincipal \/ id = NobodyYet \/ staleWrite
    BY <1>2, <1>6, <2>1 DEF AdmittedAsProvisioned, NoPrincipal
  <2>2. CASE admitted' # NoPrincipal /\ id # NobodyYet /\ ~staleWrite
    <3>1. Named(subject) # {}
      BY <1>1, <2>2 DEF Managed
    <3>2. Known(id)
      BY <1>1, <3>1, ManagedHasARow DEF Known, Rows
    <3>3. PICK i \in DOMAIN users : users[i] = RowOf(id) /\ users[i].id = id
      BY <3>2, RowOfKnown
    <3>4. standing[id].active = RowOf(id).active /\ standing[id].roles = RowOf(id).roles
      BY <2>2, <3>3 DEF RowsAsAnswered
    <3>5. RowOf(id).active
      BY <1>6, <2>2 DEF Barred
    <3> QED BY <1>2, <1>6, <2>2, <3>4, <3>5 DEF AdmittedAsProvisioned
  <2> QED BY <2>1, <2>2
<1> QED BY <1>4, <1>5, <1>7, <1>8

\* Every step keeps the inductive invariant of identities.
LEMMA IdentityStepPreserves == IdentityIInv /\ [IdentityNext]_identityVars => IdentityIInv'
<1> SUFFICES ASSUME IdentityIInv, [IdentityNext]_identityVars PROVE IdentityIInv'
  OBVIOUS
<1>1. CASE UNCHANGED identityVars
  BY <1>1 DEF identityVars, IdentityIInv, UsersOK, IdsAreUnique, RowsAsAnswered, CachesAge,
              AdmittedAsProvisioned, LapsedKeyIsRefused
<1>2. ASSUME NEW p \in Servers, SaveUser(p) PROVE IdentityIInv'
  BY <1>2, SaveUserKeeps
<1>3. ASSUME NEW p \in Servers, NEW id \in UserIds,
             \/ \E change \in {"roles", "activate", "deactivate", "displayName"} :
                   BeginPatch(p, id, change)
             \/ \E name \in UserNames, active \in BOOLEAN, roles \in SUBSET ManagedRoles :
                   BeginCreate(p, id, name, active, roles)
                   \/ BeginReplace(p, id, name, active, roles)
      PROVE  IdentityIInv'
  BY <1>3, BeginsKeep
<1>4. ASSUME NEW id \in UserIds, DeleteUser(id) PROVE IdentityIInv'
  BY <1>4, DeleteUserKeeps
<1>5. CASE (\E k \in SigningKeys : Withdraw(k) \/ Lapse(k)) \/ (\E p \in Verifiers : CacheAges(p))
  BY <1>5, KeysKeep
<1>6. ASSUME NEW p \in Verifiers, NEW name \in UserNames, NEW key \in SigningKeys,
             NEW claims \in TokenClaims, Verify(p, name, key, claims)
      PROVE  IdentityIInv'
  BY <1>6, VerifyKeeps
<1> QED BY <1>1, <1>2, <1>3, <1>4, <1>5, <1>6 DEF IdentityNext

\* The inductive invariant of identities holds in every behaviour.
THEOREM IdentityInvariance == IdentitySpec => []IdentityIInv
BY IdentityInitEstablishes, IdentityStepPreserves, PTL DEF IdentitySpec

\* Whoever is let in is let in as the last answered SCIM request left the user,
\* while no process saves a copy over a row it had not read (verify, save_user).
THEOREM ProvisioningHolds == IdentitySpec => []AdmittedAsProvisioned
<1>1. IdentityIInv => AdmittedAsProvisioned
  BY DEF IdentityIInv
<1> QED BY <1>1, IdentityInvariance, PTL

\* No process accepts a key that was withdrawn for longer than the TTL of its
\* cache, whatever fetches fail (_load_jwks, _signing_key).
THEOREM LapsedKeysStayOut == IdentitySpec => []LapsedKeyIsRefused
<1>1. IdentityIInv => LapsedKeyIsRefused
  BY DEF IdentityIInv
<1> QED BY <1>1, IdentityInvariance, PTL

(***************************************************************************)
(* The pool that the stores of a process share.                            *)
(***************************************************************************)

PoolCalls == [op : {"none", "connect", "close", "create"}, store : Stores \cup {"none"},
              lock : Objects \cup {0}]
Shared == [pool : Objects, references : Nat]
PoolTypeOK ==
    /\ sharedPool # <<>> => sharedPool[1] \in Shared
    /\ tableLock = <<>> \/ \E n \in Objects : tableLock = <<n>>
    /\ heldBy \in [Objects -> SUBSET PoolCallers]
    /\ line \in [Objects -> Seq(PoolCallers)]
    /\ store \in [Stores -> Nat]
    /\ caller \in [PoolCallers -> PoolCalls]

\* Who is in a call has the lock of the table; one call at most creates the pool that
\* is missing, and the others stand in line, each once.
CallersOK ==
    \A c \in PoolCallers :
        /\ caller[c].op = "none" => caller[c] = AtRest
        /\ caller[c].op # "none" =>
              /\ tableLock = <<caller[c].lock>>
              /\ caller[c].lock \in Objects /\ caller[c].store \in Stores
        /\ caller[c].op = "create" => heldBy[caller[c].lock] = {c} /\ sharedPool = <<>>
        /\ caller[c].op \in {"connect", "close"} =>
              \E i \in 1 .. Len(line[caller[c].lock]) : line[caller[c].lock][i] = c
LinesOK ==
    \A n \in Objects :
        /\ \A c \in heldBy[n] : caller[c].op = "create" /\ caller[c].lock = n
        /\ \A i \in 1 .. Len(line[n]) :
              /\ caller[line[n][i]].op \in {"connect", "close"} /\ caller[line[n][i]].lock = n
              /\ \A j \in 1 .. Len(line[n]) : line[n][i] = line[n][j] => i = j
\* Who waits to close a store closes a store that is connected, and nobody else does.
ClosersOK ==
    \A c \in PoolCallers : caller[c].op = "close" =>
        /\ store[caller[c].store] # 0
        /\ \A d \in PoolCallers :
              caller[d].op = "close" /\ caller[d].store = caller[c].store => d = c

Connections == {s \in Stores : store[s] # 0}
CountsOK ==
    /\ sharedPool # <<>> => /\ tableLock # <<>>
                            /\ sharedPool[1].references >= Cardinality(Connections)
                            /\ sharedPool[1].pool \in openPools
    /\ \A s \in Connections : /\ sharedPool # <<>> /\ store[s] = sharedPool[1].pool
                              /\ store[s] \in openPools

PoolInOrder == PoolTypeOK /\ CallersOK /\ LinesOK /\ ClosersOK /\ CountsOK
PoolIInv == disturbed \/ PoolInOrder

\* There are objects, and none of them is the pool of a store without one.
LEMMA ObjectsAreThere == 1 \in Objects /\ Objects \subseteq Nat /\ 0 \notin Objects
<1> DEFINE n == Cardinality(PoolCallers)
           m == Cardinality(Stores)
<1>1. n \in Nat /\ m \in Nat
  BY PoolAssumption, FS_CardinalityType
<1>2. Objects = 1 .. n + m + 1
  BY DEF Objects
<1> HIDE DEF n, m
<1> QED BY <1>1, <1>2

\* The stores with a pool can be counted.
LEMMA ConnectionsAreFinite == IsFiniteSet(Connections) /\ Cardinality(Connections) \in Nat
<1>1. IsFiniteSet(Connections)
  BY PoolAssumption, FS_Subset DEF Connections
<1> QED BY <1>1, FS_CardinalityType

\* The initial state is in order.
LEMMA PoolInitEstablishes == PoolInit => PoolIInv
<1> SUFFICES ASSUME PoolInit PROVE PoolInOrder
  BY DEF PoolIInv
<1>1. \A c \in PoolCallers : caller[c] = AtRest
  BY DEF PoolInit
<1>2. AtRest \in PoolCalls /\ AtRest.op = "none"
  BY DEF AtRest, PoolCalls
<1>3. PoolTypeOK
  <2>1. <<>> \in Seq(PoolCallers)
    OBVIOUS
  <2> QED BY <1>2, <2>1 DEF PoolInit, PoolTypeOK
<1>4. CallersOK /\ LinesOK /\ ClosersOK
  BY <1>1, <1>2 DEF CallersOK, LinesOK, ClosersOK, PoolInit
<1>5. Connections = {}
  BY DEF PoolInit, Connections
<1>6. CountsOK
  BY <1>5 DEF CountsOK, PoolInit
<1> QED BY <1>3, <1>4, <1>6 DEF PoolInOrder

\* A call takes the lock of the table, or a new one that nobody has when nobody is
\* in a call.
LEMMA LockIsTheTables ==
    ASSUME PoolInOrder
    PROVE  /\ LockOf \in Objects
           /\ tableLock # <<>> => tableLock = <<LockOf>>
           /\ tableLock = <<>> => /\ \A c \in PoolCallers : caller[c] = AtRest
                                  /\ heldBy[LockOf] = {} /\ line[LockOf] = <<>>
<1> USE DEF PoolInOrder
<1>1. CASE tableLock # <<>>
  BY <1>1 DEF PoolTypeOK, LockOf
<1>2. CASE tableLock = <<>>
  <2>1. \A c \in PoolCallers : caller[c] = AtRest
    BY <1>2 DEF CallersOK
  <2>2. AtRest.op = "none" /\ AtRest.lock = 0
    BY DEF AtRest
  <2>3. \E n \in Objects : tableLock # <<n>> /\ \A c \in PoolCallers : caller[c].lock # n
    BY <1>2, <2>1, <2>2, ObjectsAreThere
  <2>4. LockOf = FreshLock /\ FreshLock \in Objects
    BY <1>2, <2>3 DEF LockOf, FreshLock
  <2> HIDE DEF PoolInOrder
  <2>5. heldBy[LockOf] \subseteq PoolCallers /\ line[LockOf] \in Seq(PoolCallers)
    BY <2>4 DEF PoolTypeOK, PoolInOrder
  <2>6. heldBy[LockOf] = {}
    BY <2>1, <2>2, <2>4, <2>5 DEF LinesOK, PoolInOrder
  <2>7. ASSUME line[LockOf] # <<>> PROVE FALSE
    <3>1. 1 \in 1 .. Len(line[LockOf]) /\ line[LockOf][1] \in PoolCallers
      BY <2>5, <2>7
    <3> QED BY <2>1, <2>2, <2>4, <3>1 DEF LinesOK, PoolInOrder
  <2> QED BY <1>2, <2>1, <2>4, <2>6, <2>7
<1> QED BY <1>1, <1>2

\* While a lock is free nobody creates a pool, and with nobody in its line nobody is
\* in a call.
LEMMA FreeMeansNobodyCreates ==
    ASSUME PoolInOrder, NEW n \in Objects, heldBy[n] = {},
           \A c \in PoolCallers : caller[c].op # "none" => caller[c].lock = n
    PROVE  /\ \A c \in PoolCallers : caller[c].op \in {"none", "connect", "close"}
           /\ line[n] = <<>> => \A c \in PoolCallers : caller[c] = AtRest
<1>1. \A c \in PoolCallers : caller[c].op \in {"none", "connect", "close", "create"}
  BY DEF PoolInOrder, PoolTypeOK, PoolCalls
<1>2. \A c \in PoolCallers : caller[c].op # "create"
  BY DEF PoolInOrder, CallersOK
<1>3. ASSUME line[n] = <<>>, NEW c \in PoolCallers, caller[c].op # "none" PROVE FALSE
  <2>1. \E i \in 1 .. Len(line[n]) : line[n][i] = c
    BY <1>1, <1>2, <1>3 DEF PoolInOrder, CallersOK
  <2> QED BY <1>3, <2>1
<1> QED BY <1>1, <1>2, <1>3 DEF PoolInOrder, CallersOK

\* The others whose calls wait for the lock n are in line after the step, and c is in
\* no line.
OthersWait(c, n) ==
    /\ \A d \in PoolCallers : caller[d].op # "none" => caller[d].lock = n
    /\ line' \in [Objects -> Seq(PoolCallers)]
    /\ \A d \in PoolCallers : d # c /\ caller[d].op \in {"connect", "close"} =>
          \E i \in 1 .. Len(line'[n]) : line'[n][i] = d
    /\ \A m \in Objects : \A i \in 1 .. Len(line'[m]) :
          /\ line'[m][i] # c /\ caller[line'[m][i]].op \in {"connect", "close"}
          /\ caller[line'[m][i]].lock = m
          /\ \A j \in 1 .. Len(line'[m]) : line'[m][i] = line'[m][j] => i = j

\* A connect goes on under the free lock n.
LEMMA ConnectKeeps ==
    ASSUME PoolInOrder, NEW c \in PoolCallers, NEW s \in Stores, NEW n \in Objects,
           heldBy[n] = {}, TableWith(c, n) = <<n>>, OthersWait(c, n),
           Connected(c, s, n)
    PROVE  PoolInOrder'
<1> USE DEF PoolInOrder, OthersWait
<1>1. \A d \in PoolCallers : caller[d].op \in {"none", "connect", "close"}
  BY FreeMeansNobodyCreates
<1>2. \A m \in Objects : heldBy[m] = {}
  <2>1. \A m \in Objects : heldBy[m] \subseteq PoolCallers
    BY DEF PoolTypeOK
  <2> SUFFICES ASSUME NEW m \in Objects, NEW d \in heldBy[m] PROVE FALSE
    OBVIOUS
  <2>2. d \in PoolCallers /\ caller[d].op = "create"
    BY <2>1 DEF LinesOK
  <2> QED BY <1>1, <2>2
<1>3. tableLock' = <<n>>
  BY DEF Connected
<1>4. \A d \in PoolCallers : d # c => caller'[d] = caller[d]
  BY DEF Connected, PoolTypeOK
<1>5. CASE sharedPool = <<>>
  <2> DEFINE new == [op |-> "create", store |-> s, lock |-> n]
  <2>1. /\ heldBy' = [heldBy EXCEPT ![n] = {c}] /\ caller' = [caller EXCEPT ![c] = new]
        /\ UNCHANGED <<sharedPool, store, openPools>>
    BY <1>5 DEF Connected
  <2>2. new \in PoolCalls /\ new.op = "create" /\ new.store = s /\ new.lock = n
    BY DEF PoolCalls
  <2> HIDE DEF new
  <2>3. caller'[c] = new /\ heldBy'[n] = {c} /\ \A m \in Objects : m # n => heldBy'[m] = {}
    BY <1>2, <2>1 DEF PoolTypeOK
  <2>4. PoolTypeOK'
    BY <1>3, <2>1, <2>2 DEF PoolTypeOK
  <2>5. CallersOK'
    <3> SUFFICES ASSUME NEW d \in PoolCallers
                 PROVE  /\ caller'[d].op = "none" => caller'[d] = AtRest
                        /\ caller'[d].op # "none" =>
                              /\ tableLock' = <<caller'[d].lock>>
                              /\ caller'[d].lock \in Objects /\ caller'[d].store \in Stores
                        /\ caller'[d].op = "create" =>
                              heldBy'[caller'[d].lock] = {d} /\ sharedPool' = <<>>
                        /\ caller'[d].op \in {"connect", "close"} =>
                              \E i \in 1 .. Len(line'[caller'[d].lock]) :
                                 line'[caller'[d].lock][i] = d
      BY DEF CallersOK
    <3>1. CASE d = c
      BY <1>3, <1>5, <2>1, <2>2, <2>3, <3>1
    <3>2. CASE d # c
      BY <1>1, <1>3, <1>4, <3>2 DEF CallersOK
    <3> QED BY <3>1, <3>2
  <2>6. LinesOK'
    <3> SUFFICES ASSUME NEW m \in Objects
                 PROVE  /\ \A d \in heldBy'[m] : caller'[d].op = "create" /\ caller'[d].lock = m
                        /\ \A i \in 1 .. Len(line'[m]) :
                              /\ caller'[line'[m][i]].op \in {"connect", "close"}
                              /\ caller'[line'[m][i]].lock = m
                              /\ \A j \in 1 .. Len(line'[m]) : line'[m][i] = line'[m][j] => i = j
      BY DEF LinesOK
    <3>1. \A d \in heldBy'[m] : caller'[d].op = "create" /\ caller'[d].lock = m
      BY <2>2, <2>3
    <3>2. \A i \in 1 .. Len(line'[m]) : line'[m][i] \in PoolCallers
      OBVIOUS
    <3> QED BY <1>4, <3>1, <3>2
  <2>7. ClosersOK'
    BY <1>4, <2>1, <2>2, <2>3 DEF ClosersOK
  <2>8. CountsOK'
    BY <1>5, <2>1 DEF CountsOK, Connections
  <2> QED BY <2>4, <2>5, <2>6, <2>7, <2>8
<1>6. CASE sharedPool # <<>>
  <2> DEFINE e == [sharedPool[1] EXCEPT !.references = @ + 1]
  <2>1. /\ sharedPool' = <<e>> /\ store' = [store EXCEPT ![s] = sharedPool[1].pool]
        /\ caller' = [caller EXCEPT ![c] = AtRest] /\ UNCHANGED <<heldBy, openPools>>
    BY <1>6 DEF Connected
  <2>2. sharedPool[1] \in Shared
    BY <1>6 DEF PoolTypeOK
  <2>3. /\ e \in Shared /\ e.pool = sharedPool[1].pool
        /\ e.references = sharedPool[1].references + 1
    <3>1. \A x \in Shared : LET y == [x EXCEPT !.references = @ + 1] IN
             y \in Shared /\ y.pool = x.pool /\ y.references = x.references + 1
      BY DEF Shared
    <3> QED BY <2>2, <3>1
  <2> HIDE DEF e
  <2>4. sharedPool'[1] = e /\ sharedPool' # <<>>
    BY <2>1
  <2>5. AtRest \in PoolCalls /\ AtRest.op = "none" /\ caller'[c] = AtRest
    BY <2>1 DEF AtRest, PoolCalls, PoolTypeOK
  <2>6. sharedPool[1].pool \in Nat \ {0}
    BY <2>2, ObjectsAreThere DEF Shared
  <2>7. PoolTypeOK'
    BY <1>3, <2>1, <2>3, <2>4, <2>5, <2>6 DEF PoolTypeOK
  <2>8. CallersOK'
    BY <1>1, <1>3, <1>4, <2>5 DEF CallersOK
  <2>9. LinesOK'
    <3> SUFFICES ASSUME NEW m \in Objects
                 PROVE  /\ \A d \in heldBy'[m] : caller'[d].op = "create" /\ caller'[d].lock = m
                        /\ \A i \in 1 .. Len(line'[m]) :
                              /\ caller'[line'[m][i]].op \in {"connect", "close"}
                              /\ caller'[line'[m][i]].lock = m
                              /\ \A j \in 1 .. Len(line'[m]) : line'[m][i] = line'[m][j] => i = j
      BY DEF LinesOK
    <3>1. \A i \in 1 .. Len(line'[m]) : line'[m][i] \in PoolCallers
      OBVIOUS
    <3>2. heldBy'[m] = {}
      BY <1>2, <2>1
    <3>3. \A i \in 1 .. Len(line'[m]) : caller'[line'[m][i]] = caller[line'[m][i]]
      BY <1>4, <3>1
    <3> QED BY <3>2, <3>3
  <2>10. ClosersOK'
    <3> SUFFICES ASSUME NEW d \in PoolCallers, caller'[d].op = "close"
                 PROVE  /\ store'[caller'[d].store] # 0
                        /\ \A f \in PoolCallers :
                              caller'[f].op = "close" /\ caller'[f].store = caller'[d].store => f = d
      BY DEF ClosersOK
    <3>1. d # c /\ caller'[d] = caller[d]
      BY <1>4, <2>5
    <3>2. store[caller[d].store] # 0 /\ caller[d].store \in Stores
      BY <3>1 DEF ClosersOK, CallersOK
    <3>3. store'[caller[d].store] # 0
      BY <2>1, <2>6, <3>2 DEF PoolTypeOK
    <3> QED BY <1>4, <2>5, <3>1, <3>3 DEF ClosersOK
  <2>11. CountsOK'
    <3>1. Connections' = Connections \cup {s}
      BY <2>1, <2>6 DEF Connections, PoolTypeOK
    <3>0. /\ Cardinality(Connections \cup {s}) \in Nat
          /\ Cardinality(Connections \cup {s}) <= Cardinality(Connections) + 1
      <4> DEFINE k == Cardinality(Connections)
      <4>1. k \in Nat /\ IsFiniteSet(Connections)
        BY ConnectionsAreFinite
      <4>2. Cardinality(Connections \cup {s}) = IF s \in Connections THEN k ELSE k + 1
        BY <4>1, FS_AddElement
      <4> HIDE DEF k
      <4>3. Cardinality(Connections \cup {s}) \in Nat /\ Cardinality(Connections \cup {s}) <= k + 1
        BY <4>1, <4>2
      <4> QED BY <4>3 DEF k
    <3>2. Cardinality(Connections') <= Cardinality(Connections) + 1
      BY <3>0, <3>1
    <3>3. Cardinality(Connections') \in Nat
      BY <3>0, <3>1
    <3>4. sharedPool[1].references \in Nat /\ sharedPool[1].references >= Cardinality(Connections)
      BY <1>6, <2>2 DEF CountsOK, Shared
    <3>5. e.references >= Cardinality(Connections')
      BY <2>3, <3>2, <3>3, <3>4, ConnectionsAreFinite
    <3>6. \A t \in Connections' : store'[t] = sharedPool[1].pool
      BY <2>1, <3>1 DEF CountsOK, Connections, PoolTypeOK
    <3>7. sharedPool[1].pool \in openPools' /\ tableLock' # <<>>
      BY <1>3, <1>6, <2>1 DEF CountsOK
    <3> QED BY <2>3, <2>4, <3>5, <3>6, <3>7 DEF CountsOK
  <2> QED BY <2>7, <2>8, <2>9, <2>10, <2>11
<1> QED BY <1>5, <1>6

\* A close under the lock n of a connected store, which nobody else waits to close.
LEMMA CloseKeeps ==
    ASSUME PoolInOrder, NEW c \in PoolCallers, NEW s \in Stores, NEW n \in Objects,
           heldBy[n] = {}, TableWith(c, n) = <<n>>, OthersWait(c, n),
           store[s] # 0,
           \A d \in PoolCallers : d # c /\ caller[d].op = "close" => caller[d].store # s,
           Closed(c, s, n)
    PROVE  PoolIInv'
<1> SUFFICES ASSUME ~disturbed' PROVE PoolInOrder'
  BY DEF PoolIInv
<1> USE DEF PoolInOrder, OthersWait
<1>1. \A d \in PoolCallers : caller[d].op \in {"none", "connect", "close"}
  BY FreeMeansNobodyCreates
<1>2. \A m \in Objects : heldBy[m] = {}
  <2>1. \A m \in Objects : heldBy[m] \subseteq PoolCallers
    BY DEF PoolTypeOK
  <2> SUFFICES ASSUME NEW m \in Objects, NEW d \in heldBy[m] PROVE FALSE
    OBVIOUS
  <2>2. d \in PoolCallers /\ caller[d].op = "create"
    BY <2>1 DEF LinesOK
  <2> QED BY <1>1, <2>2
<1>3. /\ store' = [store EXCEPT ![s] = 0] /\ caller' = [caller EXCEPT ![c] = AtRest]
      /\ heldBy' = heldBy
  BY DEF Closed
<1>4. s \in Connections /\ sharedPool # <<>> /\ sharedPool[1] \in Shared
  BY DEF Connections, CountsOK, PoolTypeOK
<1>5. /\ \A d \in PoolCallers : d # c => caller'[d] = caller[d]
      /\ caller'[c] = AtRest /\ AtRest \in PoolCalls /\ AtRest.op = "none"
  BY <1>3 DEF AtRest, PoolCalls, PoolTypeOK
<1>6. Connections' = Connections \ {s}
  BY <1>3 DEF Connections, PoolTypeOK
<1> DEFINE k == Cardinality(Connections)
           r == sharedPool[1].references
           left == ReferencesAfter(sharedPool[1])
<1>7. k \in Nat /\ r \in Nat /\ r >= k /\ left = r - 1
  BY <1>4, ConnectionsAreFinite DEF CountsOK, Shared, ReferencesAfter
<1>8. Cardinality(Connections \ {s}) = k - 1 /\ IsFiniteSet(Connections \ {s}) /\ k > 0
  <2>1. Cardinality(Connections \ {s}) = k - 1 /\ IsFiniteSet(Connections \ {s})
    BY <1>4, ConnectionsAreFinite, FS_RemoveElement
  <2>2. Cardinality(Connections \ {s}) \in Nat
    BY <2>1, FS_CardinalityType
  <2> HIDE DEF k
  <2> QED BY <1>7, <2>1, <2>2
<1>9. PoolTypeOK' /\ \A d \in PoolCallers : caller'[d].op # "none" => tableLock' = <<n>>
  <2>1. CASE left = 0
    <3>1. /\ sharedPool' = <<>> /\ tableLock' = <<>>
          /\ disturbed' = (disturbed \/ line'[n] # <<>>)
      BY <1>4, <2>1 DEF Closed
    <3>2. line'[n] = <<>>
      BY <3>1
    <3>3. \A d \in PoolCallers : caller'[d].op = "none"
      BY <1>1, <1>5, <3>2
    <3> QED BY <1>3, <1>5, <3>1, <3>3 DEF PoolTypeOK
  <2>2. CASE left # 0
    <3> DEFINE e == [sharedPool[1] EXCEPT !.references = ReferencesAfter(sharedPool[1])]
    <3>1. sharedPool' = <<e>> /\ tableLock' = <<n>>
      BY <1>4, <2>2 DEF Closed
    <3>2. e \in Shared
      <4>1. left \in Nat
        <5> HIDE DEF k, r, left
        <5> QED BY <1>7, <1>8
      <4> QED BY <1>4, <4>1 DEF Shared
    <3> HIDE DEF e
    <3>3. sharedPool'[1] \in Shared
      BY <3>1, <3>2
    <3> QED BY <1>3, <1>5, <3>1, <3>3 DEF PoolTypeOK
  <2> QED BY <2>1, <2>2
<1>10. CallersOK'
  BY <1>1, <1>5, <1>9 DEF CallersOK
<1>11. LinesOK'
  <2> SUFFICES ASSUME NEW m \in Objects
               PROVE  /\ \A d \in heldBy'[m] : caller'[d].op = "create" /\ caller'[d].lock = m
                      /\ \A i \in 1 .. Len(line'[m]) :
                            /\ caller'[line'[m][i]].op \in {"connect", "close"}
                            /\ caller'[line'[m][i]].lock = m
                            /\ \A j \in 1 .. Len(line'[m]) : line'[m][i] = line'[m][j] => i = j
    BY DEF LinesOK
  <2>1. \A i \in 1 .. Len(line'[m]) : line'[m][i] \in PoolCallers
    OBVIOUS
  <2>2. heldBy'[m] = {}
    BY <1>2, <1>3
  <2>3. \A i \in 1 .. Len(line'[m]) : caller'[line'[m][i]] = caller[line'[m][i]]
    BY <1>5, <2>1
  <2>4. \A i \in 1 .. Len(line'[m]) :
           /\ caller[line'[m][i]].op \in {"connect", "close"} /\ caller[line'[m][i]].lock = m
           /\ \A j \in 1 .. Len(line'[m]) : line'[m][i] = line'[m][j] => i = j
    OBVIOUS
  <2> HIDE DEF PoolInOrder
  <2> QED BY ONLY <2>2, <2>3, <2>4
<1>12. ClosersOK'
  <2> SUFFICES ASSUME NEW d \in PoolCallers, caller'[d].op = "close"
               PROVE  /\ store'[caller'[d].store] # 0
                      /\ \A f \in PoolCallers :
                            caller'[f].op = "close" /\ caller'[f].store = caller'[d].store => f = d
    BY DEF ClosersOK
  <2>1. d # c /\ caller'[d] = caller[d]
    BY <1>5
  <2>2. store[caller[d].store] # 0 /\ caller[d].store \in Stores /\ caller[d].store # s
    BY <2>1 DEF ClosersOK, CallersOK
  <2>3. store'[caller[d].store] # 0
    BY <1>3, <2>2 DEF PoolTypeOK
  <2> QED BY <1>5, <2>1, <2>3 DEF ClosersOK
<1>13. CountsOK'
  <2>1. CASE left = 0
    <3>1. sharedPool' = <<>>
      BY <1>4, <2>1 DEF Closed
    <3>2. Cardinality(Connections \ {s}) = 0
      <4> HIDE DEF k, r, left
      <4> QED BY <1>7, <1>8, <2>1
    <3>3. Connections' = {}
      BY <1>6, <1>8, <3>2, FS_EmptySet
    <3> QED BY <3>1, <3>3 DEF CountsOK
  <2>2. CASE left # 0
    <3> DEFINE e == [sharedPool[1] EXCEPT !.references = ReferencesAfter(sharedPool[1])]
    <3>1. sharedPool' = <<e>> /\ tableLock' = <<n>> /\ openPools' = openPools
      BY <1>4, <2>2 DEF Closed
    <3>2. e.references = left /\ e.pool = sharedPool[1].pool
      BY <1>4 DEF Shared
    <3> HIDE DEF e
    <3>3. sharedPool'[1] = e /\ sharedPool' # <<>> /\ tableLock' # <<>>
      BY <3>1
    <3>4. Cardinality(Connections') = Cardinality(Connections \ {s})
      BY <1>6
    <3>5. e.references >= Cardinality(Connections')
      <4> HIDE DEF k, r, left
      <4> QED BY <1>7, <1>8, <3>2, <3>4
    <3>6. \A t \in Connections' : store'[t] = store[t] /\ t \in Connections
      BY <1>3, <1>6 DEF Connections, PoolTypeOK
    <3> QED BY <1>4, <3>1, <3>2, <3>3, <3>5, <3>6 DEF CountsOK
  <2> QED BY <2>1, <2>2
<1> QED BY <1>9, <1>10, <1>11, <1>12, <1>13

\* What is left of a line when its first leaves.
LEMMA TailOfALine ==
    ASSUME NEW S, NEW q \in Seq(S), Len(q) # 0
    PROVE  /\ Tail(q) \in Seq(S) /\ Len(Tail(q)) = Len(q) - 1 /\ Head(q) = q[1]
           /\ \A i \in 1 .. Len(q) - 1 : Tail(q)[i] = q[i + 1]
OBVIOUS

\* A step goes on from the disturbance that an earlier one made.
LEMMA DisturbedStays == ASSUME PoolNext, disturbed PROVE disturbed'
<1> SUFFICES ASSUME NEW c \in PoolCallers PROVE
       /\ TakeTurn(c) \/ PoolCreated(c) \/ CreationFails(c) \/ GiveUp(c) => disturbed'
       /\ \A s \in Stores, op \in {"connect", "close"} : PoolCall(c, op, s) => disturbed'
  BY DEF PoolNext
<1>1. \A op, s, n : Body(c, op, s, n) => disturbed'
  BY DEF Body, Connected, Closed
<1>2. TakeTurn(c) => disturbed'
  BY <1>1 DEF TakeTurn
<1>3. PoolCreated(c) \/ CreationFails(c) \/ GiveUp(c) => disturbed'
  BY DEF PoolCreated, CreationFails, GiveUp
<1>4. \A s \in Stores, op \in {"connect", "close"} : PoolCall(c, op, s) => disturbed'
  BY <1>1 DEF PoolCall
<1> QED BY <1>2, <1>3, <1>4

\* The first of the line goes on.
LEMMA TurnKeeps == ASSUME PoolInOrder, NEW c \in PoolCallers, TakeTurn(c) PROVE PoolIInv'
<1>1. caller[c].op \in {"connect", "close"} /\ caller[c].op # "none"
  BY DEF TakeTurn
<1>2. PICK n \in Objects : n = caller[c].lock
  BY <1>1 DEF PoolInOrder, CallersOK
<1>3. PICK s \in Stores : s = caller[c].store
  BY <1>1 DEF PoolInOrder, CallersOK
<1> DEFINE q == line[n]
<1>4. /\ caller[c].op \in {"connect", "close"} /\ heldBy[n] = {} /\ Head(q) = c
      /\ line' = [line EXCEPT ![n] = Tail(q)] /\ Body(c, caller[c].op, s, n)
  BY <1>2, <1>3 DEF TakeTurn
<1>5. n \in Objects /\ s \in Stores /\ tableLock = <<n>>
  BY <1>4, <1>2, <1>3 DEF PoolInOrder, CallersOK
<1>6. q \in Seq(PoolCallers) /\ Len(q) \in Nat
  BY <1>5 DEF PoolInOrder, PoolTypeOK
<1>7. \E i \in 1 .. Len(q) : q[i] = c
  BY <1>4, <1>2 DEF PoolInOrder, CallersOK
<1>8. /\ Tail(q) \in Seq(PoolCallers) /\ Len(Tail(q)) = Len(q) - 1 /\ q[1] = c
      /\ \A i \in 1 .. Len(q) - 1 : Tail(q)[i] = q[i + 1]
  <2> HIDE DEF q
  <2> QED BY <1>4, <1>6, <1>7, TailOfALine
<1>9. TableWith(c, n) = <<n>>
  BY <1>4, <1>5 DEF TableWith, AtRest
<1>10. \A d \in PoolCallers : caller[d].op # "none" => caller[d].lock = n
  BY <1>5 DEF PoolInOrder, CallersOK
<1>11. line' \in [Objects -> Seq(PoolCallers)]
  <2> HIDE DEF q
  <2> QED BY <1>4, <1>5, <1>8 DEF PoolInOrder, PoolTypeOK
<1>12. line'[n] = Tail(q) /\ \A m \in Objects : m # n => line'[m] = line[m]
  <2> HIDE DEF q
  <2> QED BY <1>4, <1>5 DEF PoolInOrder, PoolTypeOK
<1>13. \A d \in PoolCallers : d # c /\ caller[d].op \in {"connect", "close"} =>
          \E i \in 1 .. Len(line'[n]) : line'[n][i] = d
  <2> SUFFICES ASSUME NEW d \in PoolCallers, d # c, caller[d].op \in {"connect", "close"}
               PROVE  \E i \in 1 .. Len(Tail(q)) : Tail(q)[i] = d
    BY <1>12
  <2>1. \E i \in 1 .. Len(line[caller[d].lock]) : line[caller[d].lock][i] = d
    BY DEF PoolInOrder, CallersOK
  <2>2. PICK i \in 1 .. Len(q) : q[i] = d
    BY <1>10, <2>1
  <2> HIDE DEF q
  <2>3. i - 1 \in 1 .. Len(q) - 1 /\ (i - 1) + 1 = i
    BY <1>6, <1>8, <2>2
  <2> QED BY <1>8, <2>2, <2>3
<1>14. \A m \in Objects : \A i \in 1 .. Len(line'[m]) :
          /\ line'[m][i] # c /\ caller[line'[m][i]].op \in {"connect", "close"}
          /\ caller[line'[m][i]].lock = m
          /\ \A j \in 1 .. Len(line'[m]) : line'[m][i] = line'[m][j] => i = j
  <2> SUFFICES ASSUME NEW m \in Objects, NEW i \in 1 .. Len(line'[m])
               PROVE  /\ line'[m][i] # c /\ caller[line'[m][i]].op \in {"connect", "close"}
                      /\ caller[line'[m][i]].lock = m
                      /\ \A j \in 1 .. Len(line'[m]) : line'[m][i] = line'[m][j] => i = j
    OBVIOUS
  <2>1. CASE m # n
    <3>1. line'[m] = line[m]
      BY <1>12, <2>1
    <3> QED BY <1>2, <2>1, <3>1 DEF PoolInOrder, LinesOK
  <2>2. CASE m = n
    <3>1. \A k \in 1 .. Len(q) :
             /\ caller[q[k]].op \in {"connect", "close"} /\ caller[q[k]].lock = n
             /\ \A j \in 1 .. Len(q) : q[k] = q[j] => k = j
      BY <1>5 DEF PoolInOrder, LinesOK
    <3> HIDE DEF q
    <3>2. i \in 1 .. Len(q) - 1 /\ i + 1 \in 1 .. Len(q) /\ 1 \in 1 .. Len(q) /\ i + 1 # 1
      BY <1>6, <1>8, <1>12, <2>2
    <3>3. line'[m][i] = q[i + 1] /\ q[i + 1] # c
      BY <1>8, <1>12, <2>2, <3>1, <3>2
    <3>4. ASSUME NEW j \in 1 .. Len(line'[m]), line'[m][i] = line'[m][j] PROVE i = j
      <4>1. j \in 1 .. Len(q) - 1 /\ j + 1 \in 1 .. Len(q) /\ line'[m][j] = q[j + 1]
        BY <1>6, <1>8, <1>12, <2>2, <3>4
      <4>2. i + 1 = j + 1
        BY <3>1, <3>2, <3>3, <3>4, <4>1
      <4> QED BY <3>2, <4>1, <4>2
    <3> QED BY <2>2, <3>1, <3>2, <3>3, <3>4
  <2> QED BY <2>1, <2>2
<1>15. OthersWait(c, n)
  BY <1>10, <1>11, <1>13, <1>14 DEF OthersWait
<1>16. CASE caller[c].op = "connect"
  <2>1. Connected(c, s, n)
    BY <1>4, <1>16 DEF Body
  <2>2. PoolInOrder'
    <3> HIDE DEF q
    <3> QED BY <1>4, <1>9, <1>15, <2>1, ConnectKeeps
  <2> QED BY <2>2 DEF PoolIInv
<1>17. CASE caller[c].op = "close"
  <2>1. Closed(c, s, n)
    BY <1>4, <1>17 DEF Body
  <2>2. store[s] # 0 /\ \A d \in PoolCallers : d # c /\ caller[d].op = "close" => caller[d].store # s
    BY <1>17, <1>3 DEF PoolInOrder, ClosersOK
  <2> HIDE DEF q
  <2> QED BY <1>4, <1>9, <1>15, <2>1, <2>2, CloseKeeps
<1> QED BY <1>4, <1>16, <1>17

\* A call enters connect or close, or the line of the lock.
LEMMA CallKeeps ==
    ASSUME PoolInOrder, NEW c \in PoolCallers, NEW s \in Stores,
           NEW op \in {"connect", "close"}, PoolCall(c, op, s)
    PROVE  PoolIInv'
<1>1. PICK n \in Objects : n = LockOf
  BY LockIsTheTables
<1>2. /\ caller[c] = AtRest /\ (op = "connect" <=> store[s] = 0)
      /\ AtRest.op = "none" /\ AtRest \in PoolCalls
  BY DEF PoolCall, AtRest, PoolCalls
<1>3. /\ tableLock # <<>> => tableLock = <<n>>
      /\ tableLock = <<>> => /\ \A d \in PoolCallers : caller[d] = AtRest
                             /\ heldBy[n] = {} /\ line[n] = <<>>
  BY <1>1, LockIsTheTables
<1>4. \A d \in PoolCallers : caller[d].op # "none" => caller[d].lock = n
  BY <1>2, <1>3 DEF PoolInOrder, CallersOK
<1>5. /\ line \in [Objects -> Seq(PoolCallers)] /\ caller \in [PoolCallers -> PoolCalls]
      /\ heldBy \in [Objects -> SUBSET PoolCallers] /\ store \in [Stores -> Nat]
  BY DEF PoolInOrder, PoolTypeOK
<1>6. CASE heldBy[n] = {} /\ line[n] = <<>>
  <2>1. line' = line /\ Body(c, op, s, n)
    BY <1>1, <1>6 DEF PoolCall
  <2>2. \A d \in PoolCallers : caller[d] = AtRest
    BY <1>4, <1>6, FreeMeansNobodyCreates
  <2>3. OthersWait(c, n)
    <3>1. \A m \in Objects : \A i \in 1 .. Len(line[m]) :
             line[m][i] \in PoolCallers /\ caller[line[m][i]].op \in {"connect", "close"}
      BY <1>5 DEF PoolInOrder, LinesOK
    <3>2. \A m \in Objects : \A i \in 1 .. Len(line[m]) : FALSE
      BY <1>2, <2>2, <3>1
    <3> QED BY <1>2, <1>5, <2>1, <2>2, <3>2 DEF OthersWait
  <2>4. TableWith(c, n) = <<n>>
    BY <1>2 DEF TableWith
  <2>5. CASE op = "connect"
    <3>1. Connected(c, s, n)
      BY <2>1, <2>5 DEF Body
    <3>2. PoolInOrder'
      BY <1>6, <2>3, <2>4, <3>1, ConnectKeeps
    <3> QED BY <3>2 DEF PoolIInv
  <2>6. CASE op = "close"
    <3>1. Closed(c, s, n)
      BY <2>1, <2>6 DEF Body
    <3>2. store[s] # 0 /\ \A d \in PoolCallers : d # c /\ caller[d].op = "close" => caller[d].store # s
      BY <1>2, <2>2, <2>6
    <3> QED BY <1>6, <2>3, <2>4, <3>1, <3>2, CloseKeeps
  <2> QED BY <2>5, <2>6
<1>7. CASE ~(heldBy[n] = {} /\ line[n] = <<>>)
  <2> SUFFICES ASSUME ~disturbed' PROVE PoolInOrder'
    BY DEF PoolIInv
  <2> DEFINE new == [op |-> op, store |-> s, lock |-> n]
             q == line[n]
  <2>1. /\ line' = [line EXCEPT ![n] = Append(q, c)] /\ caller' = [caller EXCEPT ![c] = new]
        /\ disturbed' = (disturbed \/ (op = "close" /\
              \E d \in PoolCallers : caller[d].op = "close" /\ caller[d].store = s))
        /\ UNCHANGED <<sharedPool, tableLock, heldBy, store, openPools>>
    BY <1>1, <1>7 DEF PoolCall
  <2>2. /\ new \in PoolCalls /\ new.op = op /\ new.store = s /\ new.lock = n
        /\ op # "none" /\ op # "create"
    BY DEF PoolCalls
  <2> HIDE DEF new
  <2>3. tableLock = <<n>>
    BY <1>3, <1>7
  <2>4. /\ q \in Seq(PoolCallers) /\ Append(q, c) \in Seq(PoolCallers)
        /\ Len(q) \in Nat /\ Len(Append(q, c)) = Len(q) + 1 /\ Append(q, c)[Len(q) + 1] = c
        /\ \A i \in 1 .. Len(q) : Append(q, c)[i] = q[i]
    BY <1>5
  <2>5. caller'[c] = new /\ \A d \in PoolCallers : d # c => caller'[d] = caller[d]
    BY <1>5, <2>1
  <2>6. line'[n] = Append(q, c) /\ \A m \in Objects : m # n => line'[m] = line[m]
    <3> HIDE DEF q
    <3> QED BY <1>5, <2>1
  <2>7. PoolTypeOK'
    <3>1. line' \in [Objects -> Seq(PoolCallers)]
      <4> HIDE DEF q
      <4> QED BY <1>5, <2>1, <2>4
    <3>2. caller' \in [PoolCallers -> PoolCalls]
      BY <1>5, <2>1, <2>2
    <3> QED BY <2>1, <3>1, <3>2 DEF PoolInOrder, PoolTypeOK
  <2>8. CallersOK'
    <3> SUFFICES ASSUME NEW d \in PoolCallers
                 PROVE  /\ caller'[d].op = "none" => caller'[d] = AtRest
                        /\ caller'[d].op # "none" =>
                              /\ tableLock' = <<caller'[d].lock>>
                              /\ caller'[d].lock \in Objects /\ caller'[d].store \in Stores
                        /\ caller'[d].op = "create" =>
                              heldBy'[caller'[d].lock] = {d} /\ sharedPool' = <<>>
                        /\ caller'[d].op \in {"connect", "close"} =>
                              \E i \in 1 .. Len(line'[caller'[d].lock]) :
                                 line'[caller'[d].lock][i] = d
      BY DEF CallersOK
    <3>1. CASE d = c
      <4>1. Len(q) + 1 \in 1 .. Len(line'[n]) /\ line'[n][Len(q) + 1] = c
        <5> HIDE DEF q
        <5> QED BY <2>4, <2>6
      <4> QED BY <2>1, <2>2, <2>3, <2>5, <3>1, <4>1
    <3>2. CASE d # c
      <4>1. /\ caller[d].op = "none" => caller[d] = AtRest
            /\ caller[d].op # "none" =>
                  /\ tableLock = <<caller[d].lock>>
                  /\ caller[d].lock \in Objects /\ caller[d].store \in Stores
            /\ caller[d].op = "create" => heldBy[caller[d].lock] = {d} /\ sharedPool = <<>>
        BY DEF PoolInOrder, CallersOK
      <4>2. ASSUME caller[d].op \in {"connect", "close"}
            PROVE  \E i \in 1 .. Len(line'[n]) : line'[n][i] = d
        <5>1. \E i \in 1 .. Len(q) : q[i] = d
          BY <1>4, <4>2 DEF PoolInOrder, CallersOK
        <5> HIDE DEF q
        <5> QED BY <2>4, <2>6, <5>1
      <4>3. caller[d].op \in {"connect", "close"} => caller[d].lock = n
        BY <1>4
      <4> QED BY <2>1, <2>5, <3>2, <4>1, <4>2, <4>3
    <3> QED BY <3>1, <3>2
  <2>9. LinesOK'
    <3> SUFFICES ASSUME NEW m \in Objects
                 PROVE  /\ \A d \in heldBy'[m] : caller'[d].op = "create" /\ caller'[d].lock = m
                        /\ \A i \in 1 .. Len(line'[m]) :
                              /\ caller'[line'[m][i]].op \in {"connect", "close"}
                              /\ caller'[line'[m][i]].lock = m
                              /\ \A j \in 1 .. Len(line'[m]) : line'[m][i] = line'[m][j] => i = j
      BY DEF LinesOK
    <3>1. /\ \A d \in heldBy[m] : caller[d].op = "create" /\ caller[d].lock = m
          /\ \A i \in 1 .. Len(line[m]) :
                /\ caller[line[m][i]].op \in {"connect", "close"} /\ caller[line[m][i]].lock = m
                /\ \A j \in 1 .. Len(line[m]) : line[m][i] = line[m][j] => i = j
      BY DEF PoolInOrder, LinesOK
    <3>2. heldBy'[m] = heldBy[m] /\ heldBy[m] \subseteq PoolCallers
      BY <1>5, <2>1
    <3>3. \A d \in heldBy'[m] : caller'[d].op = "create" /\ caller'[d].lock = m
      BY <1>2, <2>5, <3>1, <3>2
    <3>4. \A i \in 1 .. Len(line[m]) : line[m][i] \in PoolCallers /\ line[m][i] # c
      BY <1>2, <1>5, <3>1
    <3>5. \A i \in 1 .. Len(line[m]) :
             caller'[line[m][i]].op \in {"connect", "close"} /\ caller'[line[m][i]].lock = m
      BY <2>5, <3>1, <3>4
    <3>6. CASE m # n
      BY <2>6, <3>1, <3>3, <3>5, <3>6
    <3>7. CASE m = n
      <4>1. /\ \A i \in 1 .. Len(q) : caller'[q[i]].op \in {"connect", "close"} /\ caller'[q[i]].lock = n
            /\ \A i \in 1 .. Len(q) : q[i] # c
            /\ \A i, j \in 1 .. Len(q) : q[i] = q[j] => i = j
        BY <3>1, <3>4, <3>5, <3>7
      <4>2. caller'[c].op \in {"connect", "close"} /\ caller'[c].lock = n
        BY <2>2, <2>5
      <4> HIDE DEF q
      <4>3. \A i \in 1 .. Len(line'[n]) : i = Len(q) + 1 \/ i \in 1 .. Len(q)
        BY <2>4, <2>6
      <4>4. /\ line'[n][Len(q) + 1] = c
            /\ \A i \in 1 .. Len(q) : line'[n][i] = q[i]
        BY <2>4, <2>6
      <4>5. \A i \in 1 .. Len(line'[n]) :
               /\ caller'[line'[n][i]].op \in {"connect", "close"}
               /\ caller'[line'[n][i]].lock = n
               /\ \A j \in 1 .. Len(line'[n]) : line'[n][i] = line'[n][j] => i = j
        BY ONLY <4>1, <4>2, <4>3, <4>4
      <4> QED BY <3>3, <3>7, <4>5
    <3> QED BY <3>6, <3>7
  <2>10. ClosersOK'
    <3>1. \A d \in PoolCallers : caller[d].op = "close" => op # "close" \/ caller[d].store # s
      BY <2>1
    <3>2. op = "close" => store[s] # 0
      BY <1>2
    <3>3. \A d \in PoolCallers : caller'[d].op = "close" =>
             /\ d # c => caller[d].op = "close" /\ caller'[d].store = caller[d].store
             /\ d = c => op = "close" /\ caller'[d].store = s
      BY <2>2, <2>5
    <3> QED BY <2>1, <3>1, <3>2, <3>3 DEF PoolInOrder, ClosersOK
  <2>11. CountsOK'
    <3>1. Connections' = Connections
      BY <2>1 DEF Connections
    <3> QED BY <2>1, <3>1 DEF PoolInOrder, CountsOK
  <2> QED BY <2>7, <2>8, <2>9, <2>10, <2>11 DEF PoolInOrder
<1> QED BY <1>6, <1>7

\* Who creates the pool is alone in it: no store is connected or waits to be closed.
LEMMA CreatorIsAlone ==
    ASSUME PoolInOrder, NEW c \in PoolCallers, caller[c].op = "create"
    PROVE  /\ sharedPool = <<>> /\ tableLock = <<caller[c].lock>> /\ Connections = {}
           /\ caller[c].lock \in Objects /\ caller[c].store \in Stores
           /\ \A m \in Objects : m # caller[c].lock => heldBy[m] = {}
           /\ \A d \in PoolCallers : d # c => caller[d].op \in {"none", "connect"}
<1>1. /\ heldBy[caller[c].lock] = {c} /\ sharedPool = <<>> /\ tableLock = <<caller[c].lock>>
      /\ caller[c].lock \in Objects /\ caller[c].store \in Stores
  BY DEF PoolInOrder, CallersOK
<1>2. Connections = {}
  BY <1>1 DEF PoolInOrder, CountsOK
<1>3. \A d \in PoolCallers : caller[d].op # "none" => caller[d].lock = caller[c].lock
  BY <1>1 DEF PoolInOrder, CallersOK
<1>4. \A m \in Objects : m # caller[c].lock => heldBy[m] = {}
  <2> SUFFICES ASSUME NEW m \in Objects, m # caller[c].lock, NEW d \in heldBy[m] PROVE FALSE
    OBVIOUS
  <2>1. d \in PoolCallers
    BY DEF PoolInOrder, PoolTypeOK
  <2>2. caller[d].op = "create" /\ caller[d].lock = m
    BY DEF PoolInOrder, LinesOK
  <2> QED BY <1>3, <2>1, <2>2
<1>5. ASSUME NEW d \in PoolCallers, d # c PROVE caller[d].op \in {"none", "connect"}
  <2>1. caller[d].op \in {"none", "connect", "close", "create"}
    BY DEF PoolInOrder, PoolTypeOK, PoolCalls
  <2>2. caller[d].op # "create"
    BY <1>1, <1>3, <1>5 DEF PoolInOrder, CallersOK
  <2>3. caller[d].op # "close"
    BY <1>2 DEF PoolInOrder, CallersOK, ClosersOK, Connections
  <2> QED BY <2>1, <2>2, <2>3
<1> QED BY <1>1, <1>2, <1>4, <1>5

\* When it leaves, with a pool or without one, the others wait as before.
LEMMA CreatorLeaves ==
    ASSUME PoolInOrder, NEW c \in PoolCallers, caller[c].op = "create",
           heldBy' = [heldBy EXCEPT ![caller[c].lock] = {}],
           caller' = [caller EXCEPT ![c] = AtRest], line' = line, tableLock' = tableLock
    PROVE  /\ CallersOK' /\ LinesOK' /\ ClosersOK'
           /\ heldBy' \in [Objects -> SUBSET PoolCallers]
           /\ caller' \in [PoolCallers -> PoolCalls]
<1>1. /\ AtRest.op = "none" /\ AtRest \in PoolCalls
      /\ heldBy \in [Objects -> SUBSET PoolCallers] /\ caller \in [PoolCallers -> PoolCalls]
      /\ line \in [Objects -> Seq(PoolCallers)]
  BY DEF AtRest, PoolCalls, PoolInOrder, PoolTypeOK
<1>2. caller'[c] = AtRest /\ \A d \in PoolCallers : d # c => caller'[d] = caller[d]
  BY <1>1
<1>3. \A m \in Objects : heldBy'[m] = {}
  BY <1>1, CreatorIsAlone
<1>4. CallersOK'
  <2>1. \A d \in PoolCallers :
           /\ caller[d].op = "none" => caller[d] = AtRest
           /\ caller[d].op # "none" => /\ tableLock = <<caller[d].lock>>
                                       /\ caller[d].lock \in Objects /\ caller[d].store \in Stores
           /\ caller[d].op \in {"connect", "close"} =>
                 \E i \in 1 .. Len(line[caller[d].lock]) : line[caller[d].lock][i] = d
    BY DEF PoolInOrder, CallersOK
  <2> QED BY <1>1, <1>2, <2>1, CreatorIsAlone DEF CallersOK
<1>5. LinesOK'
  <2> SUFFICES ASSUME NEW m \in Objects, NEW i \in 1 .. Len(line[m])
               PROVE  /\ caller'[line[m][i]].op \in {"connect", "close"}
                      /\ caller'[line[m][i]].lock = m
                      /\ \A j \in 1 .. Len(line[m]) : line[m][i] = line[m][j] => i = j
    BY <1>3 DEF LinesOK
  <2>1. line[m][i] \in PoolCallers
    BY <1>1
  <2>2. /\ caller[line[m][i]].op \in {"connect", "close"} /\ caller[line[m][i]].lock = m
        /\ \A j \in 1 .. Len(line[m]) : line[m][i] = line[m][j] => i = j
    BY DEF PoolInOrder, LinesOK
  <2>3. caller'[line[m][i]] = caller[line[m][i]]
    BY <1>2, <2>1, <2>2
  <2> QED BY <2>2, <2>3
<1>6. ClosersOK'
  <2>1. \A d \in PoolCallers : caller'[d].op # "close"
    BY <1>1, <1>2, CreatorIsAlone
  <2> QED BY <2>1 DEF ClosersOK
<1> QED BY <1>1, <1>3, <1>4, <1>5, <1>6

\* A pool is created for one store, which is the first reference to it.
LEMMA CreatedKeeps == ASSUME PoolInOrder, NEW c \in PoolCallers, PoolCreated(c) PROVE PoolInOrder'
<1>1. caller[c].op = "create"
  BY DEF PoolCreated
<1>2. PICK s \in Stores : s = caller[c].store
  BY <1>1, CreatorIsAlone
<1>3. sharedPool = <<>> /\ Connections = {} /\ tableLock # <<>>
  BY <1>1, CreatorIsAlone
<1>4. PICK p \in Objects : p = FreshPool
  <2>1. \A t \in Stores : store[t] = 0
    BY <1>3 DEF Connections
  <2>2. DOMAIN sharedPool = {}
    BY <1>3
  <2>3. FreshPool \in Objects
    BY <2>1, <2>2, ObjectsAreThere DEF FreshPool
  <2> QED BY <2>3
<1> DEFINE e == [pool |-> p, references |-> 1]
<1>5. /\ sharedPool' = <<e>> /\ openPools' = openPools \cup {p} /\ store' = [store EXCEPT ![s] = p]
      /\ heldBy' = [heldBy EXCEPT ![caller[c].lock] = {}]
      /\ caller' = [caller EXCEPT ![c] = AtRest] /\ UNCHANGED <<tableLock, line, disturbed>>
  BY <1>2, <1>4 DEF PoolCreated
<1>6. e \in Shared /\ e.pool = p /\ e.references = 1
  BY DEF Shared
<1> HIDE DEF e
<1>7. sharedPool' # <<>> /\ sharedPool'[1] = e
  BY <1>5
<1>8. p \in Nat /\ p # 0 /\ store \in [Stores -> Nat]
  BY ObjectsAreThere DEF PoolInOrder, PoolTypeOK
<1>9. /\ CallersOK' /\ LinesOK' /\ ClosersOK' /\ heldBy' \in [Objects -> SUBSET PoolCallers]
      /\ caller' \in [PoolCallers -> PoolCalls]
  BY <1>1, <1>5, CreatorLeaves
<1>10. PoolTypeOK'
  <2>1. store' \in [Stores -> Nat]
    BY <1>5, <1>8
  <2> QED BY <1>5, <1>6, <1>7, <1>9, <2>1 DEF PoolInOrder, PoolTypeOK
<1>11. CountsOK'
  <2>1. Connections' = {s}
    BY <1>3, <1>5, <1>8 DEF Connections
  <2>2. Cardinality(Connections') = 1
    BY <2>1, FS_Singleton
  <2>3. \A t \in Connections' : store'[t] = p
    BY <1>5, <1>8, <2>1
  <2>4. p \in openPools' /\ tableLock' # <<>>
    BY <1>3, <1>5
  <2> QED BY <1>6, <1>7, <2>2, <2>3, <2>4 DEF CountsOK
<1> QED BY <1>9, <1>10, <1>11 DEF PoolInOrder

\* A creation that fails leaves no pool.
LEMMA FailureKeeps == ASSUME PoolInOrder, NEW c \in PoolCallers, CreationFails(c) PROVE PoolInOrder'
<1>1. /\ caller[c].op = "create" /\ heldBy' = [heldBy EXCEPT ![caller[c].lock] = {}]
      /\ caller' = [caller EXCEPT ![c] = AtRest]
      /\ UNCHANGED <<sharedPool, tableLock, line, store, openPools, disturbed>>
  BY DEF CreationFails
<1>2. /\ CallersOK' /\ LinesOK' /\ ClosersOK' /\ heldBy' \in [Objects -> SUBSET PoolCallers]
      /\ caller' \in [PoolCallers -> PoolCalls]
  BY <1>1, CreatorLeaves
<1>3. PoolTypeOK'
  BY <1>1, <1>2 DEF PoolInOrder, PoolTypeOK
<1>4. CountsOK'
  <2>1. Connections' = Connections
    BY <1>1 DEF Connections
  <2> QED BY <1>1, <2>1 DEF PoolInOrder, CountsOK
<1> QED BY <1>2, <1>3, <1>4 DEF PoolInOrder

\* A line without the one at a place of it.
ShorterBy(q, k) == [i \in 1 .. Len(q) - 1 |-> q[IF i < k THEN i ELSE i + 1]]

\* It is a line, of the others in their order.
LEMMA LineWithoutAPlace ==
    ASSUME NEW q \in Seq(PoolCallers), NEW k \in 1 .. Len(q)
    PROVE  /\ ShorterBy(q, k) \in Seq(PoolCallers) /\ Len(ShorterBy(q, k)) = Len(q) - 1
           /\ \A i \in 1 .. Len(q) - 1 : \E j \in 1 .. Len(q) :
                 /\ j # k /\ ShorterBy(q, k)[i] = q[j]
                 /\ i < k => j = i
                 /\ ~(i < k) => j = i + 1
           /\ \A j \in 1 .. Len(q) : j # k =>
                 \E i \in 1 .. Len(q) - 1 : ShorterBy(q, k)[i] = q[j]
<1> DEFINE r == ShorterBy(q, k)
<1> USE DEF ShorterBy
<1>1. Len(q) \in Nat /\ Len(q) - 1 \in Nat /\ q \in [1 .. Len(q) -> PoolCallers]
  OBVIOUS
<1>2. \A i \in 1 .. Len(q) - 1 : (IF i < k THEN i ELSE i + 1) \in 1 .. Len(q) /\ (IF i < k THEN i ELSE i + 1) # k
  BY <1>1
<1>3. r \in [1 .. Len(q) - 1 -> PoolCallers]
  BY <1>1, <1>2
<1>4. r \in Seq(PoolCallers) /\ Len(r) = Len(q) - 1
  BY <1>1, <1>3
<1>5. \A i \in 1 .. Len(q) - 1 : r[i] = q[IF i < k THEN i ELSE i + 1]
  OBVIOUS
<1>6. ASSUME NEW j \in 1 .. Len(q), j # k PROVE \E i \in 1 .. Len(r) : r[i] = q[j]
  <2>1. CASE j < k
    BY <1>1, <1>4, <1>5, <2>1
  <2>2. CASE j > k
    <3>1. j - 1 \in 1 .. Len(q) - 1 /\ ~(j - 1 < k) /\ (j - 1) + 1 = j
      BY <1>1, <2>2
    <3>2. r[j - 1] = q[j]
      BY <1>5, <3>1
    <3> QED BY <1>4, <3>1, <3>2
  <2>3. j < k \/ j > k
    BY <1>1, <1>6
  <2> QED BY <2>1, <2>2, <2>3
<1> QED BY <1>2, <1>4, <1>5, <1>6

\* Who gives up leaves the line, and the others stand in it as before.
LEMMA GiveUpKeeps == ASSUME PoolInOrder, NEW c \in PoolCallers, GiveUp(c) PROVE PoolInOrder'
<1>1. caller[c].op \in {"connect", "close"}
  BY DEF GiveUp
<1>2. PICK n \in Objects : n = caller[c].lock
  BY <1>1 DEF PoolInOrder, CallersOK
<1>3. PICK q : q = line[n]
  OBVIOUS
<1>4. /\ line' = [line EXCEPT ![n] = LineWithout(c)] /\ caller' = [caller EXCEPT ![c] = AtRest]
      /\ UNCHANGED <<sharedPool, tableLock, heldBy, store, openPools, disturbed>>
  BY <1>2 DEF GiveUp
<1>5. /\ line \in [Objects -> Seq(PoolCallers)] /\ caller \in [PoolCallers -> PoolCalls]
      /\ heldBy \in [Objects -> SUBSET PoolCallers]
      /\ AtRest.op = "none" /\ AtRest \in PoolCalls
  BY DEF PoolInOrder, PoolTypeOK, AtRest, PoolCalls
<1>6. \E i \in 1 .. Len(q) : q[i] = c
  BY <1>1, <1>2, <1>3 DEF PoolInOrder, CallersOK
<1>7. PICK k \in 1 .. Len(q) : k = CHOOSE i \in DOMAIN q : q[i] = c
  BY <1>5, <1>3, <1>6
<1>8. q[k] = c
  BY <1>5, <1>3, <1>6, <1>7
<1>9. PICK r : r = LineWithout(c)
  OBVIOUS
<1>10. r = ShorterBy(q, k)
  BY <1>2, <1>3, <1>7, <1>9 DEF LineWithout, ShorterBy
<1>11. q \in Seq(PoolCallers)
  BY <1>5, <1>3
<1>12. /\ r \in Seq(PoolCallers) /\ Len(r) = Len(q) - 1
       /\ \A i \in 1 .. Len(q) - 1 : \E j \in 1 .. Len(q) :
             j # k /\ r[i] = q[j] /\ (i < k => j = i) /\ (~(i < k) => j = i + 1)
       /\ \A j \in 1 .. Len(q) : j # k => \E i \in 1 .. Len(q) - 1 : r[i] = q[j]
  <2>1. /\ ShorterBy(q, k) \in Seq(PoolCallers) /\ Len(ShorterBy(q, k)) = Len(q) - 1
        /\ \A i \in 1 .. Len(q) - 1 : \E j \in 1 .. Len(q) :
              /\ j # k /\ ShorterBy(q, k)[i] = q[j]
              /\ i < k => j = i
              /\ ~(i < k) => j = i + 1
        /\ \A j \in 1 .. Len(q) : j # k =>
              \E i \in 1 .. Len(q) - 1 : ShorterBy(q, k)[i] = q[j]
    BY <1>11, LineWithoutAPlace
  <2> QED BY ONLY <1>10, <2>1
<1>13. line'[n] = r /\ \A m \in Objects : m # n => line'[m] = line[m]
  BY <1>4, <1>5, <1>9
<1>14. caller'[c] = AtRest /\ \A d \in PoolCallers : d # c => caller'[d] = caller[d]
  BY <1>4, <1>5
<1>15. PoolTypeOK'
  <2>1. line' \in [Objects -> Seq(PoolCallers)]
    BY <1>4, <1>5, <1>9, <1>12
  <2>2. caller' \in [PoolCallers -> PoolCalls]
    BY <1>4, <1>5
  <2> QED BY <1>4, <2>1, <2>2 DEF PoolInOrder, PoolTypeOK
<1>16. \A m \in Objects : \A i \in 1 .. Len(line[m]) :
          /\ line[m][i] \in PoolCallers
          /\ caller[line[m][i]].op \in {"connect", "close"} /\ caller[line[m][i]].lock = m
          /\ \A j \in 1 .. Len(line[m]) : line[m][i] = line[m][j] => i = j
  BY <1>5 DEF PoolInOrder, LinesOK
<1>17. ASSUME NEW d \in PoolCallers, d # c, caller[d].op \in {"connect", "close"}
       PROVE  \E i \in 1 .. Len(line'[caller[d].lock]) : line'[caller[d].lock][i] = d
  <2>1. caller[d].lock \in Objects
        /\ \E i \in 1 .. Len(line[caller[d].lock]) : line[caller[d].lock][i] = d
    BY <1>17 DEF PoolInOrder, CallersOK
  <2>2. CASE caller[d].lock # n
    BY <1>13, <2>1, <2>2
  <2>3. CASE caller[d].lock = n
    <3>1. PICK j \in 1 .. Len(q) : q[j] = d
      BY <1>3, <2>1, <2>3
    <3>2. \E i \in 1 .. Len(r) : r[i] = q[j]
      BY <1>8, <1>12, <1>17, <3>1
    <3> QED BY <1>13, <2>3, <3>1, <3>2
  <2> QED BY <2>2, <2>3
<1>18. CallersOK'
  <2> SUFFICES ASSUME NEW d \in PoolCallers
               PROVE  /\ caller'[d].op = "none" => caller'[d] = AtRest
                      /\ caller'[d].op # "none" =>
                            /\ tableLock' = <<caller'[d].lock>>
                            /\ caller'[d].lock \in Objects /\ caller'[d].store \in Stores
                      /\ caller'[d].op = "create" =>
                            heldBy'[caller'[d].lock] = {d} /\ sharedPool' = <<>>
                      /\ caller'[d].op \in {"connect", "close"} =>
                            \E i \in 1 .. Len(line'[caller'[d].lock]) :
                               line'[caller'[d].lock][i] = d
    BY DEF CallersOK
  <2>1. CASE d = c
    BY <1>5, <1>14, <2>1
  <2>2. CASE d # c
    <3>1. /\ caller[d].op = "none" => caller[d] = AtRest
          /\ caller[d].op # "none" =>
                /\ tableLock = <<caller[d].lock>>
                /\ caller[d].lock \in Objects /\ caller[d].store \in Stores
          /\ caller[d].op = "create" => heldBy[caller[d].lock] = {d} /\ sharedPool = <<>>
      BY DEF PoolInOrder, CallersOK
    <3> QED BY <1>4, <1>14, <1>17, <2>2, <3>1
  <2> QED BY <2>1, <2>2
<1>19. LinesOK'
  <2> SUFFICES ASSUME NEW m \in Objects
               PROVE  /\ \A d \in heldBy'[m] : caller'[d].op = "create" /\ caller'[d].lock = m
                      /\ \A i \in 1 .. Len(line'[m]) :
                            /\ caller'[line'[m][i]].op \in {"connect", "close"}
                            /\ caller'[line'[m][i]].lock = m
                            /\ \A j \in 1 .. Len(line'[m]) : line'[m][i] = line'[m][j] => i = j
    BY DEF LinesOK
  <2>1. \A d \in heldBy'[m] : caller'[d].op = "create" /\ caller'[d].lock = m
    <3>1. \A d \in heldBy[m] : d \in PoolCallers /\ caller[d].op = "create" /\ caller[d].lock = m
      BY <1>5 DEF PoolInOrder, LinesOK
    <3> QED BY <1>1, <1>4, <1>14, <3>1
  <2>2. CASE m # n
    <3>1. \A i \in 1 .. Len(line[m]) : caller'[line[m][i]] = caller[line[m][i]]
      BY <1>2, <1>14, <1>16, <2>2
    <3> QED BY <1>13, <1>16, <2>1, <2>2, <3>1
  <2>3. CASE m = n
    <3>1. \A j \in 1 .. Len(q) : j # k =>
             caller'[q[j]].op \in {"connect", "close"} /\ caller'[q[j]].lock = n
      BY <1>3, <1>8, <1>14, <1>16
    <3>2. \A i, j \in 1 .. Len(q) : q[i] = q[j] => i = j
      BY <1>3, <1>16
    <3>3. \A i \in 1 .. Len(r) : caller'[r[i]].op \in {"connect", "close"} /\ caller'[r[i]].lock = n
      <4> SUFFICES ASSUME NEW i \in 1 .. Len(r)
                   PROVE  caller'[r[i]].op \in {"connect", "close"} /\ caller'[r[i]].lock = n
        OBVIOUS
      <4>1. PICK j \in 1 .. Len(q) : j # k /\ r[i] = q[j]
        BY <1>12
      <4> QED BY <3>1, <4>1
    <3>4. ASSUME NEW i \in 1 .. Len(r), NEW j \in 1 .. Len(r), r[i] = r[j] PROVE i = j
      <4>1. PICK a \in 1 .. Len(q) : r[i] = q[a] /\ (i < k => a = i) /\ (~(i < k) => a = i + 1)
        BY <1>12
      <4>2. PICK b \in 1 .. Len(q) : r[j] = q[b] /\ (j < k => b = j) /\ (~(j < k) => b = j + 1)
        BY <1>12
      <4>3. a = b
        BY <3>2, <3>4, <4>1, <4>2
      <4>4. k \in Int /\ i \in Int /\ j \in Int
        BY <1>11, <1>12
      <4> QED BY <4>1, <4>2, <4>3, <4>4
    <3> QED BY <1>13, <2>1, <2>3, <3>3, <3>4
  <2> QED BY <2>2, <2>3
<1>20. ClosersOK'
  <2>1. \A d \in PoolCallers : caller'[d].op = "close" => d # c /\ caller'[d] = caller[d]
    BY <1>5, <1>14
  <2> QED BY <1>4, <2>1 DEF PoolInOrder, ClosersOK
<1>21. CountsOK'
  <2>1. Connections' = Connections
    BY <1>4 DEF Connections
  <2> QED BY <1>4, <2>1 DEF PoolInOrder, CountsOK
<1> QED BY <1>15, <1>18, <1>19, <1>20, <1>21 DEF PoolInOrder

\* The inductive invariant of PoolSharing.
THEOREM PoolInvariance == PoolSpec => []PoolIInv
<1>1. PoolIInv /\ [PoolNext]_poolVars => PoolIInv'
  <2> SUFFICES ASSUME PoolIInv, [PoolNext]_poolVars PROVE PoolIInv'
    OBVIOUS
  <2>1. CASE UNCHANGED poolVars
    <3>1. PoolInOrder' = PoolInOrder
      BY <2>1 DEF poolVars, PoolInOrder, PoolTypeOK, CallersOK, LinesOK, ClosersOK, CountsOK, Connections
    <3> QED BY <2>1, <3>1 DEF PoolIInv, poolVars
  <2>2. CASE PoolNext /\ disturbed
    BY <2>2, DisturbedStays DEF PoolIInv
  <2>3. CASE PoolNext /\ PoolInOrder
    <3>1. PICK c \in PoolCallers :
             \/ TakeTurn(c) \/ PoolCreated(c) \/ CreationFails(c) \/ GiveUp(c)
             \/ \E s \in Stores, op \in {"connect", "close"} : PoolCall(c, op, s)
      BY <2>3 DEF PoolNext
    <3>2. CASE TakeTurn(c)
      BY <2>3, <3>2, TurnKeeps
    <3>3. CASE PoolCreated(c)
      BY <2>3, <3>3, CreatedKeeps DEF PoolIInv
    <3>4. CASE CreationFails(c)
      BY <2>3, <3>4, FailureKeeps DEF PoolIInv
    <3>5. CASE GiveUp(c)
      BY <2>3, <3>5, GiveUpKeeps DEF PoolIInv
    <3>6. CASE \E s \in Stores, op \in {"connect", "close"} : PoolCall(c, op, s)
      BY <2>3, <3>6, CallKeeps
    <3> QED BY <3>1, <3>2, <3>3, <3>4, <3>5, <3>6
  <2> QED BY <2>1, <2>2, <2>3 DEF PoolIInv
<1> QED BY <1>1, PoolInitEstablishes, PTL DEF PoolSpec

\* No order of connects, failures, cancellations and closes closes a pool under a
\* store, unless the lock leaves its table while calls wait for it or a store is
\* closed twice at once (PostgresStore.connect, close).
THEOREM StoresKeepTheirPool == PoolSpec => []PoolOutlivesItsStores
<1>1. PoolIInv => PoolOutlivesItsStores
  <2> SUFFICES ASSUME PoolInOrder, Connections # {}
               PROVE  /\ sharedPool # <<>> /\ sharedPool[1].references >= Cardinality(Connections)
                      /\ \A s \in Connections : store[s] = sharedPool[1].pool /\ store[s] \in openPools
    BY DEF PoolIInv, PoolOutlivesItsStores, Connections
  <2> QED BY DEF PoolInOrder, CountsOK
<1> QED BY <1>1, PoolInvariance, PTL

(***************************************************************************)
(* The budget of a tenant.                                                 *)
(***************************************************************************)

Units(f, S) == UNION {{x} \X (1 .. f[x]) : x \in S}

\* A unit is a unit of one of the elements.
LEMMA UnitsAreOfElements ==
    ASSUME NEW f, NEW S, NEW p
    PROVE  p \in Units(f, S) <=> \E x \in S : \E u \in 1 .. f[x] : p = <<x, u>>
<1>1. p \in Units(f, S) <=> \E x \in S : p \in {x} \X (1 .. f[x])
  BY DEF Units
<1>2. \A x \in S : p \in {x} \X (1 .. f[x]) <=> \E u \in 1 .. f[x] : p = <<x, u>>
  OBVIOUS
<1> QED BY <1>1, <1>2

\* An element has as many units as its value says.
LEMMA UnitsOfOne ==
    ASSUME NEW x, NEW k \in Nat
    PROVE  IsFiniteSet({x} \X (1 .. k)) /\ Cardinality({x} \X (1 .. k)) = k
<1>1. IsFiniteSet({x}) /\ Cardinality({x}) = 1
  BY FS_Singleton
<1>2. IsFiniteSet(1 .. k) /\ Cardinality(1 .. k) = k
  <2>1. IsFiniteSet(1 .. k) /\ Cardinality(1 .. k) = IF 1 > k THEN 0 ELSE k - 1 + 1
    BY FS_Interval
  <2> QED BY <2>1
<1>3. IsFiniteSet({x} \X (1 .. k)) /\ Cardinality({x} \X (1 .. k)) = 1 * k
  <2> DEFINE A == {x}
             B == 1 .. k
  <2> HIDE DEF A, B
  <2>1. IsFiniteSet(A) /\ IsFiniteSet(B) /\ Cardinality(A) = 1 /\ Cardinality(B) = k
    BY <1>1, <1>2 DEF A, B
  <2>2. IsFiniteSet(A \X B) /\ Cardinality(A \X B) = Cardinality(A) * Cardinality(B)
    BY <2>1, FS_Product
  <2>3. IsFiniteSet(A \X B) /\ Cardinality(A \X B) = 1 * k
    BY <2>1, <2>2
  <2> QED BY <2>3 DEF A, B
<1> QED BY <1>3

\* Finitely many elements have finitely many units.
LEMMA UnitsAreFinite ==
    ASSUME NEW f, NEW S, IsFiniteSet(S), \A x \in S : f[x] \in Nat
    PROVE  IsFiniteSet(Units(f, S)) /\ SumOver(f, S) \in Nat
<1> DEFINE F == [x \in S |-> {x} \X (1 .. f[x])]
           T == {{x} \X (1 .. f[x]) : x \in S}
<1>1. F \in Surjection(S, T)
  BY DEF Surjection
<1>2. IsFiniteSet(T)
  <2> HIDE DEF F, T
  <2> QED BY <1>1, FS_Surjection
<1>3. \A t \in T : IsFiniteSet(t)
  <2> SUFFICES ASSUME NEW x \in S PROVE IsFiniteSet({x} \X (1 .. f[x]))
    OBVIOUS
  <2> QED BY UnitsOfOne
<1>4. IsFiniteSet(UNION T)
  <2> HIDE DEF T
  <2> QED BY <1>2, <1>3, FS_UNION
<1>5. IsFiniteSet(Units(f, S)) /\ SumOver(f, S) = Cardinality(Units(f, S))
  BY <1>4 DEF Units, SumOver
<1> QED BY <1>5, FS_CardinalityType

\* A sum is the sum over the others and the value of one of them.
LEMMA SumWithoutOne ==
    ASSUME NEW f, NEW S, IsFiniteSet(S), \A x \in S : f[x] \in Nat, NEW x \in S
    PROVE  /\ SumOver(f, S \ {x}) \in Nat
           /\ SumOver(f, S) = SumOver(f, S \ {x}) + f[x]
<1> DEFINE A == Units(f, S \ {x})
           B == {x} \X (1 .. f[x])
<1>1. IsFiniteSet(S \ {x})
  BY FS_RemoveElement
<1>2. IsFiniteSet(A) /\ SumOver(f, S \ {x}) \in Nat
  BY <1>1, UnitsAreFinite
<1>3. IsFiniteSet(B) /\ Cardinality(B) = f[x]
  BY UnitsOfOne
<1>4. Units(f, S) = A \cup B
  <2>1. S = (S \ {x}) \cup {x}
    OBVIOUS
  <2> QED BY <2>1 DEF Units
<1>5. A \cap B = {}
  <2> SUFFICES ASSUME NEW p \in A, p \in B PROVE FALSE
    OBVIOUS
  <2>1. PICK y \in S \ {x} : \E u \in 1 .. f[y] : p = <<y, u>>
    BY UnitsAreOfElements
  <2>2. \E u \in 1 .. f[x] : p = <<x, u>>
    OBVIOUS
  <2> HIDE DEF A, B
  <2> QED BY <2>1, <2>2
<1>6. Cardinality(A \cup B) = Cardinality(A) + Cardinality(B) - Cardinality(A \cap B)
  <2> HIDE DEF A, B
  <2> QED BY <1>2, <1>3, FS_Union
<1>7. Cardinality(A) \in Nat /\ Cardinality({}) = 0
  <2> HIDE DEF A
  <2> QED BY <1>2, FS_CardinalityType, FS_EmptySet
<1>8. SumOver(f, S) = Cardinality(A \cup B) /\ SumOver(f, S \ {x}) = Cardinality(A)
  BY <1>4 DEF SumOver, Units
<1>9. f[x] \in Nat
  OBVIOUS
<1> HIDE DEF A, B
<1>10. Cardinality(A \cup B) = Cardinality(A) + f[x]
  <2> DEFINE a == Cardinality(A)
             b == Cardinality(B)
             i == Cardinality(A \cap B)
  <2>1. i = 0
    BY <1>5, <1>7
  <2>2. a \in Nat /\ b \in Nat /\ b = f[x] /\ Cardinality(A \cup B) = a + b - i
    BY <1>3, <1>6, <1>7, <1>9
  <2> HIDE DEF a, b, i
  <2>3. Cardinality(A \cup B) = a + f[x]
    BY <2>1, <2>2
  <2> QED BY <2>3 DEF a
<1> QED BY <1>2, <1>8, <1>10

\* What one value changes in a sum.
LEMMA SumWithOneChanged ==
    ASSUME NEW f, NEW g, NEW S, IsFiniteSet(S), NEW x \in S,
           \A y \in S : f[y] \in Nat /\ g[y] \in Nat,
           \A y \in S : y # x => f[y] = g[y]
    PROVE  /\ SumOver(f, S) \in Nat /\ SumOver(g, S) \in Nat
           /\ SumOver(g, S) + f[x] = SumOver(f, S) + g[x]
<1>1. SumOver(f, S) \in Nat /\ SumOver(g, S) \in Nat
  BY UnitsAreFinite
<1>2. /\ SumOver(f, S \ {x}) \in Nat
      /\ SumOver(f, S) = SumOver(f, S \ {x}) + f[x]
  BY SumWithoutOne
<1>3. SumOver(g, S) = SumOver(g, S \ {x}) + g[x]
  BY SumWithoutOne
<1>4. SumOver(f, S \ {x}) = SumOver(g, S \ {x})
  <2>1. \A y \in S \ {x} : {y} \X (1 .. f[y]) = {y} \X (1 .. g[y])
    OBVIOUS
  <2>2. {{y} \X (1 .. f[y]) : y \in S \ {x}} = {{y} \X (1 .. g[y]) : y \in S \ {x}}
    BY <2>1
  <2> QED BY <2>2 DEF SumOver
<1>5. f[x] \in Nat /\ g[x] \in Nat
  OBVIOUS
<1> QED BY <1>1, <1>2, <1>3, <1>4, <1>5

\* Two functions with the same values have the same sum.
LEMMA SameSum ==
    ASSUME NEW f, NEW g, NEW S, \A y \in S : f[y] = g[y]
    PROVE  SumOver(f, S) = SumOver(g, S)
<1>1. \A y \in S : {y} \X (1 .. f[y]) = {y} \X (1 .. g[y])
  OBVIOUS
<1>2. {{y} \X (1 .. f[y]) : y \in S} = {{y} \X (1 .. g[y]) : y \in S}
  BY <1>1
<1> QED BY <1>2 DEF SumOver

LedgerStatuses == {"NONE", "RESERVED", "SETTLED", "RELEASED"}
LedgerRows == [status : LedgerStatuses, estimate : Nat, actual : Nat, day : 0 .. LastDay,
               expired : BOOLEAN]
LedgerTypeOK ==
    /\ ledger \in [Reservations -> LedgerRows]
    /\ today \in 0 .. LastDay
    /\ overrun \in [0 .. LastDay -> Nat]

\* What counts against a set of days, by reservation.
Due(D) == [r \in Reservations |-> IF ledger[r].day \in D THEN Committed(r) ELSE 0]

\* The budget holds on the days to come as well.
BudgetIInv ==
    /\ LedgerTypeOK
    /\ \A d \in 0 .. LastDay :
          /\ SpentOn({d}) <= DailyCostLimit + overrun[d]
          /\ SpentOn(Days(Month(d))) <= MonthlyCostLimit + Overruns(Days(Month(d)))

\* A reservation counts for an amount.
LEMMA CommittedIsACost ==
    ASSUME LedgerTypeOK, NEW r \in Reservations PROVE Committed(r) \in Nat
<1>1. ledger[r].actual \in Nat /\ ledger[r].estimate \in Nat
  BY DEF LedgerTypeOK, LedgerRows
<1> QED BY <1>1 DEF Committed

\* So what counts against some days is an amount too.
LEMMA DueIsACost ==
    ASSUME LedgerTypeOK, NEW D
    PROVE  /\ \A r \in Reservations : Due(D)[r] \in Nat
           /\ SpentOn(D) = SumOver(Due(D), Reservations)
           /\ SpentOn(D) \in Nat
<1>1. \A r \in Reservations : Due(D)[r] \in Nat
  BY CommittedIsACost DEF Due
<1>2. SpentOn(D) = SumOver(Due(D), Reservations)
  BY DEF SpentOn, Due
<1> QED BY <1>1, <1>2, UnitsAreFinite, LedgerAssumption

\* So is what overran on them.
LEMMA OverrunsAreCosts ==
    ASSUME LedgerTypeOK, NEW D \in SUBSET (0 .. LastDay)
    PROVE  IsFiniteSet(D) /\ Overruns(D) = SumOver(overrun, D) /\ Overruns(D) \in Nat
           /\ \A d \in D : overrun[d] \in Nat
<1>1. IsFiniteSet(0 .. LastDay)
  BY LedgerAssumption, FS_Interval
<1>2. IsFiniteSet(D)
  BY <1>1, FS_Subset
<1>3. \A d \in D : overrun[d] \in Nat
  BY DEF LedgerTypeOK
<1>4. Overruns(D) = SumOver(overrun, D)
  BY DEF Overruns
<1> QED BY <1>2, <1>3, <1>4, UnitsAreFinite

\* One reservation r changes, on its day or from no day to today: the days it is not
\* of count for what they did, and those it is of for the difference.
LEMMA OneReservationChanges ==
    ASSUME LedgerTypeOK, LedgerTypeOK', NEW r \in Reservations, NEW D,
           \A q \in Reservations : q # r => ledger'[q] = ledger[q]
    PROVE  SpentOn(D)' + Due(D)[r] = SpentOn(D) + Due(D)'[r]
<1>1. \A q \in Reservations : q # r => Due(D)'[q] = Due(D)[q]
  <2> SUFFICES ASSUME NEW q \in Reservations, q # r
               PROVE  (IF ledger'[q].day \in D THEN Committed(q)' ELSE 0)
                         = (IF ledger[q].day \in D THEN Committed(q) ELSE 0)
    BY DEF Due
  <2>1. ledger'[q] = ledger[q]
    OBVIOUS
  <2>2. Committed(q)' = Committed(q)
    BY <2>1 DEF Committed
  <2> QED BY <2>1, <2>2
<1>2. PICK f : f = Due(D)
  OBVIOUS
<1>3. PICK g : g = Due(D)'
  OBVIOUS
<1>4. /\ \A q \in Reservations : f[q] \in Nat
      /\ SpentOn(D) = SumOver(f, Reservations)
  BY <1>2, DueIsACost
<1>5. /\ \A q \in Reservations : g[q] \in Nat
      /\ SpentOn(D)' = SumOver(g, Reservations)
  <2>1. \A q \in Reservations : Committed(q)' \in Nat
    <3> SUFFICES ASSUME NEW q \in Reservations PROVE Committed(q)' \in Nat
      OBVIOUS
    <3>1. ledger'[q].actual \in Nat /\ ledger'[q].estimate \in Nat
      BY DEF LedgerTypeOK, LedgerRows
    <3> QED BY <3>1 DEF Committed
  <2>2. \A q \in Reservations : g[q] \in Nat
    BY <1>3, <2>1 DEF Due
  <2>3. SpentOn(D)' = SumOver(g, Reservations)
    BY <1>3 DEF SpentOn, Due
  <2> QED BY <2>2, <2>3
<1>6. \A q \in Reservations : q # r => f[q] = g[q]
  BY <1>1, <1>2, <1>3
<1>7. SumOver(g, Reservations) + f[r] = SumOver(f, Reservations) + g[r]
  BY <1>4, <1>5, <1>6, SumWithOneChanged, LedgerAssumption
<1> QED BY <1>2, <1>3, <1>4, <1>5, <1>7

\* After a step they are amounts as well.
LEMMA AmountsAfter ==
    ASSUME LedgerTypeOK', NEW D
    PROVE  /\ \A q \in Reservations : Committed(q)' \in Nat /\ Due(D)'[q] \in Nat
           /\ SpentOn(D)' \in Nat
<1>1. \A q \in Reservations : Committed(q)' \in Nat
  <2> SUFFICES ASSUME NEW q \in Reservations PROVE Committed(q)' \in Nat
    OBVIOUS
  <2>1. ledger'[q].actual \in Nat /\ ledger'[q].estimate \in Nat
    BY DEF LedgerTypeOK, LedgerRows
  <2> QED BY <2>1 DEF Committed
<1>2. PICK g : g = Due(D)'
  OBVIOUS
<1>3. \A q \in Reservations : g[q] \in Nat
  BY <1>1, <1>2 DEF Due
<1>4. SpentOn(D)' = SumOver(g, Reservations)
  BY <1>2 DEF SpentOn, Due
<1>5. SpentOn(D)' \in Nat
  BY <1>3, <1>4, UnitsAreFinite, LedgerAssumption
<1> QED BY <1>1, <1>2, <1>3, <1>5

\* The days of a month are days.
LEMMA DaysAreDays == \A m : Days(m) \in SUBSET (0 .. LastDay)
BY DEF Days

\* What leaves the ledger and the overruns alone leaves the budget alone.
LEMMA BudgetAfterRest ==
    ASSUME BudgetIInv, today' \in 0 .. LastDay, ledger' = ledger, overrun' = overrun
    PROVE  BudgetIInv'
<1>1. LedgerTypeOK'
  BY DEF BudgetIInv, LedgerTypeOK
<1>2. \A D : SpentOn(D)' = SpentOn(D) /\ Overruns(D)' = Overruns(D)
  BY DEF SpentOn, Overruns, Committed
<1> QED BY <1>1, <1>2 DEF BudgetIInv

\* A reservation that counts for no more than before breaks no budget.
LEMMA BudgetAfterLess ==
    ASSUME BudgetIInv, LedgerTypeOK', NEW r \in Reservations,
           \A q \in Reservations : q # r => ledger'[q] = ledger[q],
           ledger'[r].day = ledger[r].day, Committed(r)' <= Committed(r), overrun' = overrun
    PROVE  BudgetIInv'
<1> USE DEF BudgetIInv
<1>1. \A D : SpentOn(D)' <= SpentOn(D) /\ SpentOn(D)' \in Nat /\ SpentOn(D) \in Nat
  <2> SUFFICES ASSUME NEW D
               PROVE  SpentOn(D)' <= SpentOn(D) /\ SpentOn(D)' \in Nat /\ SpentOn(D) \in Nat
    OBVIOUS
  <2>1. SpentOn(D)' + Due(D)[r] = SpentOn(D) + Due(D)'[r]
    BY OneReservationChanges
  <2>2. SpentOn(D) \in Nat /\ Due(D)[r] \in Nat
    BY DueIsACost
  <2>3. SpentOn(D)' \in Nat /\ Due(D)'[r] \in Nat
    BY AmountsAfter
  <2>4. Due(D)'[r] <= Due(D)[r]
    BY <2>2, <2>3 DEF Due
  <2> QED BY <2>1, <2>2, <2>3, <2>4
<1>2. \A D : Overruns(D)' = Overruns(D)
  BY DEF Overruns
<1>3. ASSUME NEW d \in 0 .. LastDay
      PROVE  /\ SpentOn({d})' <= DailyCostLimit + overrun'[d]
             /\ SpentOn(Days(Month(d)))' <= MonthlyCostLimit + Overruns(Days(Month(d)))'
  <2>1. /\ SpentOn({d}) <= DailyCostLimit + overrun[d]
        /\ SpentOn(Days(Month(d))) <= MonthlyCostLimit + Overruns(Days(Month(d)))
    OBVIOUS
  <2>2. overrun[d] \in Nat /\ DailyCostLimit \in Nat /\ MonthlyCostLimit \in Nat
    BY LedgerAssumption DEF LedgerTypeOK
  <2>3. Overruns(Days(Month(d))) \in Nat
    BY DaysAreDays, OverrunsAreCosts
  <2> HIDE DEF BudgetIInv
  <2>4. SpentOn({d})' <= DailyCostLimit + overrun'[d]
    BY <1>1, <2>1, <2>2
  <2>5. SpentOn(Days(Month(d)))' <= MonthlyCostLimit + Overruns(Days(Month(d)))'
    BY <1>1, <1>2, <2>1, <2>2, <2>3
  <2> QED BY <2>4, <2>5
<1> QED BY <1>3

\* A settlement adds to the overruns of its day what it costs beyond what was held.
LEMMA BudgetAfterCharge ==
    ASSUME BudgetIInv, LedgerTypeOK', NEW r \in Reservations, NEW cost \in Nat,
           Charged(r, cost)
    PROVE  BudgetIInv'
<1> DEFINE held == Committed(r)
           more == IF cost > held THEN cost - held ELSE 0
<1>1. PICK day \in 0 .. LastDay : day = ledger[r].day
  BY DEF BudgetIInv, LedgerTypeOK, LedgerRows
<1>2. LedgerTypeOK
  BY DEF BudgetIInv
<1>3. held \in Nat /\ more \in Nat /\ cost - held <= more
  <2>1. held \in Nat
    BY <1>2, CommittedIsACost
  <2> HIDE DEF held
  <2> QED BY <2>1
<1>4. /\ ledger' = [ledger EXCEPT ![r].status = "SETTLED", ![r].actual = cost]
      /\ overrun' = [overrun EXCEPT ![day] = @ + more]
  BY <1>1 DEF Charged
<1> HIDE DEF more
<1>5. /\ \A q \in Reservations : q # r => ledger'[q] = ledger[q]
      /\ ledger'[r].day = day /\ ledger'[r].status = "SETTLED" /\ ledger'[r].actual = cost
  <2>1. \A x \in LedgerRows : LET y == [x EXCEPT !.status = "SETTLED", !.actual = cost] IN
           y.day = x.day /\ y.status = "SETTLED" /\ y.actual = cost
    BY DEF LedgerRows
  <2>2. ledger'[r] = [ledger[r] EXCEPT !.status = "SETTLED", !.actual = cost]
    BY <1>2, <1>4 DEF LedgerTypeOK
  <2>3. ledger[r] \in LedgerRows
    BY <1>2 DEF LedgerTypeOK
  <2> QED BY <1>1, <1>2, <1>4, <2>1, <2>2, <2>3 DEF LedgerTypeOK
<1>6. Committed(r)' = cost
  BY <1>5 DEF Committed
<1> HIDE DEF held
<1>7. ASSUME NEW D
      PROVE  /\ SpentOn(D) \in Nat /\ SpentOn(D)' \in Nat
             /\ day \in D => SpentOn(D)' <= SpentOn(D) + more
             /\ day \notin D => SpentOn(D)' = SpentOn(D)
  <2>1. SpentOn(D)' + Due(D)[r] = SpentOn(D) + Due(D)'[r]
    BY <1>2, <1>5, OneReservationChanges
  <2>2. SpentOn(D) \in Nat /\ SpentOn(D)' \in Nat
    BY <1>2, DueIsACost, AmountsAfter
  <2>3. /\ day \in D => Due(D)[r] = held /\ Due(D)'[r] = cost
        /\ day \notin D => Due(D)[r] = 0 /\ Due(D)'[r] = 0
    BY <1>1, <1>5, <1>6 DEF Due, held
  <2> QED BY <1>3, <2>1, <2>2, <2>3
<1>8. overrun \in [0 .. LastDay -> Nat] /\ overrun' \in [0 .. LastDay -> Nat]
  BY <1>2 DEF LedgerTypeOK
<1>9. overrun'[day] = overrun[day] + more /\ \A d \in 0 .. LastDay : d # day => overrun'[d] = overrun[d]
  BY <1>4, <1>8
<1>10. ASSUME NEW D, D \in SUBSET (0 .. LastDay)
       PROVE  /\ Overruns(D) \in Nat
              /\ day \in D => Overruns(D)' = Overruns(D) + more
              /\ day \notin D => Overruns(D)' = Overruns(D)
  <2>1. IsFiniteSet(D) /\ Overruns(D) = SumOver(overrun, D) /\ Overruns(D) \in Nat
    BY <1>2, <1>10, OverrunsAreCosts
  <2>2. PICK f : f = overrun
    OBVIOUS
  <2>3. PICK g : g = overrun'
    OBVIOUS
  <2>4. Overruns(D)' = SumOver(g, D) /\ Overruns(D) = SumOver(f, D)
    BY <2>1, <2>2, <2>3 DEF Overruns
  <2>5. \A d \in D : f[d] \in Nat /\ g[d] \in Nat /\ (d # day => f[d] = g[d])
    BY <1>8, <1>9, <1>10, <2>2, <2>3
  <2>6. CASE day \in D
    <3>1. SumOver(f, D) \in Nat /\ SumOver(g, D) \in Nat
          /\ SumOver(g, D) + f[day] = SumOver(f, D) + g[day]
      <4>1. \A d \in D : f[d] \in Nat /\ g[d] \in Nat
        BY <2>5
      <4>2. \A d \in D : d # day => f[d] = g[d]
        BY <2>5
      <4>3. IsFiniteSet(D)
        BY <2>1
      <4>4. PICK x \in D : x = day
        BY <2>6
      <4>5. \A d \in D : d # x => f[d] = g[d]
        BY <4>2, <4>4
      <4>6. SumOver(f, D) \in Nat /\ SumOver(g, D) \in Nat
            /\ SumOver(g, D) + f[x] = SumOver(f, D) + g[x]
        BY ONLY <4>1, <4>3, <4>5, SumWithOneChanged
      <4> QED BY <4>4, <4>6
    <3>2. g[day] = f[day] + more /\ f[day] \in Nat
      BY <1>8, <1>9, <2>2, <2>3
    <3> QED BY <1>3, <2>1, <2>4, <2>6, <3>1, <3>2
  <2>7. CASE day \notin D
    <3>1. \A d \in D : f[d] = g[d]
      BY <2>5, <2>7
    <3>2. SumOver(f, D) = SumOver(g, D)
      BY <3>1, SameSum
    <3> QED BY <2>1, <2>4, <2>7, <3>2
  <2> QED BY <2>6, <2>7
<1>11. ASSUME NEW d \in 0 .. LastDay
       PROVE  /\ SpentOn({d})' <= DailyCostLimit + overrun'[d]
              /\ SpentOn(Days(Month(d)))' <= MonthlyCostLimit + Overruns(Days(Month(d)))'
  <2>1. /\ SpentOn({d}) <= DailyCostLimit + overrun[d]
        /\ SpentOn(Days(Month(d))) <= MonthlyCostLimit + Overruns(Days(Month(d)))
    BY DEF BudgetIInv
  <2>2. overrun[d] \in Nat /\ DailyCostLimit \in Nat /\ MonthlyCostLimit \in Nat
    BY <1>8, LedgerAssumption
  <2>3. PICK D \in SUBSET (0 .. LastDay) : D = Days(Month(d))
    BY DaysAreDays
  <2>4. SpentOn(D)' <= MonthlyCostLimit + Overruns(D)'
    BY <1>3, <1>7, <1>10, <2>1, <2>2, <2>3
  <2>5. SpentOn({d})' <= DailyCostLimit + overrun'[d]
    <3>1. d = day => d \in {d} /\ SpentOn({d})' <= SpentOn({d}) + more
      BY <1>7
    <3>2. d # day => SpentOn({d})' = SpentOn({d})
      BY <1>7
    <3>3. SpentOn({d}) \in Nat /\ SpentOn({d})' \in Nat
      BY <1>7
    <3> QED BY <1>3, <1>9, <2>1, <2>2, <3>1, <3>2, <3>3
  <2> QED BY <2>3, <2>4, <2>5
<1> QED BY <1>11 DEF BudgetIInv

\* A reservation is made only if the day and the month can bear it.
LEMMA BudgetAfterReserve ==
    ASSUME BudgetIInv, LedgerTypeOK', NEW r \in Reservations, NEW cost \in Nat,
           Reserved(r, cost), overrun' = overrun
    PROVE  BudgetIInv'
<1>1. LedgerTypeOK
  BY DEF BudgetIInv
<1>2. PICK day \in 0 .. LastDay : day = today
  BY <1>1 DEF LedgerTypeOK
<1> DEFINE new == [Unreserved EXCEPT !.status = "RESERVED", !.estimate = cost, !.day = day]
<1>3. /\ new.status = "RESERVED" /\ new.estimate = cost /\ new.day = day /\ new.expired = FALSE
  BY DEF Unreserved
<1>4. ledger[r].status = "NONE" /\ Affordable(cost) /\ ledger' = [ledger EXCEPT ![r] = new]
  BY <1>2 DEF Reserved
<1> HIDE DEF new
<1>5. ledger'[r] = new /\ \A q \in Reservations : q # r => ledger'[q] = ledger[q]
  BY <1>1, <1>4 DEF LedgerTypeOK
<1>6. Committed(r) = 0 /\ Committed(r)' = cost /\ ledger'[r].day = day
  BY <1>3, <1>4, <1>5 DEF Committed
<1>7. ASSUME NEW D
      PROVE  /\ SpentOn(D) \in Nat /\ SpentOn(D)' \in Nat
             /\ day \in D => SpentOn(D)' = SpentOn(D) + cost
             /\ day \notin D => SpentOn(D)' = SpentOn(D)
  <2>1. SpentOn(D)' + Due(D)[r] = SpentOn(D) + Due(D)'[r]
    BY <1>1, <1>5, OneReservationChanges
  <2>2. SpentOn(D) \in Nat /\ SpentOn(D)' \in Nat
    BY <1>1, DueIsACost, AmountsAfter
  <2>3. /\ Due(D)[r] = 0
        /\ day \in D => Due(D)'[r] = cost
        /\ day \notin D => Due(D)'[r] = 0
    BY <1>6 DEF Due
  <2> QED BY <2>1, <2>2, <2>3
<1>8. /\ SpentOn({day}) + cost <= DailyCostLimit
      /\ SpentOn(Days(Month(day))) + cost <= MonthlyCostLimit
  BY <1>2, <1>4 DEF Affordable
<1>9. ASSUME NEW d \in 0 .. LastDay
      PROVE  /\ SpentOn({d})' <= DailyCostLimit + overrun'[d]
             /\ SpentOn(Days(Month(d)))' <= MonthlyCostLimit + Overruns(Days(Month(d)))'
  <2>1. /\ SpentOn({d}) <= DailyCostLimit + overrun[d]
        /\ SpentOn(Days(Month(d))) <= MonthlyCostLimit + Overruns(Days(Month(d)))
    BY DEF BudgetIInv
  <2>2. /\ overrun[d] \in Nat /\ DailyCostLimit \in Nat /\ MonthlyCostLimit \in Nat
        /\ overrun'[d] = overrun[d]
    BY <1>1, LedgerAssumption DEF LedgerTypeOK
  <2>3. PICK D \in SUBSET (0 .. LastDay) : D = Days(Month(d))
    BY DaysAreDays
  <2>4. Overruns(D) \in Nat /\ Overruns(D)' = Overruns(D)
    BY <1>1, OverrunsAreCosts DEF Overruns
  <2>5. SpentOn({d})' <= DailyCostLimit + overrun'[d]
    <3>1. d = day => SpentOn({d})' = SpentOn({d}) + cost
      BY <1>7
    <3>2. d # day => SpentOn({d})' = SpentOn({d})
      BY <1>7
    <3>3. SpentOn({d}) \in Nat /\ SpentOn({d})' \in Nat
      BY <1>7
    <3> QED BY <1>8, <2>1, <2>2, <3>1, <3>2, <3>3
  <2>6. SpentOn(D)' <= MonthlyCostLimit + Overruns(D)'
    <3>1. CASE day \in D
      <4>1. D = Days(Month(day))
        BY <2>3, <3>1 DEF Days
      <4>2. SpentOn(D) + cost <= MonthlyCostLimit /\ SpentOn(D)' = SpentOn(D) + cost
        BY <1>7, <1>8, <3>1, <4>1
      <4>3. SpentOn(D)' \in Nat /\ SpentOn(D)' <= MonthlyCostLimit
        BY <1>7, <4>2
      <4> QED BY <2>2, <2>4, <4>3
    <3>2. CASE day \notin D
      BY <1>7, <2>1, <2>3, <2>4, <3>2
    <3> QED BY <3>1, <3>2
  <2> QED BY <2>3, <2>5, <2>6
<1> QED BY <1>9 DEF BudgetIInv

\* A new ledger is empty.
LEMMA LedgerInitEstablishes == LedgerInit => BudgetIInv
<1> SUFFICES ASSUME LedgerInit PROVE BudgetIInv
  OBVIOUS
<1>1. /\ Unreserved \in LedgerRows /\ Unreserved.status = "NONE"
      /\ \A r \in Reservations : ledger[r] = Unreserved
  BY LedgerAssumption DEF LedgerInit, Unreserved, LedgerRows, LedgerStatuses
<1>2. LedgerTypeOK
  BY <1>1, LedgerAssumption DEF LedgerInit, LedgerTypeOK
<1>3. \A r \in Reservations : Committed(r) = 0
  BY <1>1 DEF Committed
<1>4. ASSUME NEW D PROVE SpentOn(D) = 0
  <2>1. PICK f : f = Due(D)
    OBVIOUS
  <2>2. \A r \in Reservations : f[r] = 0
    BY <1>3, <2>1 DEF Due
  <2>3. Units(f, Reservations) = {}
    <3> SUFFICES ASSUME NEW p \in Units(f, Reservations) PROVE FALSE
      OBVIOUS
    <3>1. PICK r \in Reservations : \E u \in 1 .. f[r] : p = <<r, u>>
      BY UnitsAreOfElements
    <3> QED BY <2>2, <3>1
  <2>4. SpentOn(D) = SumOver(f, Reservations)
    BY <2>1 DEF SpentOn, Due
  <2>5. SumOver(f, Reservations) = 0
    BY <2>3, FS_EmptySet DEF SumOver, Units
  <2> QED BY <2>4, <2>5
<1>5. \A d \in 0 .. LastDay : overrun[d] \in Nat /\ Overruns(Days(Month(d))) \in Nat
  BY <1>2, DaysAreDays, OverrunsAreCosts DEF LedgerTypeOK
<1> QED BY <1>2, <1>4, <1>5, LedgerAssumption DEF BudgetIInv

\* The rows of the ledger stay rows.
LEMMA LedgerTypeStep == ASSUME LedgerTypeOK, LedgerNext PROVE LedgerTypeOK'
<1>1. /\ ledger \in [Reservations -> LedgerRows] /\ today \in 0 .. LastDay
      /\ overrun \in [0 .. LastDay -> Nat]
  BY DEF LedgerTypeOK
<1>2. \A x \in LedgerRows :
         /\ \A cost \in Nat : [x EXCEPT !.status = "SETTLED", !.actual = cost] \in LedgerRows
         /\ [x EXCEPT !.status = "RELEASED"] \in LedgerRows
         /\ [x EXCEPT !.expired = TRUE] \in LedgerRows
  BY DEF LedgerRows, LedgerStatuses
<1>3. Price \in Nat /\ Estimates \subseteq Nat /\ LastDay \in Nat
  BY LedgerAssumption
<1>4. ASSUME NEW r \in Reservations, NEW cost \in Nat, Reserved(r, cost)
      PROVE  ledger' \in [Reservations -> LedgerRows]
  <2>1. [Unreserved EXCEPT !.status = "RESERVED", !.estimate = cost, !.day = today] \in LedgerRows
    BY <1>1 DEF Unreserved, LedgerRows, LedgerStatuses
  <2> QED BY <1>1, <1>4, <2>1 DEF Reserved
<1>5. ASSUME NEW r \in Reservations, NEW cost \in Nat, Charged(r, cost)
      PROVE  ledger' \in [Reservations -> LedgerRows] /\ overrun' \in [0 .. LastDay -> Nat]
  <2>1. ledger' = [ledger EXCEPT ![r] = [ledger[r] EXCEPT !.status = "SETTLED", !.actual = cost]]
    BY <1>1, <1>5 DEF Charged
  <2>2. ledger' \in [Reservations -> LedgerRows]
    BY <1>1, <1>2, <2>1
  <2>3. Committed(r) \in Nat /\ ledger[r].day \in 0 .. LastDay
    BY <1>1, CommittedIsACost DEF LedgerRows
  <2>4. PICK more \in Nat : more = IF cost > Committed(r) THEN cost - Committed(r) ELSE 0
    BY <2>3
  <2>5. overrun' = [overrun EXCEPT ![ledger[r].day] = @ + more]
    BY <1>5, <2>4 DEF Charged
  <2> QED BY <1>1, <2>2, <2>3, <2>5
<1>6. ASSUME NEW r \in Reservations, Released(r)
      PROVE  ledger' \in [Reservations -> LedgerRows]
  <2>1. ledger' = [ledger EXCEPT ![r] = [ledger[r] EXCEPT !.status = "RELEASED"]]
    BY <1>1, <1>6 DEF Released
  <2> QED BY <1>1, <1>2, <2>1
<1>7. CASE NextDay
  BY <1>1, <1>3, <1>7 DEF NextDay, LedgerTypeOK
<1>8. ASSUME NEW r \in Generated,
             \/ StartGenerate(r) \/ GenerateReturns(r) \/ GenerateRaises(r)
             \/ GenerateCancelled(r) \/ SettleGenerate(r) \/ ReleaseGenerate(r)
             \/ LedgerFails(r)
      PROVE  LedgerTypeOK'
  <2>1. r \in Reservations
    BY LedgerAssumption
  <2>2. CASE StartGenerate(r)
    BY <1>1, <1>3, <1>4, <2>1, <2>2 DEF StartGenerate, LedgerTypeOK
  <2>3. CASE GenerateReturns(r) \/ GenerateRaises(r) \/ GenerateCancelled(r) \/ LedgerFails(r)
    BY <1>1, <2>3 DEF GenerateReturns, GenerateRaises, GenerateCancelled, LedgerFails, LedgerTypeOK
  <2>4. CASE SettleGenerate(r)
    BY <1>1, <1>3, <1>5, <2>1, <2>4 DEF SettleGenerate, LedgerTypeOK
  <2>5. CASE ReleaseGenerate(r)
    BY <1>1, <1>6, <2>1, <2>5 DEF ReleaseGenerate, LedgerTypeOK
  <2> QED BY <1>8, <2>2, <2>3, <2>4, <2>5
<1>9. ASSUME NEW r \in Reservations,
             \/ ReservationExpires(r) \/ BillRelease(r)
             \/ \E cost \in Estimates : BillReserve(r, cost) \/ BillSettle(r, cost)
      PROVE  LedgerTypeOK'
  <2>1. CASE ReservationExpires(r)
    <3>1. ledger' = [ledger EXCEPT ![r] = [ledger[r] EXCEPT !.expired = TRUE]]
      BY <1>1, <2>1 DEF ReservationExpires
    <3>2. ledger' \in [Reservations -> LedgerRows]
      BY <1>1, <1>2, <3>1
    <3> QED BY <1>1, <2>1, <3>2 DEF ReservationExpires, LedgerTypeOK
  <2>2. CASE BillRelease(r)
    BY <1>1, <1>6, <2>2 DEF BillRelease, LedgerTypeOK
  <2>3. ASSUME NEW cost \in Estimates, BillReserve(r, cost) PROVE LedgerTypeOK'
    BY <1>1, <1>3, <1>4, <2>3 DEF BillReserve, LedgerTypeOK
  <2>4. ASSUME NEW cost \in Estimates, BillSettle(r, cost) PROVE LedgerTypeOK'
    BY <1>1, <1>3, <1>5, <2>4 DEF BillSettle, LedgerTypeOK
  <2> QED BY <1>9, <2>1, <2>2, <2>3, <2>4
<1> QED BY <1>7, <1>8, <1>9 DEF LedgerNext

\* Every step keeps the budget.
LEMMA BudgetStep == ASSUME BudgetIInv, LedgerNext PROVE BudgetIInv'
<1>1. LedgerTypeOK /\ LedgerTypeOK'
  BY LedgerTypeStep DEF BudgetIInv
<1>2. today' \in 0 .. LastDay /\ ledger \in [Reservations -> LedgerRows]
  BY <1>1 DEF LedgerTypeOK
<1>3. Price \in Nat /\ Estimates \subseteq Nat /\ Generated \subseteq Reservations
  BY LedgerAssumption
<1>4. ASSUME NEW r \in Reservations, Released(r), overrun' = overrun PROVE BudgetIInv'
  <2>1. ledger' = [ledger EXCEPT ![r] = [ledger[r] EXCEPT !.status = "RELEASED"]]
    BY <1>2, <1>4 DEF Released
  <2>2. \A x \in LedgerRows : LET y == [x EXCEPT !.status = "RELEASED"] IN
           y.status = "RELEASED" /\ y.day = x.day
    BY DEF LedgerRows
  <2>3. /\ \A q \in Reservations : q # r => ledger'[q] = ledger[q]
        /\ ledger'[r].status = "RELEASED" /\ ledger'[r].day = ledger[r].day
    BY <1>2, <2>1, <2>2
  <2>4. Committed(r)' = 0
    BY <2>3 DEF Committed
  <2>5. Committed(r)' <= Committed(r)
    BY <1>1, <2>4, CommittedIsACost
  <2> QED BY <1>1, <1>4, <2>3, <2>5, BudgetAfterLess
<1>5. CASE NextDay
  BY <1>2, <1>5, BudgetAfterRest DEF NextDay
<1>6. ASSUME NEW r \in Generated,
             \/ StartGenerate(r) \/ GenerateReturns(r) \/ GenerateRaises(r)
             \/ GenerateCancelled(r) \/ SettleGenerate(r) \/ ReleaseGenerate(r)
             \/ LedgerFails(r)
      PROVE  BudgetIInv'
  <2>1. r \in Reservations
    BY <1>3
  <2>2. CASE StartGenerate(r)
    <3>1. overrun' = overrun /\ (ledger' = ledger \/ Reserved(r, Price))
      BY <2>2 DEF StartGenerate
    <3>2. CASE ledger' = ledger
      BY <1>2, <3>1, <3>2, BudgetAfterRest
    <3>3. CASE Reserved(r, Price)
      BY <1>1, <1>3, <2>1, <3>1, <3>3, BudgetAfterReserve
    <3> QED BY <3>1, <3>2, <3>3
  <2>3. CASE GenerateReturns(r) \/ GenerateRaises(r) \/ GenerateCancelled(r) \/ LedgerFails(r)
    <3>1. ledger' = ledger /\ overrun' = overrun
      BY <2>3 DEF GenerateReturns, GenerateRaises, GenerateCancelled, LedgerFails
    <3> QED BY <1>2, <3>1, BudgetAfterRest
  <2>4. CASE SettleGenerate(r)
    <3>1. Charged(r, Price) \/ (ledger' = ledger /\ overrun' = overrun)
      BY <2>4 DEF SettleGenerate
    <3> QED BY <1>1, <1>2, <1>3, <2>1, <3>1, BudgetAfterRest, BudgetAfterCharge
  <2>5. CASE ReleaseGenerate(r)
    <3>1. overrun' = overrun /\ (Released(r) \/ ledger' = ledger)
      BY <2>5 DEF ReleaseGenerate
    <3> QED BY <1>2, <1>4, <2>1, <3>1, BudgetAfterRest
  <2> QED BY <1>6, <2>2, <2>3, <2>4, <2>5
<1>7. ASSUME NEW r \in Reservations,
             \/ ReservationExpires(r) \/ BillRelease(r)
             \/ \E cost \in Estimates : BillReserve(r, cost) \/ BillSettle(r, cost)
      PROVE  BudgetIInv'
  <2>1. CASE ReservationExpires(r)
    <3>1. /\ ledger' = [ledger EXCEPT ![r] = [ledger[r] EXCEPT !.expired = TRUE]]
          /\ ledger[r].status = "RESERVED" /\ overrun' = overrun
      BY <1>2, <2>1 DEF ReservationExpires
    <3>2. \A x \in LedgerRows : LET y == [x EXCEPT !.expired = TRUE] IN
             y.expired = TRUE /\ y.status = x.status /\ y.day = x.day
      BY DEF LedgerRows
    <3>3. /\ \A q \in Reservations : q # r => ledger'[q] = ledger[q]
          /\ ledger'[r].status = "RESERVED" /\ ledger'[r].expired = TRUE
          /\ ledger'[r].day = ledger[r].day
      BY <1>2, <3>1, <3>2
    <3>4. Committed(r)' = 0
      BY <3>3 DEF Committed
    <3>5. Committed(r)' <= Committed(r)
      BY <1>1, <3>4, CommittedIsACost
    <3> QED BY <1>1, <3>1, <3>3, <3>5, BudgetAfterLess
  <2>2. CASE BillRelease(r)
    <3>1. Released(r) /\ overrun' = overrun
      BY <2>2 DEF BillRelease
    <3> QED BY <1>4, <3>1
  <2>3. ASSUME NEW cost \in Estimates, BillReserve(r, cost) PROVE BudgetIInv'
    <3>1. Reserved(r, cost) /\ overrun' = overrun /\ cost \in Nat
      BY <1>3, <2>3 DEF BillReserve
    <3> QED BY <1>1, <3>1, BudgetAfterReserve
  <2>4. ASSUME NEW cost \in Estimates, BillSettle(r, cost) PROVE BudgetIInv'
    <3>1. Charged(r, cost) /\ cost \in Nat
      BY <1>3, <2>4 DEF BillSettle
    <3> QED BY <1>1, <3>1, BudgetAfterCharge
  <2> QED BY <1>7, <2>1, <2>2, <2>3, <2>4
<1> QED BY <1>5, <1>6, <1>7 DEF LedgerNext

\* The inductive invariant of CostLedger.
THEOREM LedgerInvariance == LedgerSpec => []BudgetIInv
<1>1. BudgetIInv /\ [LedgerNext]_ledgerVars => BudgetIInv'
  <2>1. BudgetIInv /\ UNCHANGED ledgerVars => BudgetIInv'
    <3> SUFFICES ASSUME BudgetIInv, UNCHANGED ledgerVars PROVE BudgetIInv'
      OBVIOUS
    <3>1. today' \in 0 .. LastDay /\ ledger' = ledger /\ overrun' = overrun
      BY DEF BudgetIInv, LedgerTypeOK, ledgerVars
    <3> QED BY <3>1, BudgetAfterRest
  <2> QED BY <2>1, BudgetStep
<1> QED BY <1>1, LedgerInitEstablishes, PTL DEF LedgerSpec

\* The day and the month of a tenant never count for more than their limits and what
\* settlements added beyond what was held (CostLedger.reserve, settle, release and
\* reserve_cost, settle_cost, release_cost).
THEOREM BudgetHolds == LedgerSpec => []BudgetKept
<1>1. BudgetIInv => BudgetKept
  <2> SUFFICES ASSUME BudgetIInv, NEW d \in 0 .. today
               PROVE  /\ SpentOn({d}) <= DailyCostLimit + overrun[d]
                      /\ SpentOn(Days(Month(d))) <= MonthlyCostLimit + Overruns(Days(Month(d)))
    BY DEF BudgetKept
  <2>1. d \in 0 .. LastDay
    BY LedgerAssumption DEF BudgetIInv, LedgerTypeOK
  <2> QED BY <2>1 DEF BudgetIInv
<1> QED BY <1>1, LedgerInvariance, PTL

-----------------------------------------------------------------------------
(***************************************************************************)
(* The components side by side.  Every behaviour of MCComponents is one of *)
(* each of its components, so what is proved of a component holds there,   *)
(* in the form in which MCComponents states it of one of its parts.        *)
(***************************************************************************)

DS == INSTANCE PublishService_proofs WITH
    Distributed <- TRUE, DailyLimit <- 1, Drafts <- SharedDrafts,
    Contents <- SharedContents, Schedules <- SharedSchedules, ContentOf <- SameContent
QS == INSTANCE JobQueue_proofs WITH store <- record

\* The distributed service of MCComponents and the one that the theorems of the
\* publication service are instantiated for have the same definitions.
LEMMA SameService ==
    /\ DistributedService!Init <=> DS!Init
    /\ DistributedService!Next <=> DS!Next
    /\ DistributedService!BoundToItsRow <=> DS!BoundToItsRow
<1>1. DistributedService!Init <=> DS!Init
  BY DEF DistributedService!Runners, DS!Runners, DistributedService!NoApproval,
         DS!NoApproval, DistributedService!NoRun, DS!NoRun, DistributedService!NoBooking,
         DS!NoBooking, DistributedService!NoRow, DS!NoRow, DistributedService!Init, DS!Init,
         DistributedService!Once!Init, DS!Once!Init
<1>2. DistributedService!Next <=> DS!Next
  BY DEF DistributedService!files, DS!files, DistributedService!rows, DS!rows,
         DistributedService!Runners, DS!Runners, DistributedService!Ids, DS!Ids,
         DistributedService!NoApproval, DS!NoApproval, DistributedService!NoRun, DS!NoRun,
         DistributedService!NoBooking, DS!NoBooking, DistributedService!NoRow, DS!NoRow,
         DistributedService!At, DS!At, DistributedService!Goto, DS!Goto,
         DistributedService!Over, DS!Over, DistributedService!End, DS!End,
         DistributedService!Valid, DS!Valid, DistributedService!AlreadyPublished,
         DS!AlreadyPublished, DistributedService!WithinDailyLimit, DS!WithinDailyLimit,
         DistributedService!Approve, DS!Approve, DistributedService!Publish, DS!Publish,
         DistributedService!LockFree, DS!LockFree, DistributedService!Acquire, DS!Acquire,
         DistributedService!Enter, DS!Enter, DistributedService!Consume, DS!Consume,
         DistributedService!Decide, DS!Decide, DistributedService!Submit, DS!Submit,
         DistributedService!Record, DS!Record, DistributedService!Sync, DS!Sync,
         DistributedService!Fails, DS!Fails, DistributedService!LockLapse, DS!LockLapse,
         DistributedService!Book, DS!Book, DistributedService!Fire, DS!Fire,
         DistributedService!EnterScheduled, DS!EnterScheduled, DistributedService!Unbind,
         DS!Unbind, DistributedService!Cancel, DS!Cancel, DistributedService!BookCheck,
         DS!BookCheck, DistributedService!RowId, DS!RowId, DistributedService!BookCreate,
         DS!BookCreate, DistributedService!BookSave, DS!BookSave,
         DistributedService!BookFails, DS!BookFails, DistributedService!HasRow, DS!HasRow,
         DistributedService!Work, DS!Work, DistributedService!Send, DS!Send,
         DistributedService!CancelDistributed, DS!CancelDistributed,
         DistributedService!Crash, DS!Crash, DistributedService!Call, DS!Call,
         DistributedService!LocalSchedule, DS!LocalSchedule, DistributedService!Booking,
         DS!Booking, DistributedService!PublishLocked, DS!PublishLocked,
         DistributedService!Next, DS!Next, DistributedService!Once!Commit, DS!Once!Commit,
         DistributedService!Once!Send, DS!Once!Send, DistributedService!Once!Withdraw,
         DS!Once!Withdraw, DistributedService!Once!Resolve, DS!Once!Resolve
<1>3. DistributedService!BoundToItsRow <=> DS!BoundToItsRow
  BY DEF DistributedService!BoundToItsRow, DS!BoundToItsRow
<1> QED BY <1>1, <1>2, <1>3

\* So have the queue of MCComponents and the one that the theorems of the job queue
\* are instantiated for.
LEMMA SameQueue ==
    /\ Queue!Init <=> QS!Init
    /\ Queue!Next <=> QS!Next
<1>1. Queue!Init <=> QS!Init
  BY DEF Queue!IdleExec, QS!IdleExec, Queue!Init, QS!Init
<1>2. \A S : Queue!Cardinality(S) = QS!Cardinality(S)
  BY DEF Queue!Cardinality, QS!Cardinality
<1>3. \A S : {i \in S : Queue!Live(i)} = {i \in S : QS!Live(i)}
  BY DEF Queue!Live, QS!Live
<1>4. Queue!Depth = QS!Depth
  BY <1>2, <1>3 DEF Queue!Depth, QS!Depth
<1>5. \A j : Queue!Replay(j) <=> QS!Replay(j)
  BY <1>2, <1>3, <1>4 DEF Queue!Replay, QS!Replay, Queue!Add, QS!Add, Queue!Entry, QS!Entry
<1>6. Queue!Next <=> QS!Next
  BY <1>4, <1>5
  DEF Queue!Final, QS!Final, Queue!IdleExec, QS!IdleExec, Queue!At, QS!At, Queue!Entry,
         QS!Entry, Queue!Discardable, QS!Discardable, Queue!MayRetry, QS!MayRetry,
         Queue!HasRoom, QS!HasRoom, Queue!MayComplete, QS!MayComplete, Queue!UnderWay,
         QS!UnderWay, Queue!Reclaimable, QS!Reclaimable, Queue!Add, QS!Add, Queue!WithState,
         QS!WithState, Queue!Finished, QS!Finished, Queue!GuardedAt, QS!GuardedAt,
         Queue!Goto, QS!Goto, Queue!Raise, QS!Raise, Queue!Then, QS!Then, Queue!Create,
         QS!Create, Queue!Enqueue, QS!Enqueue, Queue!Refuse, QS!Refuse, Queue!SubmitFails,
         QS!SubmitFails, Queue!CancelLook, QS!CancelLook, Queue!CancelKey, QS!CancelKey,
         Queue!CancelWrite, QS!CancelWrite, Queue!CancelFails, QS!CancelFails, Queue!Start,
         QS!Start, Queue!Deliver, QS!Deliver, Queue!Reclaim, QS!Reclaim, Queue!Look,
         QS!Look, Queue!Fetch, QS!Fetch, Queue!Check, QS!Check, Queue!Announce, QS!Announce,
         Queue!Run, QS!Run, Queue!Recheck, QS!Recheck, Queue!Update, QS!Update,
         Queue!MarkRunning, QS!MarkRunning, Queue!MarkCancelled, QS!MarkCancelled,
         Queue!MarkPending, QS!MarkPending, Queue!MarkFailed, QS!MarkFailed, Queue!Complete,
         QS!Complete, Queue!Readd, QS!Readd, Queue!Bury, QS!Bury, Queue!Finish, QS!Finish,
         Queue!CallFails, QS!CallFails, Queue!Crash, QS!Crash, Queue!DeleteDeadLetter,
         QS!DeleteDeadLetter, Queue!Client, QS!Client, Queue!Process, QS!Process,
         Queue!Next, QS!Next
<1> QED BY <1>1, <1>6

\* A behaviour of the sum is one of the job queue: it rests when it is not the part.
LEMMA SumRunsTheQueue == ComponentsSpec => QS!Spec
<1>1. ComponentsInit => QS!Init
  BY SameQueue DEF ComponentsInit
<1>2. [ComponentsNext]_<<part, vars, governanceVars, ledgerVars, poolVars, identityVars,
                         expVars, banditVars, assetVars, insightVars, noteVars,
                         gatewayVars, queueVars>> => [QS!Next]_(QS!vars)
  BY SameQueue DEF ComponentsNext, OthersRest, queueVars, QS!vars
<1> QED BY <1>1, <1>2, PTL DEF ComponentsSpec, QS!Spec

\* In a behaviour of the sum the part stays what it is, and the publication service
\* runs as its part says.
LEMMA SumRunsTheService ==
    ComponentsSpec => \/ Spec /\ []~(part = "distributed")
                      \/ DS!Spec /\ [](part = "distributed")
<1> DEFINE Steps == [ComponentsNext]_<<part, vars, governanceVars, ledgerVars, poolVars,
                         identityVars, expVars, banditVars, assetVars, insightVars, noteVars,
                         gatewayVars, queueVars>>
           D == part = "distributed"
<1>1. ComponentsInit => (D => DS!Init) /\ (~D => Init)
  BY SameService DEF ComponentsInit
<1>2. Steps => /\ D => D' /\ [DS!Next]_(DS!vars)
               /\ ~D => (~D)' /\ [Next]_vars
  BY SameService DEF ComponentsNext, OthersRest, vars, DS!vars
<1> HIDE DEF D
<1>3. ComponentsSpec => (D /\ DS!Init) \/ (~D /\ Init)
  BY <1>1, PTL DEF ComponentsSpec
<1>4. ComponentsSpec /\ D => []D /\ [][DS!Next]_(DS!vars)
  BY <1>2, PTL DEF ComponentsSpec
<1>5. ComponentsSpec /\ ~D => []~D /\ [][Next]_vars
  BY <1>2, PTL DEF ComponentsSpec
<1> USE DEF D
<1> QED BY <1>3, <1>4, <1>5, PTL DEF Spec, DS!Spec

\* Once a job's cancel key is set its record does not become COMPLETED, whatever
\* executions, lost replies and second deliveries do (complete_if_not_cancelled).
THEOREM CancelledStaysSo == ComponentsSpec => CancelBarsCompletion
<1>1. QS!Spec => QS!CancelBarsCompletion
  BY QS!CancelWins, QueueAssumption
<1>2. QS!CancelBarsCompletion => CancelBarsCompletion
  BY DEF CancelBarsCompletion, Queue!CancelBarsCompletion, QS!CancelBarsCompletion,
         Queue!vars, QS!vars
<1> QED BY <1>1, <1>2, SumRunsTheQueue

\* In the service of one process each consumption of an approval pays for at most
\* one submission (consume_approval under the lock of the account).
THEOREM OneProcessConsumesOnce == ComponentsSpec => []ApprovalConsumedOnceLocally
<1>1. ApprovalConsumedOnce \/ part = "distributed" => ApprovalConsumedOnceLocally
  BY DEF ApprovalConsumedOnceLocally
<1> QED BY <1>1, SumRunsTheService, ConsumedOnce, PTL

\* In the distributed service a bound approval names the row that exists for its
\* content (schedule and the row it stores or finds).
THEOREM DistributedBindsToTheRow == ComponentsSpec => []BoundToItsRowWhenDistributed
<1>1. DS!BoundToItsRow \/ ~(part = "distributed") => BoundToItsRowWhenDistributed
  BY SameService DEF BoundToItsRowWhenDistributed
<1>2. DS!Spec => []DS!BoundToItsRow
  <2>1. \A d \in SharedDrafts : SameContent(d) \in SharedContents
    BY SharedAssumption DEF SameContent
  <2>2. MaxApprovals \in Nat
    BY ParametersAssumption
  <2> QED BY <2>1, <2>2, SharedAssumption, DS!BoundToRealRow
<1> QED BY <1>1, <1>2, SumRunsTheService, PTL

\* Every behaviour of the sum is a behaviour of each of the other components as well,
\* so what is proved of them above and in Operations_proofs holds in it.
THEOREM SumOfComponents ==
    ComponentsSpec => /\ GovernanceSpec /\ LedgerSpec /\ PoolSpec /\ IdentitySpec
                      /\ ExpSpec /\ BanditSpec /\ AssetSpec /\ InsightSpec
                      /\ NoteSpec /\ GatewaySpec
<1>1. ComponentsInit => /\ GovernanceInit /\ LedgerInit /\ PoolInit /\ IdentityInit
                        /\ ExpInit /\ BanditInit /\ AssetInit /\ InsightInit
                        /\ NoteInit /\ GatewayInit
  BY DEF ComponentsInit
<1>2. [ComponentsNext]_<<part, vars, governanceVars, ledgerVars, poolVars, identityVars,
                         expVars, banditVars, assetVars, insightVars, noteVars,
                         gatewayVars, queueVars>>
        => /\ [GovernanceNext]_governanceVars /\ [LedgerNext]_ledgerVars
           /\ [PoolNext]_poolVars /\ [IdentityNext]_identityVars
           /\ [ExpNext]_expVars /\ [BanditNext]_banditVars
           /\ [AssetNext]_assetVars /\ [InsightNext]_insightVars
           /\ [NoteNext]_noteVars /\ [GatewayNext]_gatewayVars
  BY DEF ComponentsNext, OthersRest
<1> QED BY <1>1, <1>2, PTL
  DEF ComponentsSpec, GovernanceSpec, LedgerSpec, PoolSpec, IdentitySpec, ExpSpec, BanditSpec,
      AssetSpec, InsightSpec, NoteSpec, GatewaySpec
=============================================================================
