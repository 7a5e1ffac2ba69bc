----------------------- MODULE PublishService_proofs -----------------------
(***************************************************************************)
(* Proofs about PublishService, for every value of its constants: type     *)
(* correctness, one submission per consumed approval, one saved result per *)
(* content, the daily limit, and the binding of an approval to its row.    *)
(***************************************************************************)
EXTENDS PublishService, TLAPS

Busy == {"sleeping", "waiting"} \cup Locked

\* A run under way has a draft, and so has a booking under way.
Shape ==
  /\ \A p \in Runners : run[p].pc \in Busy => run[p].draft \in Drafts
  /\ \A s \in Schedules : booking[s].pc \in {"creating", "saving"} =>
                            booking[s].draft \in Drafts /\ booking[s].id \in Schedules

TypeInv == TypeOK /\ Shape

\* The steps of Next as one disjunction, for case analysis.
Step ==
  \/ \E d \in Drafts : Approve(d)
  \/ \E c \in Callers, d \in Drafts, a \in Ids : Publish(c, d, a)
  \/ \E c \in Callers : Enter(c)
  \/ \E s \in Schedules, d \in Drafts, a \in Ids : Book(s, d, a) \/ BookCheck(s, d, a)
  \/ \E s \in Schedules : Fire(s) \/ EnterScheduled(s) \/ Cancel(s)
                          \/ BookCreate(s) \/ BookSave(s) \/ BookFails(s)
  \/ \E p \in Runners : Decide(p) \/ Submit(p) \/ Record(p) \/ Sync(p) \/ Fails(p)
  \/ \E c \in Contents : Work(c) \/ Send(c) \/ CancelDistributed(c)
  \/ LockLapse
  \/ Crash

\* Every step of Next is one of these.
LEMMA StepsOfNext == Next => Step
BY DEF Next, Step, Call, LocalSchedule, Booking, PublishLocked, Runners

-----------------------------------------------------------------------------
(* Facts about single operators                                            *)

\* An element of a sequence belongs to the set the sequence is over.
LEMMA SeqElement ==
  ASSUME NEW S, NEW q \in Seq(S), NEW i \in DOMAIN q
  PROVE  q[i] \in S
OBVIOUS

\* A run that ends is replaced by a run without a draft, and its lock is
\* released by token.
LEMMA EndFacts ==
  ASSUME TypeInv, NEW p \in Runners, End(p)
  PROVE  /\ run' \in [Runners -> Runs]
         /\ lock' \in Runners \cup {None}
         /\ \A q \in Runners : run'[q].pc \in Busy => run'[q] = run[q] /\ q # p
         /\ \A q \in Runners : q # p => run'[q] = run[q] /\ (lock = q => lock' = q)
<1>1. Over(p) \in Runs /\ Over(p).pc \notin Busy
  BY ParametersAssumption DEF Over, NoRun, Runs, Ids, Busy, Locked
<1>2. run' = [run EXCEPT ![p] = Over(p)] /\ run \in [Runners -> Runs] /\ lock \in Runners \cup {None}
  BY DEF End, TypeInv, TypeOK
<1>3. lock' = IF lock = p THEN None ELSE lock
  BY DEF End
<1> QED BY <1>1, <1>2, <1>3

\* A step to another pc keeps the rest of the run.
LEMMA GotoFacts ==
  ASSUME TypeInv, NEW p \in Runners, NEW pc \in Locked \cup {"waiting"}, Goto(p, pc),
         run[p].pc \in Busy
  PROVE  /\ run' \in [Runners -> Runs]
         /\ \A q \in Runners : run'[q].draft = run[q].draft
                               /\ run'[q].approval = run[q].approval
                               /\ run'[q].consumed = run[q].consumed
         /\ \A q \in Runners : q # p => run'[q] = run[q]
         /\ run'[p].pc = pc
<1>1. run \in [Runners -> Runs] /\ run' = [run EXCEPT ![p].pc = pc]
  BY DEF TypeInv, TypeOK, Goto
<1>2. run[p] \in Runs
  BY <1>1
<1>3. [run[p] EXCEPT !.pc = pc] \in Runs
  BY <1>2 DEF Runs
<1>4. run' = [run EXCEPT ![p] = [run[p] EXCEPT !.pc = pc]]
  BY <1>1
<1>5. /\ [run[p] EXCEPT !.pc = pc].pc = pc
      /\ [run[p] EXCEPT !.pc = pc].draft = run[p].draft
      /\ [run[p] EXCEPT !.pc = pc].approval = run[p].approval
      /\ [run[p] EXCEPT !.pc = pc].consumed = run[p].consumed
  BY <1>2 DEF Runs
<1> QED BY <1>1, <1>3, <1>4, <1>5

\* Unbinding an approval keeps its id and whether it is used.
LEMMA UnbindFacts ==
  ASSUME TypeInv, NEW d \in Drafts, NEW s \in Schedules, Unbind(d, s)
  PROVE  /\ approval' \in [Drafts -> Approvals]
         /\ \A e \in Drafts : /\ approval'[e].id = approval[e].id
                              /\ approval'[e].used = approval[e].used
                              /\ approval'[e].boundTo \in {approval[e].boundTo, None}
<1>1. approval \in [Drafts -> Approvals]
  BY DEF TypeInv, TypeOK
<1>2. [approval[d] EXCEPT !.boundTo = None] \in Approvals
  BY <1>1 DEF Approvals
<1>3. /\ [approval[d] EXCEPT !.boundTo = None].id = approval[d].id
      /\ [approval[d] EXCEPT !.boundTo = None].used = approval[d].used
      /\ [approval[d] EXCEPT !.boundTo = None].boundTo = None
  BY <1>1 DEF Approvals
<1>4. approval' = approval \/ approval' = [approval EXCEPT ![d] = [approval[d] EXCEPT !.boundTo = None]]
  BY DEF Unbind
<1> QED BY <1>1, <1>2, <1>3, <1>4

-----------------------------------------------------------------------------
(* Type correctness                                                        *)

\* The initial state satisfies the type invariant.
LEMMA TypeInit == Init => TypeInv
<1> SUFFICES ASSUME Init PROVE TypeInv
  OBVIOUS
<1> USE ParametersAssumption, NamesAssumption
<1>1. NoApproval \in Approvals /\ NoRun \in Runs /\ NoBooking \in Bookings /\ 0 \in Ids
  BY DEF NoApproval, Approvals, NoRun, Runs, NoBooking, Bookings, Ids
<1>1a. /\ phase \in [Contents -> Once!Phases] /\ sent \in [Contents -> {0, 1}]
       /\ lapsed \in BOOLEAN /\ lock \in Runners \cup {None}
  BY DEF Init, Once!Init, Once!Phases
<1>1b. saved \in Seq(Drafts) /\ submits \in Seq([draft : Drafts, approval : Ids, consumed : Ids])
  BY DEF Init
<1>2. TypeOK
  BY <1>1, <1>1a, <1>1b DEF Init, TypeOK
<1>3. Shape
  BY DEF Init, Shape, NoRun, NoBooking, Busy, Locked
<1> QED BY <1>2, <1>3 DEF TypeInv

\* Every step preserves the type invariant.
LEMMA TypeStep == TypeInv /\ [Next]_vars => TypeInv'
<1> SUFFICES ASSUME TypeInv, [Next]_vars PROVE TypeInv'
  OBVIOUS
<1>1. TypeOK /\ Shape
  BY DEF TypeInv
<1>2. Ids \subseteq Nat /\ 0 \in Ids
  BY ParametersAssumption DEF Ids
<1>3. ASSUME NEW d \in Drafts, Approve(d) PROVE TypeInv'
  <2>1. issued[d] + 1 \in Ids
    BY <1>1, <1>3, ParametersAssumption DEF Approve, TypeOK, Ids
  <2>2. [NoApproval EXCEPT !.id = issued[d] + 1] \in Approvals
    BY <2>1 DEF NoApproval, Approvals
  <2>3. approval' \in [Drafts -> Approvals] /\ issued' \in [Drafts -> Ids]
    BY <1>1, <1>3, <2>1, <2>2 DEF Approve, TypeOK
  <2> QED BY <1>1, <1>3, <2>3 DEF Approve, TypeInv, TypeOK, Shape, rows
<1>4. ASSUME NEW c \in Callers, NEW d \in Drafts, NEW a \in Ids, Publish(c, d, a) PROVE TypeInv'
  <2>1. [NoRun EXCEPT !.pc = "waiting", !.draft = d, !.approval = a] \in Runs
    BY <1>2 DEF NoRun, Runs
  <2>2. [NoRun EXCEPT !.pc = "waiting", !.draft = d, !.approval = a].draft = d
    BY DEF NoRun
  <2>3. run' \in [Runners -> Runs] /\ \A p \in Runners : run'[p] = run[p] \/ run'[p].draft = d
    BY <1>1, <1>4, <2>1, <2>2 DEF Publish, TypeOK, Runners
  <2>4. UNCHANGED <<approval, issued, saved, booking, lock, row, phase, sent, submits, lapsed>>
    BY <1>4 DEF Publish, files, rows
  <2> QED BY <1>1, <2>3, <2>4 DEF TypeInv, TypeOK, Shape
<1>5. ASSUME NEW s \in Schedules, NEW d \in Drafts, NEW a \in Ids, Book(s, d, a) PROVE TypeInv'
  <2>1. [NoRun EXCEPT !.pc = "sleeping", !.draft = d, !.approval = a] \in Runs
    BY <1>2 DEF NoRun, Runs
  <2>2. [NoRun EXCEPT !.pc = "sleeping", !.draft = d, !.approval = a].draft = d
    BY DEF NoRun
  <2>3. run' \in [Runners -> Runs] /\ \A p \in Runners : run'[p] = run[p] \/ run'[p].draft = d
    BY <1>1, <1>5, <2>1, <2>2 DEF Book, TypeOK, Runners
  <2>4. [approval[d] EXCEPT !.boundTo = s] \in Approvals
    BY <1>1 DEF TypeOK, Approvals
  <2>5. approval' \in [Drafts -> Approvals]
    BY <1>1, <1>5, <2>4 DEF Book, TypeOK
  <2>6. UNCHANGED <<issued, saved, booking, lock, row, phase, sent, submits, lapsed>>
    BY <1>5 DEF Book, rows
  <2> QED BY <1>1, <2>3, <2>5, <2>6 DEF TypeInv, TypeOK, Shape
<1>6. ASSUME NEW s \in Schedules, NEW d \in Drafts, NEW a \in Ids, BookCheck(s, d, a) PROVE TypeInv'
  <2>1. [pc |-> "creating", draft |-> d, copy |-> approval[d], id |-> s] \in Bookings
    BY <1>1 DEF TypeOK, Bookings
  <2>2. booking' \in [Schedules -> Bookings]
    BY <1>1, <1>6, <2>1 DEF BookCheck, TypeOK
  <2>3. \A t \in Schedules : booking'[t] = booking[t] \/ (booking'[t].draft = d /\ booking'[t].id \in Schedules)
    BY <1>1, <1>6 DEF BookCheck, TypeOK
  <2>4. UNCHANGED <<approval, issued, saved, run, lock, row, phase, sent, submits, lapsed>>
    BY <1>6 DEF BookCheck, files, rows
  <2> QED BY <1>1, <2>2, <2>3, <2>4 DEF TypeInv, TypeOK, Shape
<1>7. ASSUME NEW p \in Runners, NEW pc \in Locked \cup {"waiting"}, run[p].pc \in Busy, Goto(p, pc)
      PROVE  run' \in [Runners -> Runs] /\ (\A q \in Runners : run'[q].pc \in Busy => run'[q].draft \in Drafts)
  BY <1>1, <1>7, GotoFacts DEF Shape
<1>8. ASSUME NEW p \in Runners, Enter(p) \/ EnterScheduled(p) PROVE TypeInv'
  <2>1. Goto(p, "deciding") /\ run[p].pc \in Busy /\ lock' = p
    BY <1>8 DEF Enter, EnterScheduled, Acquire, At, Busy
  <2>2. UNCHANGED <<approval, issued, saved, booking, row, phase, sent, submits, lapsed>>
    BY <1>8 DEF Enter, EnterScheduled, files, rows
  <2> QED BY <1>1, <1>7, <2>1, <2>2 DEF TypeInv, TypeOK, Shape, Locked
<1>9. ASSUME NEW s \in Schedules, Fire(s) PROVE TypeInv'
  <2>1. Goto(s, "waiting") /\ run[s].pc \in Busy
    BY <1>9 DEF Fire, At, Busy
  <2>2. UNCHANGED <<approval, issued, saved, booking, lock, row, phase, sent, submits, lapsed>>
    BY <1>9 DEF Fire, files, rows
  <2> QED BY <1>1, <1>7, <2>1, <2>2 DEF TypeInv, TypeOK, Shape, Runners
<1>10. ASSUME NEW s \in Schedules, Cancel(s) PROVE TypeInv'
  <2>1. s \in Runners /\ run[s].draft \in Drafts
    BY <1>1, <1>10 DEF Cancel, Shape, TypeOK, Runs, Busy, Runners
  <2>2. approval' \in [Drafts -> Approvals]
    BY <1>10, <2>1, UnbindFacts DEF Cancel
  <2>3. run' \in [Runners -> Runs] /\ lock' \in Runners \cup {None}
        /\ \A q \in Runners : run'[q].pc \in Busy => run'[q] = run[q]
    BY <1>10, <2>1, EndFacts DEF Cancel
  <2>4. UNCHANGED <<issued, saved, booking, row, phase, sent, submits, lapsed>>
    BY <1>10 DEF Cancel, rows
  <2> QED BY <1>1, <2>2, <2>3, <2>4 DEF TypeInv, TypeOK, Shape
<1>11. ASSUME NEW s \in Schedules, BookCreate(s) PROVE TypeInv'
  <2> DEFINE d == booking[s].draft
             c == ContentOf(d)
  <2>1. d \in Drafts /\ c \in Contents /\ booking[s].copy.id \in Ids /\ booking[s] \in Bookings
    BY <1>1, <1>11, ParametersAssumption DEF BookCreate, Shape, TypeOK, Bookings, Approvals
  <2>2. RowId(s, c) \in Schedules
    BY <1>1, <2>1 DEF RowId, TypeOK
  <2>3. row' \in [Contents -> [schedule : Schedules, draft : Drafts, approval : Ids] \cup {NoRow}]
    BY <1>1, <1>11, <2>1 DEF BookCreate, TypeOK
  <2>4. booking' = [booking EXCEPT ![s].pc = "saving", ![s].id = RowId(s, c)]
    BY <1>11 DEF BookCreate
  <2>5. [booking[s] EXCEPT !.pc = "saving", !.id = RowId(s, c)] \in Bookings
    BY <2>1, <2>2 DEF Bookings
  <2>6. booking' \in [Schedules -> Bookings]
    BY <1>1, <2>4, <2>5 DEF TypeOK
  <2>7. \A t \in Schedules : booking'[t] = booking[t]
                             \/ (booking'[t].draft = d /\ booking'[t].id \in Schedules)
    BY <1>1, <2>1, <2>2, <2>4 DEF TypeOK, Bookings
  <2>8. UNCHANGED <<approval, issued, saved, run, lock, phase, sent, submits, lapsed>>
    BY <1>11 DEF BookCreate, files
  <2> QED BY <1>1, <2>1, <2>3, <2>6, <2>7, <2>8 DEF TypeInv, TypeOK, Shape
<1>12. ASSUME NEW s \in Schedules, booking' = [booking EXCEPT ![s] = [NoBooking EXCEPT !.pc = "over"]]
       PROVE  /\ booking' \in [Schedules -> Bookings]
              /\ \A t \in Schedules : booking'[t].pc \in {"creating", "saving"} => booking'[t] = booking[t]
  <2>1. [NoBooking EXCEPT !.pc = "over"] \in Bookings /\ [NoBooking EXCEPT !.pc = "over"].pc = "over"
    BY <1>2 DEF NoBooking, NoApproval, Bookings, Approvals
  <2> QED BY <1>1, <1>12, <2>1 DEF TypeOK
<1>13. ASSUME NEW s \in Schedules, BookSave(s) PROVE TypeInv'
  <2>1. booking[s].draft \in Drafts /\ booking[s].id \in Schedules /\ booking[s].copy \in Approvals
    BY <1>1, <1>13 DEF BookSave, Shape, TypeOK, Bookings
  <2>2. [booking[s].copy EXCEPT !.boundTo = booking[s].id] \in Approvals
    BY <2>1 DEF Approvals
  <2>3. approval' \in [Drafts -> Approvals]
    BY <1>1, <1>13, <2>1, <2>2 DEF BookSave, TypeOK
  <2>4. booking' = [booking EXCEPT ![s] = [NoBooking EXCEPT !.pc = "over"]]
    BY <1>13 DEF BookSave
  <2>5. UNCHANGED <<issued, saved, run, lock, row, phase, sent, submits, lapsed>>
    BY <1>13 DEF BookSave, rows
  <2> QED BY <1>1, <1>12, <2>3, <2>4, <2>5 DEF TypeInv, TypeOK, Shape
<1>14. ASSUME NEW c \in Contents, Once!Withdraw(c) \/ Once!Commit(c) \/ Once!Resolve(c) \/ Once!Send(c)
              \/ UNCHANGED <<phase, sent>>
       PROVE  phase' \in [Contents -> Once!Phases] /\ sent' \in [Contents -> {0, 1}]
  BY <1>1, <1>14 DEF TypeOK, Once!Phases, Once!Withdraw, Once!Commit, Once!Resolve, Once!Send
<1>15. ASSUME NEW s \in Schedules, BookFails(s) PROVE TypeInv'
  <2>1. ContentOf(booking[s].draft) \in Contents
    BY <1>1, <1>15, ParametersAssumption DEF BookFails, Shape
  <2>2. phase' \in [Contents -> Once!Phases] /\ sent' \in [Contents -> {0, 1}]
    BY <1>14, <1>15, <2>1 DEF BookFails
  <2>3. booking' = [booking EXCEPT ![s] = [NoBooking EXCEPT !.pc = "over"]]
    BY <1>15 DEF BookFails
  <2>4. UNCHANGED <<approval, issued, saved, run, lock, row, submits, lapsed>>
    BY <1>15 DEF BookFails, files
  <2> QED BY <1>1, <1>12, <2>2, <2>3, <2>4 DEF TypeInv, TypeOK, Shape
<1>16. ASSUME NEW p \in Runners, Decide(p) PROVE TypeInv'
  <2> DEFINE d == run[p].draft
  <2>1. d \in Drafts /\ approval[d] \in Approvals /\ run[p] \in Runs
    BY <1>1, <1>16 DEF Decide, At, Shape, TypeOK, Busy, Locked
  <2>2. approval' = [approval EXCEPT ![d].used = TRUE]
        /\ run' = [run EXCEPT ![p].pc = "submitting", ![p].consumed = approval[d].id]
    BY <1>16 DEF Decide, Consume
  <2>3. [approval[d] EXCEPT !.used = TRUE] \in Approvals
    BY <2>1 DEF Approvals
  <2>4. approval' \in [Drafts -> Approvals]
    BY <1>1, <2>1, <2>2, <2>3 DEF TypeOK
  <2>5. /\ [run[p] EXCEPT !.pc = "submitting", !.consumed = approval[d].id] \in Runs
        /\ [run[p] EXCEPT !.pc = "submitting", !.consumed = approval[d].id].draft = d
    BY <2>1 DEF Runs, Approvals, Locked
  <2>6. run' \in [Runners -> Runs] /\ \A q \in Runners : run'[q] = run[q] \/ run'[q].draft = d
    BY <1>1, <2>2, <2>5 DEF TypeOK
  <2>7. UNCHANGED <<issued, saved, booking, lock, row, phase, sent, submits, lapsed>>
    BY <1>16 DEF Decide, rows
  <2> QED BY <1>1, <2>1, <2>4, <2>6, <2>7 DEF TypeInv, TypeOK, Shape
<1>17. ASSUME NEW p \in Runners, Submit(p) PROVE TypeInv'
  <2>1. Goto(p, "recording") /\ run[p].pc \in Busy
    BY <1>17 DEF Submit, At, Busy, Locked
  <2>2. run[p].draft \in Drafts /\ run[p].approval \in Ids /\ run[p].consumed \in Ids
    BY <1>1, <2>1 DEF Shape, TypeOK, Runs
  <2>3. submits' \in Seq([draft : Drafts, approval : Ids, consumed : Ids])
    BY <1>1, <1>17, <2>2 DEF Submit, TypeOK
  <2>4. UNCHANGED <<approval, issued, saved, booking, lock, row, phase, sent, lapsed>>
    BY <1>17 DEF Submit, files, rows
  <2> QED BY <1>1, <1>7, <2>1, <2>3, <2>4 DEF TypeInv, TypeOK, Shape, Locked
<1>18. ASSUME NEW p \in Runners, Record(p) PROVE TypeInv'
  <2>1. Goto(p, "syncing") /\ run[p].pc \in Busy
    BY <1>18 DEF Record, At, Busy, Locked
  <2>2. saved' \in Seq(Drafts)
    BY <1>1, <1>18, <2>1 DEF Record, TypeOK, Shape
  <2>3. UNCHANGED <<approval, issued, booking, lock, row, phase, sent, submits, lapsed>>
    BY <1>18 DEF Record, rows
  <2> QED BY <1>1, <1>7, <2>1, <2>2, <2>3 DEF TypeInv, TypeOK, Shape, Locked
<1>19. ASSUME NEW p \in Runners, Sync(p) \/ Fails(p) PROVE TypeInv'
  <2>1. run' \in [Runners -> Runs] /\ lock' \in Runners \cup {None}
        /\ \A q \in Runners : run'[q].pc \in Busy => run'[q] = run[q]
    BY <1>19, EndFacts DEF Sync, Fails
  <2>2. UNCHANGED <<approval, issued, saved, booking, row, phase, sent, submits, lapsed>>
    BY <1>19 DEF Sync, Fails, files, rows
  <2> QED BY <1>1, <2>1, <2>2 DEF TypeInv, TypeOK, Shape
<1>20. ASSUME NEW c \in Contents, Work(c) PROVE TypeInv'
  <2>1. phase' \in [Contents -> Once!Phases] /\ sent' \in [Contents -> {0, 1}]
    BY <1>14, <1>20 DEF Work
  <2>2. UNCHANGED <<approval, issued, saved, run, booking, lock, row, submits, lapsed>>
    BY <1>20 DEF Work, files
  <2> QED BY <1>1, <2>1, <2>2 DEF TypeInv, TypeOK, Shape
<1>21. ASSUME NEW c \in Contents, Send(c) PROVE TypeInv'
  <2>1. phase' \in [Contents -> Once!Phases] /\ sent' \in [Contents -> {0, 1}]
    BY <1>14, <1>21 DEF Send
  <2>2. row[c].draft \in Drafts /\ row[c].approval \in Ids
    BY <1>1, <1>21 DEF Send, HasRow, TypeOK
  <2>3. submits' \in Seq([draft : Drafts, approval : Ids, consumed : Ids])
    BY <1>1, <1>2, <1>21, <2>2 DEF Send, TypeOK
  <2>4. UNCHANGED <<approval, issued, saved, run, booking, lock, row, lapsed>>
    BY <1>21 DEF Send, files
  <2> QED BY <1>1, <2>1, <2>3, <2>4 DEF TypeInv, TypeOK, Shape
<1>22. ASSUME NEW c \in Contents, CancelDistributed(c) PROVE TypeInv'
  <2>1. phase' \in [Contents -> Once!Phases] /\ sent' \in [Contents -> {0, 1}]
    BY <1>14, <1>22 DEF CancelDistributed
  <2>2. row[c].draft \in Drafts /\ row[c].schedule \in Schedules
    BY <1>1, <1>22 DEF CancelDistributed, HasRow, TypeOK
  <2>3. approval' \in [Drafts -> Approvals]
    BY <1>22, <2>2, UnbindFacts DEF CancelDistributed
  <2>4. UNCHANGED <<issued, saved, run, booking, lock, row, submits, lapsed>>
    BY <1>22 DEF CancelDistributed
  <2> QED BY <1>1, <2>1, <2>3, <2>4 DEF TypeInv, TypeOK, Shape
<1>23. CASE LockLapse
  BY <1>1, <1>23 DEF LockLapse, files, rows, TypeInv, TypeOK, Shape
<1>24. CASE Crash
  <2>1. \A p \in Runners : Over(p) \in Runs /\ Over(p).pc \notin Busy
    BY <1>2 DEF Over, NoRun, Runs, Busy, Locked
  <2>2. run' \in [Runners -> Runs] /\ \A p \in Runners : run'[p].pc \in Busy => run'[p] = run[p]
    BY <1>1, <1>24, <2>1 DEF Crash, TypeOK
  <2>3. [NoBooking EXCEPT !.pc = "over"] \in Bookings /\ [NoBooking EXCEPT !.pc = "over"].pc = "over"
    BY <1>2 DEF NoBooking, NoApproval, Bookings, Approvals
  <2>4. booking' \in [Schedules -> Bookings]
        /\ \A s \in Schedules : booking'[s].pc \in {"creating", "saving"} => booking'[s] = booking[s]
    BY <1>1, <1>24, <2>3 DEF Crash, TypeOK
  <2>5. lock' = None /\ UNCHANGED <<approval, issued, saved, row, phase, sent, submits, lapsed>>
    BY <1>24 DEF Crash, files, rows
  <2> QED BY <1>1, <2>2, <2>4, <2>5 DEF TypeInv, TypeOK, Shape
<1>25. CASE UNCHANGED vars
  BY <1>1, <1>25 DEF vars, TypeInv, TypeOK, Shape
<1>26. CASE Step
  BY <1>26, <1>3, <1>4, <1>5, <1>6, <1>8, <1>9, <1>10, <1>11, <1>13, <1>15, <1>16, <1>17, <1>18,
     <1>19, <1>20, <1>21, <1>22, <1>23, <1>24 DEF Step, Runners
<1> QED BY <1>25, <1>26, StepsOfNext

\* The model is type-correct: files, runs, bookings, rows and histories keep
\* the shapes that create_approval, publish, schedule and their stores give
\* them, for every number of drafts, callers and schedules.
THEOREM TypeCorrect == Spec => []TypeOK
<1>1. Spec => []TypeInv
  BY TypeInit, TypeStep, PTL DEF Spec
<1> QED BY <1>1, PTL DEF TypeInv

-----------------------------------------------------------------------------
(* The account lock                                                        *)

\* The lock expires under its holder in no other step.
LEMMA LapsedStays ==
  ASSUME [Next]_vars, ~LockLapse
  PROVE  lapsed' = lapsed
<1>1. ASSUME NEW d \in Drafts, Approve(d) PROVE lapsed' = lapsed
  BY <1>1 DEF Approve
<1>2. ASSUME NEW c \in Callers, NEW d \in Drafts, NEW a \in Ids, Publish(c, d, a)
      PROVE lapsed' = lapsed
  BY <1>2 DEF Publish
<1>3. ASSUME NEW s \in Schedules, NEW d \in Drafts, NEW a \in Ids,
             Book(s, d, a) \/ BookCheck(s, d, a)
      PROVE lapsed' = lapsed
  BY <1>3 DEF Book, BookCheck
<1>4. ASSUME NEW c \in Callers, Enter(c) PROVE lapsed' = lapsed
  BY <1>4 DEF Enter
<1>5. ASSUME NEW s \in Schedules, Fire(s) \/ EnterScheduled(s) \/ Cancel(s)
      PROVE lapsed' = lapsed
  BY <1>5 DEF Fire, EnterScheduled, Cancel
<1>6. ASSUME NEW s \in Schedules, BookCreate(s) \/ BookSave(s) \/ BookFails(s)
      PROVE lapsed' = lapsed
  BY <1>6 DEF BookCreate, BookSave, BookFails
<1>7. ASSUME NEW p \in Runners, Decide(p) \/ Submit(p) \/ Record(p) \/ Sync(p) \/ Fails(p)
      PROVE lapsed' = lapsed
  BY <1>7 DEF Decide, Submit, Record, Sync, Fails
<1>8. ASSUME NEW c \in Contents, Work(c) \/ Send(c) \/ CancelDistributed(c)
      PROVE lapsed' = lapsed
  BY <1>8 DEF Work, Send, CancelDistributed
<1>9. CASE Crash
  BY <1>9 DEF Crash
<1>10. CASE UNCHANGED vars
  BY <1>10 DEF vars
<1> QED BY <1>1, <1>2, <1>3, <1>4, <1>5, <1>6, <1>7, <1>8, <1>9, <1>10, StepsOfNext DEF Step

\* A run past the lock's acquisition is its holder.
Exclusive == \A p \in Runners : run[p].pc \in Locked => lock = p

\* The refusals of _publish_locked stay true until the result is saved.
Pending ==
  \A p \in Runners : run[p].pc \in {"submitting", "recording"} =>
    ~AlreadyPublished(run[p].draft) /\ WithinDailyLimit

LockInv == ~lapsed => Exclusive /\ Pending /\ ContentSavedOnce /\ DailyLimitKept

\* The invariant of the lock holds initially.
LEMMA LockInit == Init => LockInv
<1> SUFFICES ASSUME Init PROVE LockInv
  OBVIOUS
<1>1. \A p \in Runners : run[p].pc = "idle"
  BY DEF Init, NoRun
<1>2. saved = <<>>
  BY DEF Init
<1> QED BY <1>1, <1>2, ParametersAssumption
        DEF LockInv, Exclusive, Pending, ContentSavedOnce, DailyLimitKept, Locked

\* Steps that leave the saved results alone and let no run into the locked
\* part, or further than "deciding" there, preserve it.
LEMMA LockKept ==
  ASSUME LockInv, saved' = saved, lapsed' = lapsed,
         \A p \in Runners : run'[p].pc \in Locked =>
           \/ run'[p] = run[p] /\ (lock = p => lock' = p)
           \/ run'[p].pc = "deciding" /\ lock' = p
  PROVE  LockInv'
<1> SUFFICES ASSUME ~lapsed, ~lapsed' PROVE LockInv'
  BY DEF LockInv
<1>1. Exclusive /\ Pending /\ ContentSavedOnce /\ DailyLimitKept
  BY DEF LockInv
<1>2. Exclusive'
  BY <1>1 DEF Exclusive
<1>3. \A p \in Runners : run'[p].pc \in {"submitting", "recording"} => run'[p] = run[p]
  BY DEF Locked
<1>4. Pending'
  BY <1>1, <1>3 DEF Pending, AlreadyPublished, WithinDailyLimit
<1>5. ContentSavedOnce' /\ DailyLimitKept'
  BY <1>1 DEF ContentSavedOnce, DailyLimitKept
<1> QED BY <1>2, <1>4, <1>5 DEF LockInv

\* Every step preserves the invariant of the lock.
LEMMA LockStep == TypeInv /\ LockInv /\ [Next]_vars => LockInv'
<1> SUFFICES ASSUME TypeInv, LockInv, [Next]_vars, ~lapsed' PROVE LockInv'
  BY DEF LockInv
<1>a. ~LockLapse
  BY DEF LockLapse
<1>b. lapsed' = lapsed /\ ~lapsed
  BY <1>a, LapsedStays
<1>1. Exclusive /\ Pending /\ ContentSavedOnce /\ DailyLimitKept
  BY <1>b DEF LockInv
<1>2. run \in [Runners -> Runs] /\ saved \in Seq(Drafts)
  BY DEF TypeInv, TypeOK
<1>3. ASSUME UNCHANGED <<run, lock, saved>> PROVE LockInv'
  BY <1>3, LockKept, <1>b
<1>4. ASSUME NEW d \in Drafts, Approve(d) PROVE LockInv'
  BY <1>3, <1>4 DEF Approve
<1>5. ASSUME NEW c \in Callers, NEW d \in Drafts, NEW a \in Ids, Publish(c, d, a) PROVE LockInv'
  <2>1. [NoRun EXCEPT !.pc = "waiting", !.draft = d, !.approval = a].pc \notin Locked
    BY DEF NoRun, Locked
  <2>2. \A p \in Runners : run'[p].pc \in Locked => run'[p] = run[p]
    BY <1>2, <1>5, <2>1 DEF Publish, Runners
  <2> QED BY <1>5, <2>2, LockKept, <1>b DEF Publish, files
<1>6. ASSUME NEW s \in Schedules, NEW d \in Drafts, NEW a \in Ids, Book(s, d, a) PROVE LockInv'
  <2>1. [NoRun EXCEPT !.pc = "sleeping", !.draft = d, !.approval = a].pc \notin Locked
    BY DEF NoRun, Locked
  <2>2. \A p \in Runners : run'[p].pc \in Locked => run'[p] = run[p]
    BY <1>2, <1>6, <2>1 DEF Book, Runners
  <2> QED BY <1>6, <2>2, LockKept, <1>b DEF Book
<1>7. ASSUME NEW p \in Runners, Enter(p) \/ EnterScheduled(p) PROVE LockInv'
  <2>1. Goto(p, "deciding") /\ run[p].pc \in Busy /\ lock = None /\ lock' = p /\ saved' = saved
    BY <1>7 DEF Enter, EnterScheduled, Acquire, LockFree, At, Busy, files
  <2>2. \A q \in Runners : q # p => run'[q] = run[q]
    BY <2>1, GotoFacts DEF Locked
  <2>3. run'[p].pc = "deciding"
    BY <2>1, GotoFacts DEF Locked
  <2>4. \A q \in Runners : run[q].pc \notin Locked
    BY <1>1, <2>1, NamesAssumption DEF Exclusive, Runners
  <2> QED BY <2>1, <2>2, <2>3, <2>4, LockKept, <1>b
<1>8. ASSUME NEW s \in Schedules, Fire(s) PROVE LockInv'
  <2>1. Goto(s, "waiting") /\ run[s].pc \in Busy /\ s \in Runners
    BY <1>8 DEF Fire, At, Busy, Runners
  <2>2. \A q \in Runners : q # s => run'[q] = run[q]
    BY <2>1, GotoFacts
  <2>3. run'[s].pc \notin Locked
    BY <2>1, GotoFacts DEF Locked
  <2> QED BY <1>8, <2>2, <2>3, LockKept, <1>b DEF Fire, files
<1>9. ASSUME NEW p \in Runners, End(p), saved' = saved PROVE LockInv'
  <2>1. \A q \in Runners : run'[q].pc \in Locked => run'[q] = run[q] /\ q # p
    BY <1>9, EndFacts DEF Busy
  <2>2. \A q \in Runners : q # p => (lock = q => lock' = q)
    BY <1>9, EndFacts
  <2> QED BY <1>9, <2>1, <2>2, LockKept, <1>b
<1>10. ASSUME NEW p \in Runners, Decide(p) PROVE LockInv'
  <2>1. At(p, "deciding") /\ lock' = lock /\ saved' = saved
        /\ ~AlreadyPublished(run[p].draft) /\ WithinDailyLimit
    BY <1>10 DEF Decide
  <2>2. run' = [run EXCEPT ![p].pc = "submitting", ![p].consumed = approval[run[p].draft].id]
    BY <1>10 DEF Decide
  <2>3. \A q \in Runners : q # p => run'[q] = run[q]
    BY <1>2, <2>2
  <2>4. run'[p].draft = run[p].draft
    BY <1>2, <2>2 DEF Runs
  <2>5. run[p].pc \in Locked
    BY <2>1 DEF At, Locked
  <2>6. Exclusive'
    BY <1>1, <2>1, <2>3, <2>5 DEF Exclusive
  <2>7. Pending'
    BY <1>1, <2>1, <2>3, <2>4 DEF Pending, AlreadyPublished, WithinDailyLimit
  <2>8. ContentSavedOnce' /\ DailyLimitKept'
    BY <1>1, <1>b, <2>1 DEF ContentSavedOnce, DailyLimitKept
  <2> QED BY <2>6, <2>7, <2>8 DEF LockInv
<1>11. ASSUME NEW p \in Runners, Submit(p) PROVE LockInv'
  <2>1. At(p, "submitting") /\ lock' = lock /\ saved' = saved /\ Goto(p, "recording")
    BY <1>11 DEF Submit, files
  <2>2. run[p].pc \in Busy /\ run[p].pc \in Locked
    BY <2>1 DEF At, Busy, Locked
  <2>3. \A q \in Runners : q # p => run'[q] = run[q]
    BY <2>1, <2>2, GotoFacts DEF Locked
  <2>4. run'[p].draft = run[p].draft
    BY <2>1, <2>2, GotoFacts DEF Locked
  <2>5. Exclusive'
    BY <1>1, <2>1, <2>2, <2>3 DEF Exclusive
  <2>6. Pending'
    BY <1>1, <2>1, <2>3, <2>4 DEF Pending, At, AlreadyPublished, WithinDailyLimit
  <2>7. ContentSavedOnce' /\ DailyLimitKept'
    BY <1>1, <1>b, <2>1 DEF ContentSavedOnce, DailyLimitKept
  <2> QED BY <2>5, <2>6, <2>7 DEF LockInv
<1>12. ASSUME NEW p \in Runners, Record(p) PROVE LockInv'
  <2> DEFINE d == run[p].draft
  <2>1. At(p, "recording") /\ lock' = lock /\ saved' = Append(saved, d) /\ Goto(p, "syncing")
    BY <1>12 DEF Record
  <2>2. run[p].pc \in Busy /\ run[p].pc \in Locked
    BY <2>1 DEF At, Busy, Locked
  <2>3. \A q \in Runners : q # p => run'[q] = run[q]
    BY <2>1, <2>2, GotoFacts DEF Locked
  <2>4. run'[p].pc = "syncing"
    BY <2>1, <2>2, GotoFacts DEF Locked
  <2>5. Exclusive'
    BY <1>1, <2>1, <2>2, <2>3 DEF Exclusive
  <2>6. Pending'
    BY <1>1, <2>2, <2>3, <2>4 DEF Pending, Exclusive, Locked
  <2>7. ~AlreadyPublished(d) /\ Len(saved) < DailyLimit
    BY <1>1, <2>1 DEF Pending, At, WithinDailyLimit
  <2>8. d \in Drafts
    BY <2>2 DEF TypeInv, Shape
  <2>9. /\ Len(saved') = Len(saved) + 1 /\ Len(saved) \in Nat
        /\ DOMAIN saved' = 1 .. Len(saved) + 1 /\ DOMAIN saved = 1 .. Len(saved)
        /\ \A i \in 1 .. Len(saved) : saved'[i] = saved[i]
        /\ saved'[Len(saved) + 1] = d
    BY <1>2, <2>1, <2>8
  <2>10. DailyLimitKept'
    BY <2>7, <2>9, ParametersAssumption DEF DailyLimitKept
  <2>11. \A i \in 1 .. Len(saved) : ContentOf(saved[i]) # ContentOf(d)
    BY <2>7, <2>9 DEF AlreadyPublished
  <2>12. \A i, j \in 1 .. Len(saved) : ContentOf(saved[i]) = ContentOf(saved[j]) => i = j
    BY <1>1, <1>b, <2>9 DEF ContentSavedOnce
  <2>13. ASSUME NEW i \in DOMAIN saved', NEW j \in DOMAIN saved',
                ContentOf(saved'[i]) = ContentOf(saved'[j])
         PROVE  i = j
    <3>1. (i \in 1 .. Len(saved) \/ i = Len(saved) + 1) /\ (j \in 1 .. Len(saved) \/ j = Len(saved) + 1)
      BY <2>9
    <3>2. CASE i \in 1 .. Len(saved) /\ j \in 1 .. Len(saved)
      BY <2>9, <2>12, <2>13, <3>2
    <3>3. CASE i \in 1 .. Len(saved) /\ j = Len(saved) + 1
      BY <2>9, <2>11, <2>13, <3>3
    <3>4. CASE i = Len(saved) + 1 /\ j \in 1 .. Len(saved)
      BY <2>9, <2>11, <2>13, <3>4
    <3> QED BY <3>1, <3>2, <3>3, <3>4
  <2>14. ContentSavedOnce'
    BY <2>13 DEF ContentSavedOnce
  <2> QED BY <2>5, <2>6, <2>10, <2>14 DEF LockInv
<1>13. CASE Crash
  <2>1. \A p \in Runners : Over(p).pc \notin Locked
    BY DEF Over, NoRun, Locked
  <2>2. \A p \in Runners : run'[p].pc \notin Locked
    BY <1>13, <2>1 DEF Crash, Locked
  <2> QED BY <1>13, <2>2, LockKept, <1>b DEF Crash, files
<1>14. CASE UNCHANGED vars
  BY <1>3, <1>14 DEF vars
<1>15. CASE Step
  <2>1. ASSUME NEW s \in Schedules, NEW d \in Drafts, NEW a \in Ids, BookCheck(s, d, a) PROVE LockInv'
    BY <1>3, <2>1 DEF BookCheck, files
  <2>2. ASSUME NEW s \in Schedules, BookCreate(s) \/ BookSave(s) \/ BookFails(s) PROVE LockInv'
    BY <1>3, <2>2 DEF BookCreate, BookSave, BookFails, files
  <2>3. ASSUME NEW c \in Contents, Work(c) \/ Send(c) \/ CancelDistributed(c) PROVE LockInv'
    BY <1>3, <2>3 DEF Work, Send, CancelDistributed, files
  <2>4. ASSUME NEW s \in Schedules, Cancel(s) PROVE LockInv'
    BY <1>9, <2>4 DEF Cancel, Runners
  <2>5. ASSUME NEW p \in Runners, Sync(p) \/ Fails(p) PROVE LockInv'
    BY <1>9, <2>5 DEF Sync, Fails, files
  <2> QED BY <1>a, <1>15, <1>4, <1>5, <1>6, <1>7, <1>8, <1>10, <1>11, <1>12, <1>13,
             <2>1, <2>2, <2>3, <2>4, <2>5 DEF Step, Runners
<1> QED BY <1>14, <1>15, StepsOfNext

\* As long as the account lock did not expire under its holder, at most one
\* submitted result per content is on file.
THEOREM SavedOnce == Spec => []ContentSavedOnce
<1>1. Spec => [](TypeInv /\ LockInv)
  BY TypeInit, TypeStep, LockInit, LockStep, PTL DEF Spec
<1>2. LockInv => ContentSavedOnce
  BY DEF LockInv, ContentSavedOnce
<1> QED BY <1>1, <1>2, PTL

\* Under the same condition the submitted results on file never exceed the
\* daily limit.
THEOREM WithinLimit == Spec => []DailyLimitKept
<1>1. Spec => [](TypeInv /\ LockInv)
  BY TypeInit, TypeStep, LockInit, LockStep, PTL DEF Spec
<1>2. LockInv => DailyLimitKept
  BY DEF LockInv, DailyLimitKept
<1> QED BY <1>1, <1>2, PTL

-----------------------------------------------------------------------------
(* One submission per consumed approval, with or without the lock          *)

\* Approval a of draft d has been consumed: it cannot be on file unused.
Spent(d, a) == a <= issued[d] /\ (a = approval[d].id => approval[d].used)

NoDistributedWork ==
  /\ \A c \in Contents : row[c] = NoRow
  /\ \A s \in Schedules : booking[s].pc = "none" \/ booking[s].pc = "over"

PaidInv ==
  ~Distributed =>
    /\ NoDistributedWork
    /\ \A d \in Drafts : approval[d].id <= issued[d]
    /\ \A i \in DOMAIN submits : Spent(submits[i].draft, submits[i].consumed)
    /\ \A p \in Runners : At(p, "submitting") =>
         /\ Spent(run[p].draft, run[p].consumed)
         /\ \A i \in DOMAIN submits :
              ~(submits[i].draft = run[p].draft /\ submits[i].consumed = run[p].consumed)
         /\ \A q \in Runners : At(q, "submitting") /\ q # p =>
              ~(run[q].draft = run[p].draft /\ run[q].consumed = run[p].consumed)
    /\ ApprovalConsumedOnce

\* The invariant of the consumptions holds initially.
LEMMA PaidInit == Init => PaidInv
<1> SUFFICES ASSUME Init PROVE PaidInv
  OBVIOUS
<1>1. \A d \in Drafts : approval[d].id <= issued[d]
  <2>1. NoApproval.id = 0
    BY DEF NoApproval
  <2>2. \A d \in Drafts : approval[d].id = NoApproval.id /\ issued[d] = 0
    BY DEF Init
  <2>3. \A d \in Drafts : approval[d].id = 0 /\ issued[d] = 0
    BY <2>1, <2>2
  <2>4. 0 <= 0
    OBVIOUS
  <2>5. ASSUME NEW d \in Drafts PROVE approval[d].id <= issued[d]
    BY <2>3, <2>4, Zenon
  <2> QED BY <2>5
<1>2. \A p \in Runners : ~At(p, "submitting")
  BY DEF Init, NoRun, At
<1>3. submits = <<>> /\ NoDistributedWork
  BY DEF Init, NoDistributedWork, NoBooking
<1> QED BY <1>1, <1>2, <1>3 DEF PaidInv, ApprovalConsumedOnce

\* Steps that add no submission, start none, and neither unconsume an
\* approval nor bring an old one back preserve it.
LEMMA PaidKept ==
  ASSUME TypeInv, PaidInv, NoDistributedWork', submits' = submits,
         \A p \in Runners : At(p, "submitting")' => run'[p] = run[p],
         \A d \in Drafts : approval'[d].id <= issued'[d],
         \A d \in Drafts, a \in Ids : Spent(d, a) => Spent(d, a)'
  PROVE  PaidInv'
<1> SUFFICES ASSUME ~Distributed PROVE PaidInv'
  BY DEF PaidInv
<1>1. \A i \in DOMAIN submits : submits[i].draft \in Drafts /\ submits[i].consumed \in Ids
  <2>1. submits \in Seq([draft : Drafts, approval : Ids, consumed : Ids])
    BY DEF TypeInv, TypeOK
  <2>2. \A i \in DOMAIN submits : submits[i] \in [draft : Drafts, approval : Ids, consumed : Ids]
    BY <2>1, SeqElement
  <2> QED BY <2>2
<1>2. \A p \in Runners : At(p, "submitting") => run[p].draft \in Drafts /\ run[p].consumed \in Ids
  BY DEF TypeInv, TypeOK, Shape, Runs, At, Busy, Locked
<1>3. \A i \in DOMAIN submits : Spent(submits[i].draft, submits[i].consumed)'
  BY <1>1 DEF PaidInv
<1>4. \A p \in Runners : At(p, "submitting")' => At(p, "submitting") /\ run'[p] = run[p]
  BY DEF At
<1>5. ASSUME NEW p \in Runners, At(p, "submitting")'
      PROVE  /\ Spent(run[p].draft, run[p].consumed)'
             /\ \A i \in DOMAIN submits :
                  ~(submits[i].draft = run[p].draft /\ submits[i].consumed = run[p].consumed)
             /\ \A q \in Runners : At(q, "submitting")' /\ q # p =>
                  ~(run[q].draft = run[p].draft /\ run[q].consumed = run[p].consumed)
  <2>1. At(p, "submitting") /\ run'[p] = run[p]
    BY <1>4, <1>5
  <2>2. Spent(run[p].draft, run[p].consumed)
    BY <2>1 DEF PaidInv
  <2>3. Spent(run[p].draft, run[p].consumed)'
    <3>1. run[p].draft \in Drafts /\ run[p].consumed \in Ids
      BY <1>2, <2>1
    <3>2. PICK d \in Drafts, a \in Ids : d = run[p].draft /\ a = run[p].consumed
      BY <3>1
    <3>3. d = run'[p].draft /\ a = run'[p].consumed
      BY <2>1, <3>2
    <3>4. Spent(d, a)'
      BY <2>2, <3>2
    <3> QED BY <3>3, <3>4 DEF Spent
  <2> QED BY <1>4, <2>1, <2>3 DEF PaidInv
<1>6. ApprovalConsumedOnce'
  BY DEF PaidInv, ApprovalConsumedOnce
<1> QED BY <1>3, <1>4, <1>5, <1>6 DEF PaidInv, Spent

\* Every step preserves the invariant of the consumptions.
LEMMA PaidStep == TypeInv /\ PaidInv /\ [Next]_vars => PaidInv'
<1> SUFFICES ASSUME TypeInv, PaidInv, [Next]_vars, ~Distributed PROVE PaidInv'
  BY DEF PaidInv
<1>1. /\ approval \in [Drafts -> Approvals] /\ issued \in [Drafts -> Ids] /\ Ids \subseteq Nat
      /\ run \in [Runners -> Runs] /\ booking \in [Schedules -> Bookings]
      /\ submits \in Seq([draft : Drafts, approval : Ids, consumed : Ids])
  BY ParametersAssumption DEF TypeInv, TypeOK, Ids
<1>2. \A d \in Drafts : approval[d].id \in Nat /\ issued[d] \in Nat /\ approval[d].id <= issued[d]
  BY <1>1 DEF PaidInv, Approvals
<1>3. NoDistributedWork
  BY DEF PaidInv
<1>4. ASSUME UNCHANGED <<submits, row, booking>>,
             \A p \in Runners : At(p, "submitting")' => run'[p] = run[p],
             \A d \in Drafts : issued'[d] = issued[d] /\ approval'[d].id = approval[d].id
                               /\ (approval[d].used => approval'[d].used)
      PROVE  PaidInv'
  <2>1. NoDistributedWork'
    BY <1>3, <1>4 DEF NoDistributedWork
  <2>2. \A d \in Drafts, a \in Ids : Spent(d, a) => Spent(d, a)'
    BY <1>4 DEF Spent
  <2>3. \A d \in Drafts : approval'[d].id <= issued'[d]
    BY <1>2, <1>4
  <2> QED BY <1>4, <2>1, <2>2, <2>3, PaidKept
<1>5. ASSUME UNCHANGED <<submits, row, booking, approval, issued>>,
             \A p \in Runners : At(p, "submitting")' => run'[p] = run[p]
      PROVE  PaidInv'
  BY <1>4, <1>5
<1>6. ASSUME NEW d \in Drafts, Approve(d) PROVE PaidInv'
  <2>1. /\ issued' = [issued EXCEPT ![d] = issued[d] + 1]
        /\ approval' = [approval EXCEPT ![d] = [NoApproval EXCEPT !.id = issued[d] + 1]]
        /\ UNCHANGED <<run, booking, row, submits>>
    BY <1>6 DEF Approve, rows
  <2>2. [NoApproval EXCEPT !.id = issued[d] + 1].id = issued[d] + 1
    BY DEF NoApproval
  <2>3. issued'[d] = issued[d] + 1 /\ approval'[d].id = issued[d] + 1
    BY <1>1, <2>1, <2>2
  <2>4. \A e \in Drafts : e # d => issued'[e] = issued[e] /\ approval'[e] = approval[e]
    BY <1>1, <2>1
  <2>5. \A e \in Drafts : approval'[e].id <= issued'[e]
    BY <1>2, <2>3, <2>4
  <2>6. \A e \in Drafts, a \in Ids : Spent(e, a) => Spent(e, a)'
    BY <1>1, <1>2, <2>3, <2>4 DEF Spent
  <2>7. NoDistributedWork'
    BY <1>3, <2>1 DEF NoDistributedWork
  <2> QED BY <2>1, <2>5, <2>6, <2>7, PaidKept
<1>7. ASSUME NEW c \in Callers, NEW d \in Drafts, NEW a \in Ids, Publish(c, d, a) PROVE PaidInv'
  <2>1. [NoRun EXCEPT !.pc = "waiting", !.draft = d, !.approval = a].pc = "waiting"
    BY DEF NoRun
  <2>2. \A p \in Runners : At(p, "submitting")' => run'[p] = run[p]
    BY <1>1, <1>7, <2>1 DEF Publish, Runners, At
  <2> QED BY <1>5, <1>7, <2>2 DEF Publish, files, rows
<1>8. ASSUME NEW s \in Schedules, NEW d \in Drafts, NEW a \in Ids, Book(s, d, a) PROVE PaidInv'
  <2>1. [NoRun EXCEPT !.pc = "sleeping", !.draft = d, !.approval = a].pc = "sleeping"
    BY DEF NoRun
  <2>2. \A p \in Runners : At(p, "submitting")' => run'[p] = run[p]
    BY <1>1, <1>8, <2>1 DEF Book, Runners, At
  <2>3. approval' = approval \/ approval' = [approval EXCEPT ![d] = [approval[d] EXCEPT !.boundTo = s]]
    BY <1>8 DEF Book
  <2>4. /\ [approval[d] EXCEPT !.boundTo = s].id = approval[d].id
        /\ [approval[d] EXCEPT !.boundTo = s].used = approval[d].used
    BY <1>1 DEF Approvals
  <2>5. \A e \in Drafts : approval'[e].id = approval[e].id /\ (approval[e].used => approval'[e].used)
    BY <1>1, <2>3, <2>4
  <2>6. UNCHANGED <<issued, booking, row, submits>>
    BY <1>8 DEF Book, rows
  <2> QED BY <1>4, <2>2, <2>5, <2>6
<1>9. ASSUME NEW p \in Runners, NEW pc \in Locked \cup {"waiting"}, Goto(p, pc),
             run[p].pc \in Busy, pc # "submitting"
      PROVE  \A q \in Runners : At(q, "submitting")' => run'[q] = run[q]
  BY <1>9, GotoFacts DEF At
<1>10. ASSUME NEW p \in Runners, Enter(p) \/ EnterScheduled(p) PROVE PaidInv'
  <2>1. Goto(p, "deciding") /\ run[p].pc \in Busy
    BY <1>10 DEF Enter, EnterScheduled, At, Busy
  <2>2. UNCHANGED <<submits, row, booking, approval, issued>>
    BY <1>10 DEF Enter, EnterScheduled, files, rows
  <2>3. \A q \in Runners : At(q, "submitting")' => run'[q] = run[q]
    BY <1>9, <2>1 DEF Locked
  <2> QED BY <1>5, <2>2, <2>3
<1>11. ASSUME NEW s \in Schedules, Fire(s) PROVE PaidInv'
  <2>1. Goto(s, "waiting") /\ run[s].pc \in Busy /\ s \in Runners
    BY <1>11 DEF Fire, At, Busy, Runners
  <2>2. UNCHANGED <<submits, row, booking, approval, issued>>
    BY <1>11 DEF Fire, files, rows
  <2>3. \A q \in Runners : At(q, "submitting")' => run'[q] = run[q]
    BY <1>9, <2>1
  <2> QED BY <1>5, <2>2, <2>3
<1>12. ASSUME NEW p \in Runners, End(p)
       PROVE  \A q \in Runners : At(q, "submitting")' => run'[q] = run[q]
  BY <1>12, EndFacts DEF At, Busy, Locked
<1>13. ASSUME NEW s \in Schedules, Cancel(s) PROVE PaidInv'
  <2>1. s \in Runners /\ run[s].draft \in Drafts
    BY <1>1, <1>13 DEF Cancel, TypeInv, Shape, Runs, Busy, Runners
  <2>2. \A d \in Drafts : approval'[d].id = approval[d].id /\ approval'[d].used = approval[d].used
    BY <1>13, <2>1, UnbindFacts DEF Cancel
  <2>3. \A q \in Runners : At(q, "submitting")' => run'[q] = run[q]
    BY <1>12, <1>13, <2>1 DEF Cancel
  <2>4. UNCHANGED <<submits, row, booking, issued>>
    BY <1>13 DEF Cancel, rows
  <2> QED BY <1>4, <2>2, <2>3, <2>4
<1>14. ASSUME NEW p \in Runners, Decide(p) PROVE PaidInv'
  <2> DEFINE d == run[p].draft
             a == approval[d].id
  <2>1. d \in Drafts /\ run[p] \in Runs /\ approval[d] \in Approvals /\ a \in Ids /\ At(p, "deciding")
    BY <1>1, <1>14 DEF Decide, At, TypeInv, Shape, Busy, Locked, Approvals
  <2>2. /\ ~approval[d].used
        /\ approval' = [approval EXCEPT ![d] = [approval[d] EXCEPT !.used = TRUE]]
        /\ run' = [run EXCEPT ![p] = [run[p] EXCEPT !.pc = "submitting", !.consumed = a]]
        /\ UNCHANGED <<issued, booking, row, submits>>
    BY <1>14 DEF Decide, Consume, rows
  <2>3. /\ [approval[d] EXCEPT !.used = TRUE].id = a
        /\ [approval[d] EXCEPT !.used = TRUE].used = TRUE
    BY <2>1 DEF Approvals
  <2>4. /\ [run[p] EXCEPT !.pc = "submitting", !.consumed = a].draft = d
        /\ [run[p] EXCEPT !.pc = "submitting", !.consumed = a].consumed = a
        /\ [run[p] EXCEPT !.pc = "submitting", !.consumed = a].pc = "submitting"
    BY <2>1 DEF Runs
  <2>5. run'[p].draft = d /\ run'[p].consumed = a /\ \A q \in Runners : q # p => run'[q] = run[q]
    BY <1>1, <2>2, <2>4
  <2>6. approval'[d].id = a /\ approval'[d].used /\ \A e \in Drafts : e # d => approval'[e] = approval[e]
    BY <1>1, <2>1, <2>2, <2>3
  <2>7. ~Spent(d, a)
    BY <2>2 DEF Spent
  <2>8. \A e \in Drafts, b \in Ids : Spent(e, b) => Spent(e, b)'
    BY <2>2, <2>6 DEF Spent
  <2>9. \A i \in DOMAIN submits : submits[i].draft \in Drafts /\ submits[i].consumed \in Ids
    <3>1. \A i \in DOMAIN submits : submits[i] \in [draft : Drafts, approval : Ids, consumed : Ids]
      BY <1>1, SeqElement
    <3> QED BY <3>1
  <2>10. \A i \in DOMAIN submits : Spent(submits[i].draft, submits[i].consumed)
    BY DEF PaidInv
  <2>11. \A i \in DOMAIN submits : ~(submits[i].draft = d /\ submits[i].consumed = a)
    BY <2>7, <2>10
  <2>12. \A i \in DOMAIN submits : Spent(submits[i].draft, submits[i].consumed)'
    BY <2>2, <2>8, <2>9, <2>10
  <2>13. \A q \in Runners : At(q, "submitting") =>
           /\ run[q].draft \in Drafts /\ run[q].consumed \in Ids
           /\ Spent(run[q].draft, run[q].consumed)
    BY <1>1 DEF PaidInv, At, TypeInv, Shape, Busy, Locked, Runs
  <2>14. \A q \in Runners : At(q, "submitting") => ~(run[q].draft = d /\ run[q].consumed = a)
    BY <2>7, <2>13
  <2>15. a <= issued[d] /\ a \in Nat
    BY <1>2, <2>1
  <2>16. \A q \in Runners : q # p /\ At(q, "submitting")' => At(q, "submitting")
    BY <2>5 DEF At
  <2>17. ASSUME NEW q \in Runners, At(q, "submitting")'
         PROVE  /\ Spent(run[q].draft, run[q].consumed)'
                /\ \A i \in DOMAIN submits :
                     ~(submits[i].draft = run'[q].draft /\ submits[i].consumed = run'[q].consumed)
                /\ \A r \in Runners : At(r, "submitting")' /\ r # q =>
                     ~(run'[r].draft = run'[q].draft /\ run'[r].consumed = run'[q].consumed)
    <3>1. CASE q = p
      <4>1. Spent(run[q].draft, run[q].consumed)'
        BY <2>2, <2>5, <2>6, <2>15, <3>1 DEF Spent
      <4>2. \A r \in Runners : At(r, "submitting")' /\ r # q =>
              ~(run'[r].draft = d /\ run'[r].consumed = a)
        BY <2>5, <2>14, <2>16, <3>1
      <4> QED BY <2>5, <2>11, <3>1, <4>1, <4>2
    <3>2. CASE q # p
      <4>1. At(q, "submitting") /\ run'[q] = run[q]
        BY <2>5, <2>16, <2>17, <3>2
      <4>2. Spent(run[q].draft, run[q].consumed)'
        <5>1. PICK e \in Drafts, b \in Ids : e = run[q].draft /\ b = run[q].consumed
          BY <2>13, <4>1
        <5>2. Spent(e, b)'
          BY <2>8, <2>13, <4>1, <5>1
        <5> QED BY <4>1, <5>1, <5>2 DEF Spent
      <4>3. \A i \in DOMAIN submits :
              ~(submits[i].draft = run[q].draft /\ submits[i].consumed = run[q].consumed)
        BY <4>1 DEF PaidInv
      <4>4. \A r \in Runners : At(r, "submitting") /\ r # q =>
              ~(run[r].draft = run[q].draft /\ run[r].consumed = run[q].consumed)
        BY <4>1 DEF PaidInv
      <4>5. ~(d = run[q].draft /\ a = run[q].consumed)
        BY <2>14, <4>1
      <4> QED BY <2>5, <2>16, <4>1, <4>2, <4>3, <4>4, <4>5
    <3> QED BY <3>1, <3>2
  <2>18. \A e \in Drafts : approval'[e].id <= issued'[e]
    BY <1>2, <2>2, <2>6
  <2>19. ApprovalConsumedOnce' /\ NoDistributedWork'
    BY <1>3, <2>2 DEF PaidInv, ApprovalConsumedOnce, NoDistributedWork
  <2> QED BY <2>2, <2>12, <2>17, <2>18, <2>19 DEF PaidInv
<1>15. ASSUME NEW p \in Runners, Submit(p) PROVE PaidInv'
  <2> DEFINE e == [draft |-> run[p].draft, approval |-> run[p].approval, consumed |-> run[p].consumed]
  <2>1. At(p, "submitting") /\ Goto(p, "recording") /\ run[p].pc \in Busy
        /\ submits' = Append(submits, e) /\ UNCHANGED <<approval, issued, booking, row>>
    BY <1>15 DEF Submit, At, Busy, Locked, files, rows
  <2>2. run[p].draft \in Drafts /\ run[p].approval \in Ids /\ run[p].consumed \in Ids
    BY <1>1, <2>1 DEF TypeInv, Shape, Runs
  <2>3. e \in [draft : Drafts, approval : Ids, consumed : Ids]
    BY <2>2
  <2>4. /\ DOMAIN submits = 1 .. Len(submits) /\ Len(submits) \in Nat
        /\ DOMAIN submits' = 1 .. Len(submits) + 1
        /\ \A i \in 1 .. Len(submits) : submits'[i] = submits[i]
        /\ submits'[Len(submits) + 1] = e
    BY <1>1, <2>1, <2>3
  <2>5. run'[p].pc = "recording" /\ \A q \in Runners : q # p => run'[q] = run[q]
    BY <2>1, GotoFacts DEF Locked
  <2>6. /\ Spent(run[p].draft, run[p].consumed)
        /\ \A i \in DOMAIN submits :
             ~(submits[i].draft = run[p].draft /\ submits[i].consumed = run[p].consumed)
        /\ \A q \in Runners : At(q, "submitting") /\ q # p =>
             ~(run[q].draft = run[p].draft /\ run[q].consumed = run[p].consumed)
    BY <2>1 DEF PaidInv
  <2>7. e.draft = run[p].draft /\ e.consumed = run[p].consumed
    OBVIOUS
  <2>8. \A d, a : Spent(d, a)' <=> Spent(d, a)
    BY <2>1 DEF Spent
  <2>9. \A i \in DOMAIN submits' : \/ i \in DOMAIN submits /\ submits'[i] = submits[i]
                                   \/ i = Len(submits) + 1 /\ submits'[i] = e
    <3> HIDE DEF e
    <3> QED BY <2>4
  <2>10. \A i \in DOMAIN submits : Spent(submits[i].draft, submits[i].consumed)
    BY DEF PaidInv
  <2>11. \A i \in DOMAIN submits' : Spent(submits'[i].draft, submits'[i].consumed)
    BY <2>6, <2>7, <2>9, <2>10
  <2>12. \A i \in DOMAIN submits : ~(submits[i].draft = e.draft /\ submits[i].consumed = e.consumed)
    BY <2>6, <2>7
  <2>13. ASSUME NEW i \in DOMAIN submits', NEW j \in DOMAIN submits',
                submits'[i].draft = submits'[j].draft, submits'[i].consumed = submits'[j].consumed
         PROVE  i = j
    <3>1. CASE i \in DOMAIN submits /\ submits'[i] = submits[i] /\ j \in DOMAIN submits /\ submits'[j] = submits[j]
      BY <2>13, <3>1 DEF PaidInv, ApprovalConsumedOnce
    <3>2. CASE i \in DOMAIN submits /\ submits'[i] = submits[i] /\ submits'[j] = e
      BY <2>12, <2>13, <3>2
    <3>3. CASE submits'[i] = e /\ j \in DOMAIN submits /\ submits'[j] = submits[j]
      BY <2>12, <2>13, <3>3
    <3>4. CASE i = Len(submits) + 1 /\ j = Len(submits) + 1
      BY <3>4
    <3> QED BY <2>9, <3>1, <3>2, <3>3, <3>4
  <2>14. ASSUME NEW q \in Runners, At(q, "submitting")'
         PROVE  /\ Spent(run[q].draft, run[q].consumed)'
                /\ \A i \in DOMAIN submits' :
                     ~(submits'[i].draft = run'[q].draft /\ submits'[i].consumed = run'[q].consumed)
                /\ \A r \in Runners : At(r, "submitting")' /\ r # q =>
                     ~(run'[r].draft = run'[q].draft /\ run'[r].consumed = run'[q].consumed)
    <3>1. q # p /\ run'[q] = run[q] /\ At(q, "submitting")
      BY <2>5, <2>14 DEF At
    <3>2. /\ Spent(run[q].draft, run[q].consumed)
          /\ \A i \in DOMAIN submits :
               ~(submits[i].draft = run[q].draft /\ submits[i].consumed = run[q].consumed)
          /\ \A r \in Runners : At(r, "submitting") /\ r # q =>
               ~(run[r].draft = run[q].draft /\ run[r].consumed = run[q].consumed)
      BY <3>1 DEF PaidInv
    <3>3. Spent(run[q].draft, run[q].consumed)'
      BY <2>1, <3>1, <3>2 DEF Spent
    <3>4. ~(e.draft = run[q].draft /\ e.consumed = run[q].consumed)
      BY <2>6, <2>7, <3>1
    <3>5. \A i \in DOMAIN submits' :
            ~(submits'[i].draft = run'[q].draft /\ submits'[i].consumed = run'[q].consumed)
      BY <2>9, <3>1, <3>2, <3>4
    <3>6. \A r \in Runners : At(r, "submitting")' /\ r # q =>
            ~(run'[r].draft = run'[q].draft /\ run'[r].consumed = run'[q].consumed)
      BY <2>5, <3>1, <3>2 DEF At
    <3> QED BY <3>3, <3>5, <3>6
  <2>15. NoDistributedWork' /\ \A d \in Drafts : approval'[d].id <= issued'[d]
    BY <1>2, <1>3, <2>1 DEF NoDistributedWork
  <2>16. ApprovalConsumedOnce'
    BY <2>13 DEF ApprovalConsumedOnce
  <2> QED BY <2>8, <2>11, <2>14, <2>15, <2>16 DEF PaidInv, Spent
<1>16. ASSUME NEW p \in Runners, Record(p) PROVE PaidInv'
  <2>1. Goto(p, "syncing") /\ run[p].pc \in Busy
    BY <1>16 DEF Record, At, Busy, Locked
  <2>2. \A q \in Runners : At(q, "submitting")' => run'[q] = run[q]
    BY <1>9, <2>1 DEF Locked
  <2> QED BY <1>5, <1>16, <2>2 DEF Record, rows
<1>17. ASSUME NEW p \in Runners, Sync(p) \/ Fails(p) PROVE PaidInv'
  <2>1. \A q \in Runners : At(q, "submitting")' => run'[q] = run[q]
    BY <1>12, <1>17 DEF Sync, Fails
  <2> QED BY <1>5, <1>17, <2>1 DEF Sync, Fails, files, rows
<1>18. CASE LockLapse
  BY <1>5, <1>18 DEF LockLapse, files, rows
<1>19. CASE Crash
  <2>1. \A p \in Runners : Over(p).pc # "submitting"
    BY DEF Over, NoRun
  <2>2. \A p \in Runners : ~At(p, "submitting")'
    BY <1>19, <2>1 DEF Crash, At
  <2>3. [NoBooking EXCEPT !.pc = "over"].pc = "over"
    BY DEF NoBooking
  <2>4. NoDistributedWork'
    BY <1>3, <1>19, <2>3 DEF Crash, NoDistributedWork, rows
  <2>5. UNCHANGED <<approval, issued, submits>>
    BY <1>19 DEF Crash, files
  <2>6. \A d \in Drafts, a \in Ids : Spent(d, a) => Spent(d, a)'
    BY <2>5 DEF Spent
  <2> QED BY <1>2, <2>2, <2>4, <2>5, <2>6, PaidKept
<1>20. CASE UNCHANGED vars
  BY <1>5, <1>20 DEF vars, At
<1>21. CASE Step
  <2>1. \A s \in Schedules, d \in Drafts, a \in Ids : ~BookCheck(s, d, a)
    BY DEF BookCheck
  <2>2. \A s \in Schedules : ~BookCreate(s) /\ ~BookSave(s) /\ ~BookFails(s)
    BY <1>3 DEF BookCreate, BookSave, BookFails, NoDistributedWork
  <2>3. \A c \in Contents : ~Work(c) /\ ~Send(c) /\ ~CancelDistributed(c)
    BY <1>3 DEF Work, Send, CancelDistributed, HasRow, NoDistributedWork
  <2> QED BY <1>21, <1>6, <1>7, <1>8, <1>10, <1>11, <1>13, <1>14, <1>15, <1>16, <1>17, <1>18, <1>19,
             <2>1, <2>2, <2>3 DEF Step, Runners
<1> QED BY <1>20, <1>21, StepsOfNext

\* In local mode one consumption of an approval pays for at most one
\* submission, also when the account lock expires under its holder.
THEOREM ConsumedOnce == Spec => []ApprovalConsumedOnce
<1>1. Spec => [](TypeInv /\ PaidInv)
  BY TypeInit, TypeStep, PaidInit, PaidStep, PTL DEF Spec
<1>2. PaidInv => ApprovalConsumedOnce
  BY DEF PaidInv, ApprovalConsumedOnce
<1> QED BY <1>1, <1>2, PTL

-----------------------------------------------------------------------------
(* Bindings                                                                *)

\* A bound approval, and a booking about to bind one, name an existing row.
BindInv ==
  Distributed =>
    /\ \A d \in Drafts : approval[d].boundTo # None =>
         row[ContentOf(d)] # NoRow /\ approval[d].boundTo = row[ContentOf(d)].schedule
    /\ \A s \in Schedules : booking[s].pc = "saving" =>
         /\ row[ContentOf(booking[s].draft)] # NoRow
         /\ booking[s].id = row[ContentOf(booking[s].draft)].schedule

\* The invariant of the bindings holds initially.
LEMMA BindInit == Init => BindInv
<1> SUFFICES ASSUME Init PROVE BindInv
  OBVIOUS
<1>1. NoApproval.boundTo = None /\ NoBooking.pc = "none"
  BY DEF NoApproval, NoBooking
<1>2. \A d \in Drafts : approval[d].boundTo = NoApproval.boundTo
  BY DEF Init
<1>3. \A s \in Schedules : booking[s].pc = NoBooking.pc
  BY DEF Init
<1> QED BY <1>1, <1>2, <1>3 DEF BindInv

\* Steps that only unbind approvals, start no save and touch no row.
LEMMA BindKept ==
  ASSUME BindInv, row' = row,
         \A d \in Drafts : approval'[d].boundTo \in {approval[d].boundTo, None},
         \A s \in Schedules : booking'[s].pc = "saving" => booking'[s] = booking[s]
  PROVE  BindInv'
<1> SUFFICES ASSUME Distributed PROVE BindInv'
  BY DEF BindInv
<1>1. \A d \in Drafts : approval'[d].boundTo # None =>
        row'[ContentOf(d)] # NoRow /\ approval'[d].boundTo = row'[ContentOf(d)].schedule
  BY DEF BindInv
<1>2. \A s \in Schedules : booking'[s].pc = "saving" =>
        /\ row'[ContentOf(booking'[s].draft)] # NoRow
        /\ booking'[s].id = row'[ContentOf(booking'[s].draft)].schedule
  BY DEF BindInv
<1> QED BY <1>1, <1>2 DEF BindInv, NoRow

\* Every step preserves the invariant of the bindings.
LEMMA BindStep == TypeInv /\ BindInv /\ [Next]_vars => BindInv'
<1> SUFFICES ASSUME TypeInv, BindInv, [Next]_vars, Distributed PROVE BindInv'
  BY DEF BindInv
<1>1. /\ approval \in [Drafts -> Approvals] /\ run \in [Runners -> Runs]
      /\ booking \in [Schedules -> Bookings]
      /\ row \in [Contents -> [schedule : Schedules, draft : Drafts, approval : Ids] \cup {NoRow}]
  BY DEF TypeInv, TypeOK
<1>2. ASSUME UNCHANGED <<approval, booking, row>> PROVE BindInv'
  BY <1>2, BindKept
<1>3. ASSUME NEW d \in Drafts, Approve(d) PROVE BindInv'
  <2>1. [NoApproval EXCEPT !.id = issued[d] + 1].boundTo = None
    BY DEF NoApproval
  <2>2. \A e \in Drafts : approval'[e].boundTo \in {approval[e].boundTo, None}
    BY <1>1, <1>3, <2>1 DEF Approve
  <2> QED BY <1>3, <2>2, BindKept DEF Approve, rows
<1>4. ASSUME NEW p \in Runners, Decide(p) PROVE BindInv'
  <2>1. run[p].draft \in Drafts
    BY <1>4 DEF Decide, At, TypeInv, Shape, Busy, Locked
  <2>2. approval' = [approval EXCEPT ![run[p].draft].used = TRUE]
    BY <1>4 DEF Decide, Consume
  <2>3. \A e \in Drafts : approval'[e].boundTo = approval[e].boundTo
    BY <1>1, <2>1, <2>2 DEF Approvals
  <2> QED BY <1>4, <2>3, BindKept DEF Decide, rows
<1>5. ASSUME NEW s \in Schedules, Cancel(s) PROVE BindInv'
  <2>1. run[s].draft \in Drafts
    BY <1>1, <1>5 DEF Cancel, TypeInv, Shape, Runs, Busy, Runners
  <2>2. \A e \in Drafts : approval'[e].boundTo \in {approval[e].boundTo, None}
    BY <1>5, <2>1, UnbindFacts DEF Cancel
  <2> QED BY <1>5, <2>2, BindKept DEF Cancel, rows
<1>6. ASSUME NEW c \in Contents, CancelDistributed(c) PROVE BindInv'
  <2>1. row[c].draft \in Drafts /\ row[c].schedule \in Schedules
    BY <1>1, <1>6 DEF CancelDistributed, HasRow
  <2>2. \A e \in Drafts : approval'[e].boundTo \in {approval[e].boundTo, None}
    BY <1>6, <2>1, UnbindFacts DEF CancelDistributed
  <2> QED BY <1>6, <2>2, BindKept DEF CancelDistributed
<1>7. ASSUME NEW s \in Schedules, NEW d \in Drafts, NEW a \in Ids, BookCheck(s, d, a) PROVE BindInv'
  <2>1. \A t \in Schedules : booking'[t].pc = "saving" => booking'[t] = booking[t]
    BY <1>1, <1>7 DEF BookCheck
  <2> QED BY <1>7, <2>1, BindKept DEF BookCheck, files, rows
<1>8. ASSUME NEW s \in Schedules, BookFails(s) PROVE BindInv'
  <2>1. [NoBooking EXCEPT !.pc = "over"].pc = "over"
    BY DEF NoBooking
  <2>2. \A t \in Schedules : booking'[t].pc = "saving" => booking'[t] = booking[t]
    BY <1>1, <1>8, <2>1 DEF BookFails
  <2> QED BY <1>8, <2>2, BindKept DEF BookFails, files
<1>9. ASSUME NEW s \in Schedules, BookSave(s) PROVE BindInv'
  <2> DEFINE d == booking[s].draft
  <2>1. d \in Drafts /\ booking[s].copy \in Approvals /\ row' = row
    BY <1>1, <1>9 DEF BookSave, TypeInv, Shape, Bookings, rows
  <2>2. row[ContentOf(d)] # NoRow /\ booking[s].id = row[ContentOf(d)].schedule
    BY <1>9 DEF BookSave, BindInv
  <2>3. approval' = [approval EXCEPT ![d] = [booking[s].copy EXCEPT !.boundTo = booking[s].id]]
    BY <1>9 DEF BookSave
  <2>4. [booking[s].copy EXCEPT !.boundTo = booking[s].id].boundTo = booking[s].id
    BY <2>1 DEF Approvals
  <2>5. approval'[d].boundTo = booking[s].id /\ \A e \in Drafts : e # d => approval'[e] = approval[e]
    BY <1>1, <2>1, <2>3, <2>4
  <2>6. [NoBooking EXCEPT !.pc = "over"].pc = "over"
    BY DEF NoBooking
  <2>7. \A t \in Schedules : booking'[t].pc = "saving" => booking'[t] = booking[t]
    BY <1>1, <1>9, <2>6 DEF BookSave
  <2>8. \A e \in Drafts : approval'[e].boundTo # None =>
          row'[ContentOf(e)] # NoRow /\ approval'[e].boundTo = row'[ContentOf(e)].schedule
    BY <2>1, <2>2, <2>5 DEF BindInv
  <2>9. \A t \in Schedules : booking'[t].pc = "saving" =>
          /\ row'[ContentOf(booking'[t].draft)] # NoRow
          /\ booking'[t].id = row'[ContentOf(booking'[t].draft)].schedule
    BY <2>1, <2>7 DEF BindInv
  <2> QED BY <2>8, <2>9 DEF BindInv, NoRow
<1>10. ASSUME NEW s \in Schedules, BookCreate(s) PROVE BindInv'
  <2> DEFINE d == booking[s].draft
             c == ContentOf(d)
             new == [schedule |-> s, draft |-> d, approval |-> booking[s].copy.id]
  <2>1. d \in Drafts /\ c \in Contents /\ booking[s] \in Bookings
    BY <1>1, <1>10, ParametersAssumption DEF BookCreate, TypeInv, Shape
  <2>2. row' = (IF row[c] # NoRow THEN row ELSE [row EXCEPT ![c] = new])
        /\ booking' = [booking EXCEPT ![s].pc = "saving", ![s].id = RowId(s, c)]
        /\ approval' = approval
    BY <1>10 DEF BookCreate, files
  <2>3. new # NoRow /\ new.schedule = s
    BY NamesAssumption DEF NoRow, Runners
  <2>4. row'[c] # NoRow /\ row'[c].schedule = RowId(s, c)
    BY <1>1, <2>1, <2>2, <2>3 DEF RowId
  <2>5. \A k \in Contents : row[k] # NoRow => row'[k] = row[k]
    BY <1>1, <2>2
  <2>6. booking'[s].draft = d /\ booking'[s].id = RowId(s, c)
        /\ \A t \in Schedules : t # s => booking'[t] = booking[t]
    BY <1>1, <2>1, <2>2 DEF Bookings
  <2>7. \A e \in Drafts : approval'[e].boundTo # None =>
          row'[ContentOf(e)] # NoRow /\ approval'[e].boundTo = row'[ContentOf(e)].schedule
    BY <2>2, <2>5, ParametersAssumption DEF BindInv
  <2>8. ASSUME NEW t \in Schedules, booking'[t].pc = "saving"
        PROVE  /\ row'[ContentOf(booking'[t].draft)] # NoRow
               /\ booking'[t].id = row'[ContentOf(booking'[t].draft)].schedule
    <3>1. CASE t = s
      BY <2>4, <2>6, <3>1
    <3>2. CASE t # s
      <4>1. booking'[t] = booking[t] /\ booking[t].draft \in Drafts
        BY <2>6, <2>8, <3>2 DEF TypeInv, Shape
      <4> QED BY <2>5, <2>8, <4>1, ParametersAssumption DEF BindInv
    <3> QED BY <3>1, <3>2
  <2> QED BY <2>7, <2>8 DEF BindInv, NoRow
<1>11. CASE Crash
  <2>1. [NoBooking EXCEPT !.pc = "over"].pc = "over"
    BY DEF NoBooking
  <2>2. \A t \in Schedules : booking'[t].pc = "saving" => booking'[t] = booking[t]
    BY <1>11, <2>1 DEF Crash
  <2> QED BY <1>11, <2>2, BindKept DEF Crash, files, rows
<1>12. CASE UNCHANGED vars
  BY <1>2, <1>12 DEF vars
<1>13. CASE Step
  <2>1. ASSUME NEW c \in Callers, NEW d \in Drafts, NEW a \in Ids, Publish(c, d, a) PROVE BindInv'
    BY <1>2, <2>1 DEF Publish, files, rows
  <2>2. ASSUME NEW p \in Runners, Enter(p) \/ EnterScheduled(p) \/ Fire(p) PROVE BindInv'
    BY <1>2, <2>2 DEF Enter, EnterScheduled, Fire, files, rows
  <2>3. ASSUME NEW p \in Runners, Submit(p) \/ Record(p) \/ Sync(p) \/ Fails(p) PROVE BindInv'
    BY <1>2, <2>3 DEF Submit, Record, Sync, Fails, files, rows
  <2>4. ASSUME NEW c \in Contents, Work(c) \/ Send(c) PROVE BindInv'
    BY <1>2, <2>4 DEF Work, Send, files
  <2>5. ASSUME LockLapse PROVE BindInv'
    BY <1>2, <2>5 DEF LockLapse, files, rows
  <2>6. \A s \in Schedules, d \in Drafts, a \in Ids : ~Book(s, d, a)
    BY DEF Book
  <2> QED BY <1>13, <1>3, <1>4, <1>5, <1>6, <1>7, <1>8, <1>9, <1>10, <1>11,
             <2>1, <2>2, <2>3, <2>4, <2>5, <2>6 DEF Step, Runners
<1> QED BY <1>12, <1>13, StepsOfNext

\* In distributed mode an approval bound to a schedule is bound to the row
\* that exists for its content, for every number of bookings and rows.
THEOREM BoundToRealRow == Spec => []BoundToItsRow
<1>1. Spec => [](TypeInv /\ BindInv)
  BY TypeInit, TypeStep, BindInit, BindStep, PTL DEF Spec
<1>2. BindInv => BoundToItsRow
  BY DEF BindInv, BoundToItsRow
<1> QED BY <1>1, <1>2, PTL
=============================================================================
