--------------------------- MODULE PublishService ---------------------------
(***************************************************************************)
(* Approved publication of drafts on one account (publishing/service.py):  *)
(* approvals with one-time tokens (publishing/approvals.py), kept as files *)
(* (publishing/repository.py); direct publication under the account lock   *)
(* (core/distributed_lock.py); and scheduled publication, by the           *)
(* in-process scheduler (publishing/scheduler.py) or, when Distributed, by *)
(* a row of the publish state machine, of which only what PublishOnce      *)
(* promises is used here.                                                  *)
(*                                                                         *)
(* The code between two awaits of the one event loop is one atomic step.   *)
(* All steps happen within one day, and the minimum interval and the       *)
(* expiry of an approval are refusals that may come at any time.           *)
(***************************************************************************)
EXTENDS Naturals, Sequences

CONSTANTS
  Drafts, Contents,
  ContentOf(_),  \* the content of a draft, which its publish fingerprint stands for
  Callers,       \* concurrent calls of publish
  Schedules,     \* ids of schedules
  None,
  Distributed,   \* xhs_distributed_scheduling_enabled
  DailyLimit,    \* xhs_daily_publish_limit
  MaxApprovals   \* bound: approvals per draft

ASSUME ParametersAssumption ==
  /\ \A d \in Drafts : ContentOf(d) \in Contents
  /\ Distributed \in BOOLEAN
  /\ DailyLimit \in Nat /\ MaxApprovals \in Nat
ASSUME NamesAssumption ==
  Callers \cap Schedules = {} /\ None \notin Callers \cup Schedules \cup Drafts

VARIABLES
  approval,   \* the approval file of each draft
  issued,     \* approvals issued so far, per draft
  run,        \* publications under way, and the sleeping local schedules
  booking,    \* calls of schedule in distributed mode
  lock,       \* who holds the account lock
  saved,      \* the drafts of the submitted results on file, oldest first
  row,        \* the row of the publish state machine, per content
  phase, sent,  \* what PublishOnce says of that row
  submits,    \* history: the calls of publisher.submit
  lapsed      \* history: the account lock expired under its holder

vars == <<approval, issued, run, booking, lock, saved, row, phase, sent, submits, lapsed>>

Once == INSTANCE PublishOnce WITH Schedules <- Contents

files == <<approval, issued, saved>>
rows == <<row, phase, sent>>

-----------------------------------------------------------------------------
Runners == Callers \cup Schedules
Ids == 0 .. MaxApprovals

\* id 0: there is no approval file.
Approvals == [id : Ids, used : BOOLEAN, boundTo : Schedules \cup {None}]

\* The steps a run takes with the account lock held.
Locked == {"deciding", "submitting", "recording", "syncing"}

\* approval: the one whose token or binding let the run in;
\* consumed: the one that consume_approval found on file.
Runs ==
  [pc : {"idle", "sleeping", "waiting", "over"} \cup Locked,
   draft : Drafts \cup {None}, approval : Ids, consumed : Ids]

Bookings ==
  [pc : {"none", "creating", "saving", "over"}, draft : Drafts \cup {None},
   copy : Approvals, id : Schedules \cup {None}]

NoApproval == [id |-> 0, used |-> FALSE, boundTo |-> None]
NoRun == [pc |-> "idle", draft |-> None, approval |-> 0, consumed |-> 0]
NoBooking == [pc |-> "none", draft |-> None, copy |-> NoApproval, id |-> None]
NoRow == [schedule |-> None, draft |-> None, approval |-> 0]

At(p, pc) == run[p].pc = pc
Goto(p, pc) == run' = [run EXCEPT ![p].pc = pc]

\* The run is over: its locks are released (by token), a call may be repeated.
Over(p) == [NoRun EXCEPT !.pc = IF p \in Callers THEN "idle" ELSE "over"]
End(p) ==
  /\ run' = [run EXCEPT ![p] = Over(p)]
  /\ lock' = IF lock = p THEN None ELSE lock

\* validate_approval: the token of approval a, presented for draft d.
Valid(d, a) ==
  approval[d].id = a /\ a # 0 /\ ~approval[d].used /\ approval[d].boundTo = None

\* find_by_fingerprint over the submitted results of the account
AlreadyPublished(d) == \E i \in DOMAIN saved : ContentOf(saved[i]) = ContentOf(d)

WithinDailyLimit == Len(saved) < DailyLimit

Init ==
  /\ approval = [d \in Drafts |-> NoApproval]
  /\ issued = [d \in Drafts |-> 0]
  /\ run = [p \in Runners |-> NoRun]
  /\ booking = [s \in Schedules |-> NoBooking]
  /\ lock = None
  /\ saved = <<>>
  /\ row = [c \in Contents |-> NoRow]
  /\ Once!Init
  /\ submits = <<>>
  /\ lapsed = FALSE

-----------------------------------------------------------------------------
(* Approvals and direct publication.  Each faulty variant next to a        *)
(* definition is a bug the properties below are meant to notice; none is   *)
(* part of the model.                                                      *)

\* approve: a new approval overwrites the file of the draft.
Approve(d) ==
  /\ issued[d] < MaxApprovals
  /\ issued' = [issued EXCEPT ![d] = @ + 1]
  /\ approval' = [approval EXCEPT ![d] = [NoApproval EXCEPT !.id = issued[d] + 1]]
  /\ UNCHANGED <<run, booking, lock, saved, rows, submits, lapsed>>

\* publish: a draft with a row of the publish state machine is refused.
Publish(c, d, a) ==
  /\ At(c, "idle")
  /\ a \in 1 .. issued[d]
  /\ Distributed => \A k \in Contents : row[k].draft # d
  /\ run' = [run EXCEPT ![c] = [NoRun EXCEPT !.pc = "waiting", !.draft = d, !.approval = a]]
  /\ UNCHANGED <<files, booking, lock, rows, submits, lapsed>>

LockIgnored == TRUE
LockFree == lock = None

Acquire(p) == LockFree /\ lock' = p

\* The account lock is taken, then the approval on file is validated.
Enter(c) ==
  /\ At(c, "waiting")
  /\ Acquire(c)
  /\ Valid(run[c].draft, run[c].approval)
  /\ Goto(c, "deciding")
  /\ UNCHANGED <<files, booking, rows, submits, lapsed>>

ConsumeAgain(d) == approval' = [approval EXCEPT ![d].used = TRUE]
\* consume_approval marks whatever approval is on file by now.
Consume(d) == ~approval[d].used /\ approval' = [approval EXCEPT ![d].used = TRUE]

\* After _preflight: duplicates, daily limit, consumption of the approval.
Decide(p) ==
  /\ At(p, "deciding")
  /\ LET d == run[p].draft IN
     /\ ~AlreadyPublished(d) /\ WithinDailyLimit
     /\ approval[d].id # 0
     /\ Consume(d)
     /\ run' = [run EXCEPT ![p].pc = "submitting", ![p].consumed = approval[d].id]
  /\ UNCHANGED <<issued, saved, booking, lock, rows, submits, lapsed>>

\* publisher.prepare, then publisher.submit up to its effect.
Submit(p) ==
  /\ At(p, "submitting")
  /\ submits' = Append(submits, [draft |-> run[p].draft, approval |-> run[p].approval,
                                 consumed |-> run[p].consumed])
  /\ Goto(p, "recording")
  /\ UNCHANGED <<files, booking, lock, rows, lapsed>>

\* save_result of a VERIFIED or SUBMITTED_UNVERIFIED result.
Record(p) ==
  /\ At(p, "recording")
  /\ saved' = Append(saved, run[p].draft)
  /\ Goto(p, "syncing")
  /\ UNCHANGED <<approval, issued, booking, lock, rows, submits, lapsed>>

\* enqueue_for_result and the second save_result, or neither; then the end.
Sync(p) ==
  /\ At(p, "syncing")
  /\ End(p)
  /\ UNCHANGED <<files, booking, rows, submits, lapsed>>

\* A refusal, a lock timeout, an exception or a cancelled request at any
\* await; a FAILED result may be saved, which nothing counts.
Fails(p) ==
  /\ run[p].pc \notin {"idle", "over"}
  /\ End(p)
  /\ UNCHANGED <<files, booking, rows, submits, lapsed>>

\* The Redis key of the lock expires: nothing renews it.
LockLapse ==
  /\ lock # None
  /\ lock' = None
  /\ lapsed' = TRUE
  /\ UNCHANGED <<files, run, booking, rows, submits>>

-----------------------------------------------------------------------------
(* The in-process scheduler                                                *)

\* schedule: the task is created, then the approval is bound to it; the
\* save may fail, and the task stays.
Book(s, d, a) ==
  /\ ~Distributed
  /\ At(s, "idle") /\ Valid(d, a)
  /\ run' = [run EXCEPT ![s] = [NoRun EXCEPT !.pc = "sleeping", !.draft = d, !.approval = a]]
  /\ \/ approval' = [approval EXCEPT ![d].boundTo = s]
     \/ UNCHANGED approval
  /\ UNCHANGED <<issued, saved, booking, lock, rows, submits, lapsed>>

\* _publish_scheduled looks at the approval before it waits for the lock.
Fire(s) ==
  /\ At(s, "sleeping")
  /\ approval[run[s].draft] = [id |-> run[s].approval, used |-> FALSE, boundTo |-> s]
  /\ Goto(s, "waiting")
  /\ UNCHANGED <<files, booking, lock, rows, submits, lapsed>>

\* No second look with the lock held.
EnterScheduled(s) ==
  /\ At(s, "waiting")
  /\ Acquire(s)
  /\ Goto(s, "deciding")
  /\ UNCHANGED <<files, booking, rows, submits, lapsed>>

UnbindUsed(d, s) ==
  approval' = IF approval[d].boundTo = s
              THEN [approval EXCEPT ![d] = [@ EXCEPT !.used = FALSE, !.boundTo = None]]
              ELSE approval
Unbind(d, s) ==
  approval' = IF approval[d].boundTo = s /\ ~approval[d].used
              THEN [approval EXCEPT ![d].boundTo = None] ELSE approval

\* cancel_schedule: the task is cancelled at whatever await it is in.
Cancel(s) ==
  /\ run[s].pc \notin {"idle", "over"}
  /\ Unbind(run[s].draft, s)
  /\ End(s)
  /\ UNCHANGED <<issued, saved, booking, rows, submits, lapsed>>

-----------------------------------------------------------------------------
(* Distributed scheduling.  The publish-schedule lock of a draft admits    *)
(* one booking at a time; the approval is copied before the awaits of      *)
(* _preflight and of the INSERT and the copy is written back after them.   *)

BookCheck(s, d, a) ==
  /\ Distributed
  /\ booking[s].pc = "none"
  /\ \A t \in Schedules : booking[t].pc \in {"creating", "saving"} => booking[t].draft # d
  /\ Valid(d, a)
  /\ booking' = [booking EXCEPT ![s] = [pc |-> "creating", draft |-> d, copy |-> approval[d], id |-> s]]
  /\ UNCHANGED <<files, run, lock, rows, submits, lapsed>>

RowIdOwn(s, c) == s
RowIdRecord(s, c) == IF row[c] = NoRow THEN s ELSE row[c]
\* On a conflict of fingerprints the existing row is returned.
RowId(s, c) == IF row[c] = NoRow THEN s ELSE row[c].schedule

BookCreate(s) ==
  /\ booking[s].pc = "creating"
  /\ LET d == booking[s].draft
         c == ContentOf(d) IN
     /\ row' = IF row[c] # NoRow THEN row
               ELSE [row EXCEPT ![c] = [schedule |-> s, draft |-> d, approval |-> booking[s].copy.id]]
     /\ booking' = [booking EXCEPT ![s].pc = "saving", ![s].id = RowId(s, c)]
  /\ UNCHANGED <<files, run, lock, phase, sent, submits, lapsed>>

BookSave(s) ==
  /\ booking[s].pc = "saving"
  /\ approval' = [approval EXCEPT ![booking[s].draft] =
                    [booking[s].copy EXCEPT !.boundTo = booking[s].id]]
  /\ booking' = [booking EXCEPT ![s] = [NoBooking EXCEPT !.pc = "over"]]
  /\ UNCHANGED <<issued, saved, run, lock, rows, submits, lapsed>>

\* An exception; after the INSERT the row is asked to cancel, if that works.
BookFails(s) ==
  /\ booking[s].pc \in {"creating", "saving"}
  /\ booking' = [booking EXCEPT ![s] = [NoBooking EXCEPT !.pc = "over"]]
  /\ \/ booking[s].pc = "saving" /\ Once!Withdraw(ContentOf(booking[s].draft))
     \/ UNCHANGED <<phase, sent>>
  /\ UNCHANGED <<files, run, lock, row, submits, lapsed>>

HasRow(c) == row[c] # NoRow

\* A worker cancels, fails or commits the row, sends it and settles it.
\* It uses the draft and the approval of the row's payload, not the files.
Work(c) ==
  /\ HasRow(c)
  /\ Once!Withdraw(c) \/ Once!Commit(c) \/ Once!Resolve(c)
  /\ UNCHANGED <<files, run, booking, lock, row, submits, lapsed>>

Send(c) ==
  /\ HasRow(c)
  /\ Once!Send(c)
  /\ submits' = Append(submits, [draft |-> row[c].draft, approval |-> row[c].approval, consumed |-> 0])
  /\ UNCHANGED <<files, run, booking, lock, row, lapsed>>

\* cancel_schedule accepted by the row, with the approval unbound; the row
\* may be past its commit, and then only a request is noted.
CancelDistributed(c) ==
  /\ HasRow(c) /\ phase[c] # "closed"
  /\ Once!Withdraw(c) \/ UNCHANGED <<phase, sent>>
  /\ Unbind(row[c].draft, row[c].schedule)
  /\ UNCHANGED <<issued, saved, run, booking, lock, row, submits, lapsed>>

\* The process dies and restarts: tasks, calls and the lock are gone.
Crash ==
  /\ run' = [p \in Runners |-> IF run[p].pc = "idle" THEN run[p] ELSE Over(p)]
  /\ booking' = [s \in Schedules |-> IF booking[s].pc = "none" THEN booking[s]
                                     ELSE [NoBooking EXCEPT !.pc = "over"]]
  /\ lock' = None
  /\ UNCHANGED <<files, rows, submits, lapsed>>

-----------------------------------------------------------------------------
Call(c) ==
  \/ \E d \in Drafts, a \in Ids : Publish(c, d, a)
  \/ Enter(c)

LocalSchedule(s) ==
  \/ \E d \in Drafts, a \in Ids : Book(s, d, a)
  \/ Fire(s) \/ EnterScheduled(s) \/ Cancel(s)

Booking(s) ==
  \/ \E d \in Drafts, a \in Ids : BookCheck(s, d, a)
  \/ BookCreate(s) \/ BookSave(s) \/ BookFails(s)

PublishLocked(p) == Decide(p) \/ Submit(p) \/ Record(p) \/ Sync(p) \/ Fails(p)

Next ==
  \/ \E d \in Drafts : Approve(d)
  \/ \E c \in Callers : Call(c)
  \/ \E s \in Schedules : LocalSchedule(s) \/ Booking(s)
  \/ \E p \in Runners : PublishLocked(p)
  \/ \E c \in Contents : Work(c) \/ Send(c) \/ CancelDistributed(c)
  \/ LockLapse
  \/ Crash

Spec == Init /\ [][Next]_vars
-----------------------------------------------------------------------------
(* Properties                                                              *)

TypeOK ==
  /\ approval \in [Drafts -> Approvals]
  /\ issued \in [Drafts -> Ids]
  /\ run \in [Runners -> Runs]
  /\ booking \in [Schedules -> Bookings]
  /\ lock \in Runners \cup {None}
  /\ saved \in Seq(Drafts)
  /\ row \in [Contents -> [schedule : Schedules, draft : Drafts, approval : Ids] \cup {NoRow}]
  /\ phase \in [Contents -> Once!Phases] /\ sent \in [Contents -> {0, 1}]
  /\ submits \in Seq([draft : Drafts, approval : Ids, consumed : Ids])
  /\ lapsed \in BOOLEAN

\* One consumption of an approval pays for one submission by publish or by
\* the local scheduler, whatever lapses, is cancelled, crashes or is
\* approved again in between: consume_approval reads and writes the file in
\* one step (publishing/repository.py).
ApprovalConsumedOnce ==
  ~Distributed =>
  \A i, j \in DOMAIN submits :
    /\ submits[i].draft = submits[j].draft
    /\ submits[i].consumed = submits[j].consumed
    => i = j

\* The account has at most one submitted result on file per content: the
\* duplicate check of _publish_locked and save_result are several awaits
\* apart and rely on the account lock.
ContentSavedOnce ==
  ~lapsed => \A i, j \in DOMAIN saved :
                 ContentOf(saved[i]) = ContentOf(saved[j]) => i = j

\* The submitted results of the day never exceed the daily limit, although
\* several publications are under way between its check and their results.
DailyLimitKept == ~lapsed => Len(saved) <= DailyLimit

\* An approval bound to a schedule names the row of its own content, also
\* when the INSERT met the row of another schedule.
BoundToItsRow ==
  Distributed =>
  \A d \in Drafts :
    approval[d].boundTo # None => approval[d].boundTo = row[ContentOf(d)].schedule

\* references/auto-publishing.md: the daily limit is checked again before
\* publication.  The execution of a row checks no limit.
SubmitsWithinDailyLimit == Len(submits) <= DailyLimit
=============================================================================
