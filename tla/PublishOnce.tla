----------------------------- MODULE PublishOnce -----------------------------
(***************************************************************************)
(* What the distributed publication of one note promises, without leases,  *)
(* workers or a database: a schedule is either withdrawn before the        *)
(* submission boundary, or committed to one external submission.  The      *)
(* submission happens at most once, only while the schedule is committed,  *)
(* and nothing is ever sent for a schedule that has been closed.           *)
(***************************************************************************)
EXTENDS Naturals

CONSTANT Schedules

VARIABLES phase, sent
vars == <<phase, sent>>

\* Phases: "open" (may still be withdrawn), "committed" (the irreversible
\* boundary is crossed), "closed" (nothing more will happen to it).
Phases == {"open", "committed", "closed"}

Init ==
  /\ phase = [s \in Schedules |-> "open"]
  /\ sent = [s \in Schedules |-> 0]

\* A cancellation, an expired approval or an early failure.
Withdraw(s) ==
  /\ phase[s] = "open"
  /\ phase' = [phase EXCEPT ![s] = "closed"]
  /\ UNCHANGED sent

\* The decision to submit; from here on nobody can take the schedule back.
Commit(s) ==
  /\ phase[s] = "open"
  /\ phase' = [phase EXCEPT ![s] = "committed"]
  /\ UNCHANGED sent

\* The one call to the platform.
Send(s) ==
  /\ phase[s] = "committed"
  /\ sent[s] = 0
  /\ sent' = [sent EXCEPT ![s] = 1]
  /\ UNCHANGED phase

\* The verdict is recorded.
Resolve(s) ==
  /\ phase[s] = "committed"
  /\ phase' = [phase EXCEPT ![s] = "closed"]
  /\ UNCHANGED sent

Next == \E s \in Schedules : Withdraw(s) \/ Commit(s) \/ Send(s) \/ Resolve(s)

Spec == Init /\ [][Next]_vars
=============================================================================
