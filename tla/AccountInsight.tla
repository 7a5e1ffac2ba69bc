----------------------------- MODULE AccountInsight -----------------------------
(***************************************************************************)
(* Account analytics, profiles and weight history (accounts/service.py,    *)
(* accounts/repository.py and the account tables of PostgreSQL), as used   *)
(* by the account routes, the calendar, the bandit's context and the tools *)
(* of MCP, which call the synchronous half alone.                          *)
(*                                                                         *)
(* Every pod keeps analytics, profile and history in files of its own; the *)
(* profile and the newest snapshot are copied to PostgreSQL, which readers *)
(* prefer.  The part of a request before its first await runs without      *)
(* interruption in its pod.  Analytics are abstracted to the number of the *)
(* sync that brought them, 0 standing for none, and a profile and a        *)
(* score to the number of the analytics they were computed from.           *)
(***************************************************************************)
EXTENDS Integers, FiniteSets, Sequences, SequencesExt

CONSTANTS
    Tasks,        \* requests in flight
    PodOf,        \* the pod that serves each of them
    MaxSyncs, MaxReports,   \* bounds of the instance
    Quiet         \* a task at rest

Pods == {PodOf[t] : t \in Tasks}
ASSUME InsightBounds == MaxSyncs \in Nat /\ MaxReports \in Nat

VARIABLES
    syncs,        \* syncs so far
    disk,         \* analytics, profile and history of each pod
    pgProfile,    \* the profile in PostgreSQL
    pgTrend,      \* the snapshots in PostgreSQL
    reports,      \* weight reports so far
    shown,        \* the newest sync that a route answered
    overlapped,   \* whether two syncs were ever under way at once
    task          \* what each request is in the middle of

insightVars == <<syncs, disk, pgProfile, pgTrend, reports, shown, overlapped, task>>

Torn == [report |-> 0, score |-> 0]   \* a line that a crash has cut short

InsightInit ==
    /\ syncs = 0 /\ reports = 0 /\ shown = 0
    /\ disk = [h \in Pods |-> [analytics |-> 0, profile |-> 0, history |-> <<>>]]
    /\ pgProfile = 0 /\ pgTrend = {}
    /\ overlapped = FALSE
    /\ task = [t \in Tasks |-> Quiet]

Mine(t) == disk[PodOf[t]]
Syncing(t) == task[t] # Quiet /\ task[t].at = "mirror profile"

\* sync saves the analytics and the profile built from them; sync_async then
\* loads that profile and only now awaits PostgreSQL.
LoadedBefore(t, n) == Mine(t).profile
LoadedProfile(t, n) == n

SyncAnalytics(t) ==
    /\ task[t] = Quiet /\ syncs < MaxSyncs
    /\ LET n == syncs + 1
       IN  /\ syncs' = n
           /\ disk' = [disk EXCEPT ![PodOf[t]].analytics = n, ![PodOf[t]].profile = n]
           /\ task' = [task EXCEPT ![t] =
                 [at |-> "mirror profile", sync |-> n, profile |-> LoadedProfile(t, n)]]
    /\ overlapped' = (overlapped \/ \E u \in Tasks : Syncing(u))
    /\ UNCHANGED <<pgProfile, pgTrend, reports, shown>>

\* The tool of MCP calls sync and no more: PostgreSQL keeps what it has.
SyncByTool(h) ==
    /\ syncs < MaxSyncs
    /\ syncs' = syncs + 1
    /\ disk' = [disk EXCEPT ![h].analytics = syncs + 1, ![h].profile = syncs + 1]
    /\ UNCHANGED <<pgProfile, pgTrend, reports, shown, overlapped, task>>

MirrorProfile(t) ==
    /\ Syncing(t)
    /\ pgProfile' = task[t].profile
    /\ shown' = IF task[t].sync > shown THEN task[t].sync ELSE shown
    /\ task' = [task EXCEPT ![t] = Quiet]
    /\ UNCHANGED <<syncs, disk, pgTrend, reports, overlapped>>

\* query_weight: a pod without analytics reports on empty ones; the report is
\* saved and a snapshot appended, then the newest of the history is copied.
\* A torn line makes the history unreadable, and the request fails.
Report(t) ==
    /\ task[t] = Quiet /\ reports < MaxReports
    /\ reports' = reports + 1
    /\ LET line == [report |-> reports + 1, score |-> Mine(t).analytics]
           history == Append(Mine(t).history, line)
       IN  /\ disk' = [disk EXCEPT ![PodOf[t]].history = history]
           /\ task' = [task EXCEPT ![t] =
                 IF Torn \in ToSet(history) THEN Quiet
                 ELSE [at |-> "mirror snapshot", line |-> Last(history)]]
    /\ UNCHANGED <<syncs, pgProfile, pgTrend, shown, overlapped>>

\* query_weight alone, for the tools and for account_diagnosis.
ReportByTool(h) ==
    /\ reports < MaxReports
    /\ reports' = reports + 1
    /\ disk' = [disk EXCEPT ![h].history =
                  Append(@, [report |-> reports + 1, score |-> disk[h].analytics])]
    /\ UNCHANGED <<syncs, pgProfile, pgTrend, shown, overlapped, task>>

MirrorSnapshot(t) ==
    /\ task[t] # Quiet /\ task[t].at = "mirror snapshot"
    /\ pgTrend' = pgTrend \cup {task[t].line}
    /\ task' = [task EXCEPT ![t] = Quiet]
    /\ UNCHANGED <<syncs, disk, pgProfile, reports, shown, overlapped>>

\* The call to PostgreSQL fails, or the request is cancelled while it waits.
CallFails(t) ==
    /\ task[t] # Quiet
    /\ task' = [task EXCEPT ![t] = Quiet]
    /\ UNCHANGED <<syncs, disk, pgProfile, pgTrend, reports, shown, overlapped>>

\* A pod dies: in the middle of an append, or of a sync between its two files.
\* Its files stay, its requests end.
PodDies(h) ==
    /\ task' = [t \in Tasks |-> IF PodOf[t] = h THEN Quiet ELSE task[t]]
    /\ \/ /\ reports < MaxReports
          /\ reports' = reports + 1
          /\ disk' = [disk EXCEPT ![h].history = Append(@, Torn)]
          /\ UNCHANGED syncs
       \/ /\ syncs < MaxSyncs
          /\ syncs' = syncs + 1
          /\ disk' = [disk EXCEPT ![h].analytics = syncs + 1]
          /\ UNCHANGED reports
       \/ /\ \E t \in Tasks : PodOf[t] = h /\ task[t] # Quiet
          /\ UNCHANGED <<syncs, disk, reports>>
    /\ UNCHANGED <<pgProfile, pgTrend, shown, overlapped>>

InsightNext ==
    \/ \E t \in Tasks : \/ SyncAnalytics(t) \/ MirrorProfile(t)
                       \/ Report(t) \/ MirrorSnapshot(t) \/ CallFails(t)
    \/ \E h \in Pods : SyncByTool(h) \/ ReportByTool(h) \/ PodDies(h)

InsightSpec == InsightInit /\ [][InsightNext]_insightVars

-----------------------------------------------------------------------------
\* profile_async prefers PostgreSQL: as long as syncs do not overlap, every pod
\* reads the profile of the newest sync that a route answered, or of a later
\* one.  A sync by a tool does not take it back, nor does it show.
AnsweredSyncShows == overlapped \/ pgProfile >= shown
=============================================================================
