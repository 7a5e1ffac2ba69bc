------------------------------ MODULE Feedback ------------------------------
(***************************************************************************)
(* What the operations loop learns from published notes and plans from it  *)
(* (operations/service.py, attribution.py, retrospective.py, planning.py): *)
(* snapshots of a note's numbers come in from the syncing worker and from  *)
(* clients, in any order and in the client's time zone; attribution and    *)
(* retrospective judge the newest one against the account's other notes;   *)
(* the advice feeds the calendar.                                          *)
(*                                                                         *)
(* The rows are in SQLite or in PostgreSQL.  SQLite keys and sorts a       *)
(* snapshot by the text of its time, the local clock first; PostgreSQL by  *)
(* the instant, and an upsert leaves the account column of the first       *)
(* writer.  In PostgreSQL the reading and the storing of a retrospective   *)
(* are two transactions; in SQLite they run without an await.  Numbers are *)
(* abstracted to whether searches bring few of the views.                  *)
(***************************************************************************)
EXTENDS Integers, Sequences, FiniteSets, SequencesExt

CONSTANTS
    Posts,          \* published notes
    Owners,         \* accounts
    Instants,       \* when a snapshot may have been taken, as numbers
    Unsought,       \* the ones whose snapshot shows few views from searches
    Zones,          \* offsets of the clocks of the clients, as numbers
    Reviewers,      \* requests for a retrospective
    EnoughPeers,    \* snapshots that carry a statement on a feature (5 in the code)
    Weekdays,       \* days that a profile may prefer, best first
    FirstDays, Horizons, Paces,    \* start, days and posts_per_week of a calendar
    Themes,         \* topics that a client may bring
    Pillars,        \* the content pillars of the profiles
    Histories,      \* scores that a weight history may hold
    MaxSnapshots, MaxRetros,   \* bounds of the instance
    NoReview

ASSUME FeedbackBounds ==
    /\ Instants \subseteq Nat /\ Unsought \subseteq Instants /\ Zones \subseteq Nat
    /\ FirstDays \subseteq 0..6 /\ Horizons \subseteq 7..365 /\ Paces \subseteq 1..7
    /\ EnoughPeers \in Nat /\ MaxSnapshots \in Nat /\ MaxRetros \in Nat

VARIABLES
    durable,        \* whether the rows are in PostgreSQL
    snapshots,      \* published_metrics
    synced,         \* every snapshot that was synced
    review,         \* the retrospective that each request is about to store
    retros,         \* retrospectives
    advised         \* the calendar, the series or the trend last answered

feedbackVars == <<durable, snapshots, synced, review, retros, advised>>

Advice == {"keywords", "keep", "pitfalls", "scenes", "search terms"}

FeedbackInit ==
    /\ durable \in BOOLEAN
    /\ snapshots = {} /\ synced = {} /\ retros = {} /\ advised = NoReview
    /\ review = [r \in Reviewers |-> NoReview]

-----------------------------------------------------------------------------
(* Snapshots.                                                              *)

Clock(s) == s.at + s.zone           \* what isoformat writes of it, before the zone

SameKey(s, t) ==
    s.note = t.note /\ s.at = t.at /\ (durable \/ s.zone = t.zone)

Filed(s, o) ==
    [note |-> s.note, at |-> s.at, zone |-> s.zone, fewSearches |-> s.fewSearches, column |-> o]

\* sync_published_metrics replaces the row with its key.
SyncMetrics(s) ==
    /\ Cardinality(synced \cup {s}) <= MaxSnapshots
    /\ synced' = synced \cup {s}
    /\ LET old    == {t \in snapshots : SameKey(s, t)}
           column == IF durable /\ old # {} THEN (CHOOSE t \in old : TRUE).column
                     ELSE s.owner
       IN  snapshots' = (snapshots \ old) \cup {Filed(s, column)}
    /\ UNCHANGED <<durable, review, retros, advised>>

\* The order of the rows, by their text for a faulty variant, and the row that
\* targets[-1] is.
LaterByText(s, t) == Clock(s) > Clock(t) \/ (Clock(s) = Clock(t) /\ s.zone > t.zone)
Later(s, t) ==
    IF durable THEN s.at > t.at
    ELSE Clock(s) > Clock(t) \/ (Clock(s) = Clock(t) /\ s.zone > t.zone)

Listed(o) == {s \in snapshots : s.column = o}
Newest(rows) == CHOOSE s \in rows : \A t \in rows \ {s} : Later(s, t)

\* attribute_performance: the account's rows of other notes are the peers, all
\* their snapshots counting; a feature is judged with confidence peers / 20.
PeersOf(target, rows) == {s \in rows : s.note # target.note}
Telling(target, rows) == Cardinality(PeersOf(target, rows)) >= EnoughPeers

\* build_retrospective: the advice, in the order in which it is listed.
ActionsFor(target) == IF target.fewSearches THEN <<"keywords">> ELSE <<"keep">>
SuggestionsFor(target) ==
    (IF target.fewSearches THEN <<"search terms">> ELSE <<>>) \o <<"pitfalls", "scenes">>
Judged(o, n, rows) ==
    LET target == Newest({s \in rows : s.note = n})
    IN  [owner |-> o, note |-> n, target |-> target, telling |-> Telling(target, rows),
         suggestions |-> SuggestionsFor(target), actions |-> ActionsFor(target),
         known |-> {s \in synced : s.owner = o /\ s.note = n}]

\* A note without rows raises KeyError.
Retrospective(r, o, n) ==
    /\ review[r] = NoReview /\ Cardinality(retros) < MaxRetros
    /\ \E s \in Listed(o) : s.note = n
    /\ IF durable
       THEN /\ review' = [review EXCEPT ![r] = Judged(o, n, Listed(o))]
            /\ UNCHANGED retros
       ELSE retros' = retros \cup {Judged(o, n, Listed(o))} /\ UNCHANGED review
    /\ UNCHANGED <<durable, snapshots, synced, advised>>

StoreRetrospective(r) ==
    /\ review[r] # NoReview
    /\ retros' = retros \cup {review[r]}
    /\ review' = [review EXCEPT ![r] = NoReview]
    /\ UNCHANGED <<durable, snapshots, synced, advised>>

-----------------------------------------------------------------------------
(* Plans.                                                                  *)

\* calendar_topics_from_retrospective: suggestions, then the short actions.
CalendarTopics(retro) == retro.suggestions \o retro.actions

\* build_content_calendar: one item on every preferred day of the horizon, the
\* topics in turn.  day counts from the first one, which is a weekday of the week.
Preferred(profile, pace) ==
    LET days == IF profile = <<>> THEN <<1, 3, 6>> ELSE profile
    IN  ToSet(SubSeq(days, 1, IF pace < Len(days) THEN pace ELSE Len(days)))
PlannedDays(first, horizon, profile, pace) ==
    {d \in 0..(horizon - 1) : (first + d) % 7 \in Preferred(profile, pace)}
Turn(days, d) == Cardinality({e \in days : e < d})
Calendar(topics, days) ==
    {[day |-> d, topic |-> topics[1 + (Turn(days, d) % Len(topics))],
      objective |-> IF Turn(days, d) % 2 = 0 THEN "search" ELSE "engagement"] : d \in days}

\* Topics, else the ones of the advice, else the pillars; else ValueError.
TopicsFrom(topics, fallback, pillars) ==
    IF topics # <<>> THEN topics ELSE IF fallback # <<>> THEN fallback ELSE pillars

CreateCalendar(o) ==
    \E first \in FirstDays, horizon \in Horizons, pace \in Paces, profile \in Weekdays,
       topics \in Themes,
       fallback \in {<<>>} \cup {CalendarTopics(t) : t \in {t \in retros : t.owner = o}} :
       LET chosen == TopicsFrom(topics, fallback, Pillars)
       IN  /\ chosen # <<>>
           /\ advised' = Calendar(chosen, PlannedDays(first, horizon, profile, pace))
           /\ UNCHANGED <<durable, snapshots, synced, review, retros>>

\* build_series_plan: angles in turn, two episodes at least.
CreateSeries(episodes) ==
    /\ episodes \in 2..30
    /\ advised' = {[episode |-> e, angle |-> (e - 1) % 8] : e \in 1..episodes}
    /\ UNCHANGED <<durable, snapshots, synced, review, retros>>

\* account_weight_trend: the sign of the least-squares slope of the scores, in
\* quarters of a point per snapshot; snapshots without a score are left out.
SumOf(terms) == FoldFunction(+, 0, terms)
Direction(scores) ==
    LET n == Len(scores)
        sumX == SumOf([i \in 1..n |-> i])
        spread == n * SumOf([i \in 1..n |-> i * i]) - sumX * sumX
        lean == n * SumOf([i \in 1..n |-> i * scores[i]]) - sumX * SumOf(scores)
    IN  IF n < 2 THEN "STABLE"
        ELSE IF 4 * lean > spread THEN "UP"
        ELSE IF 4 * lean < -spread THEN "DOWN" ELSE "STABLE"
WeightTrend(history) ==
    /\ advised' = Direction(history)
    /\ UNCHANGED <<durable, snapshots, synced, review, retros>>

FeedbackNext ==
    \/ \E n \in Posts, t \in Instants, z \in Zones, o \in Owners :
          SyncMetrics([note |-> n, at |-> t, zone |-> z, owner |-> o,
                       fewSearches |-> t \in Unsought])
    \/ \E r \in Reviewers, o \in Owners, n \in Posts : Retrospective(r, o, n)
    \/ \E r \in Reviewers : StoreRetrospective(r)
    \/ \E o \in Owners : CreateCalendar(o)
    \/ \E episodes \in 1..3 : CreateSeries(episodes)
    \/ \E history \in Histories : WeightTrend(history)
FeedbackSpec == FeedbackInit /\ [][FeedbackNext]_feedbackVars

-----------------------------------------------------------------------------
\* In whatever order and from whatever zone they came, and although a second
\* snapshot of an instant replaces the first, the advice on file rests on the
\* newest snapshot that was synced for the account and the note before it was
\* asked for.  Not so where SQLite sorts clocks of several zones, and where
\* somebody syncs the same instant of the note for another account: the key
\* holds no account.
JudgedOnNewest ==
    \A r \in retros : \A s \in r.known :
        \/ s.at <= r.target.at
        \/ ~durable /\ s.zone # r.target.zone
        \/ \E t \in synced : t.note = s.note /\ t.at = s.at /\ t.owner # s.owner

\* No seven days hold more items than the pace asks for, and no topic follows
\* on itself: what a calendar promises, for any start, profile and pace.
PaceKept(first, horizon, profile, pace, topics) ==
    LET days == PlannedDays(first, horizon, profile, pace)
        items == Calendar(topics, days)
    IN  /\ \A d \in 0..(horizon - 7) : Cardinality(days \cap d..(d + 6)) <= pace
        /\ \A i, j \in items :
              Turn(days, j.day) = Turn(days, i.day) + 1 /\ Len(topics) > 1
                => i.topic # j.topic
=============================================================================
