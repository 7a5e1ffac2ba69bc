------------------------------ MODULE Experiments ------------------------------
(***************************************************************************)
(* A/B/n experiments of the operations loop (operations/service.py,        *)
(* experiments.py, experiment_analysis.py and the two stores).             *)
(*                                                                         *)
(* Callers run in processes.  With SQLite an operation runs without an     *)
(* await, so that callers of one process do not interleave, but those of   *)
(* two processes do, between any two statements.  With PostgreSQL every    *)
(* call of the store is one transaction, and tasks interleave between      *)
(* them.                                                                   *)
(***************************************************************************)
EXTENDS Integers, FiniteSets, Sequences, SequencesExt

CONSTANTS
    Askers,      \* callers of the operations service
    HostOf,      \* the process each of them runs in
    Subjects,    \* the subjects of the experiment
    Point,       \* the hash of a subject, in 0 .. Circle - 1
    Circle,
    Offers,      \* plans a client sends: sequences of [id, weight]
    MinSamples,  \* outcomes each variant needs before the analysis decides
    Margins,     \* widths of the confidence intervals
    MaxOffers, MaxOutcomes,   \* bounds of the instance
    Absent       \* no row

ASSUME CircleAssumption ==
    Circle \in Nat \ {0} /\ \A s \in Subjects : Point[s] \in 0 .. Circle - 1

\* A plan is a list of variants, as the schema of the request has it.
ExperimentIds(p) == {p[i].id : i \in 1 .. Len(p)}
ASSUME OffersAssumption ==
    /\ \A p \in Offers : /\ p \in Seq([id : ExperimentIds(p), weight : Nat])
                         /\ Absent \notin ExperimentIds(p)
    /\ Absent \notin Offers

VARIABLES
    shared,      \* whether the store is PostgreSQL
    plan,        \* the stored experiment
    offers,      \* how often it was stored
    assigned,    \* the stored assignment of each subject
    answers,     \* what callers were told: pairs of a subject and a variant
    outcomes,    \* the stored outcomes
    advice,      \* the last recommendation of an analysis
    asker        \* what each caller is doing

expVars == <<shared, plan, offers, assigned, answers, outcomes, advice, asker>>

-----------------------------------------------------------------------------
IdleAsker == [at |-> "idle"]

\* Weight of the first i variants; create divides every weight by the sum.
Upto(p, i) == FoldLeft(LAMBDA sum, v : sum + v.weight, 0, SubSeq(p, 1, i))

Acceptable(p) == Len(p) >= 2 /\ Upto(p, Len(p)) > 0

\* The first variant whose cumulative share passes the subject's point, the
\* last one when rounding leaves none.
Drawn(p, s) ==
    LET passed == {i \in 1 .. Len(p) :
                     Point[s] * Upto(p, Len(p)) < Upto(p, i) * Circle}
    IN  IF passed = {} THEN p[Len(p)].id
        ELSE p[CHOOSE i \in passed : \A j \in passed : i <= j].id

\* A synchronous SQLite operation keeps the event loop of its process.
MayRun(c) ==
    shared \/ \A d \in Askers \ {c} : HostOf[d] = HostOf[c] => asker[d] = IdleAsker

Begins(c, o) == asker[c] = IdleAsker /\ MayRun(c) /\ asker' = [asker EXCEPT ![c] = o]
Ends(c) == asker' = [asker EXCEPT ![c] = IdleAsker]

-----------------------------------------------------------------------------
ExpInit ==
    /\ shared \in BOOLEAN
    /\ plan = Absent /\ offers = 0
    /\ assigned = [s \in Subjects |-> Absent]
    /\ answers = {} /\ outcomes = {} /\ advice = Absent
    /\ asker = [c \in Askers |-> IdleAsker]

planVars == <<plan, offers, assigned, answers, outcomes, advice>>

\* create_experiment: an upsert by the id the client chose; whatever it said,
\* the status is RUNNING.
CreateExperiment(c, p) ==
    /\ offers < MaxOffers
    /\ asker[c] = IdleAsker /\ MayRun(c)
    /\ Acceptable(p)
    /\ plan' = p /\ offers' = offers + 1
    /\ UNCHANGED <<shared, assigned, answers, outcomes, advice, asker>>

\* assign reads the experiment and fails unless it is there and RUNNING ...
ReadPlan(c, s) ==
    /\ plan # Absent
    /\ Begins(c, [at |-> "assign", subject |-> s, plan |-> plan])
    /\ UNCHANGED <<shared, planVars>>

\* ... and inserts its draw unless the subject has a row, and answers the row.
InsertedReplacing(old, draw) == draw
Inserted(old, draw) == IF old = Absent THEN draw ELSE old

StoreAssignment(c) ==
    /\ asker[c].at = "assign"
    /\ LET s == asker[c].subject
           row == Inserted(assigned[s], Drawn(asker[c].plan, s))
       IN  /\ assigned' = [assigned EXCEPT ![s] = row]
           /\ answers' = answers \cup {<<s, row>>}
    /\ Ends(c)
    /\ UNCHANGED <<shared, plan, offers, outcomes, advice>>

\* record: the key holds the time, which defaults to now, so that a repeated
\* request is one more outcome.
RecordOutcome(c, s, v, value) ==
    /\ Cardinality(outcomes) < MaxOutcomes
    /\ asker[c] = IdleAsker /\ MayRun(c)
    /\ <<s, v>> \in answers
    /\ outcomes' = outcomes \cup
         {[subject |-> s, variant |-> v, value |-> value, at |-> Cardinality(outcomes)]}
    /\ UNCHANGED <<shared, plan, offers, assigned, answers, advice, asker>>

\* analyze reads the experiment ...
ReadForAnalysis(c) ==
    /\ plan # Absent
    /\ Begins(c, [at |-> "analyze", plan |-> plan])
    /\ UNCHANGED <<shared, planVars>>

ValuesOf(v) == {o \in outcomes : o.variant = v}
Total(v) == FoldLeft(LAMBDA sum, o : sum + o.value, 0, SetToSeq(ValuesOf(v)))
SampleSize(v) == Cardinality(ValuesOf(v))

\* Comparison of means without division.
MeanAbove(v, w, margin) ==
    Total(v) * SampleSize(w) - Total(w) * SampleSize(v)
        > margin * SampleSize(v) * SampleSize(w)

Apart(v, w, margin) == MeanAbove(v, w, margin) \/ MeanAbove(w, v, margin)

\* ... and the outcomes, in a second transaction: nothing is recommended until
\* every variant has its samples, and then the best mean if its interval and
\* that of the control, the first variant, do not overlap.
Analyse(c) ==
    /\ asker[c].at = "analyze"
    /\ \E margin \in Margins :
         LET p == asker[c].plan
             control == p[1].id
             best == CHOOSE v \in ExperimentIds(p) :
                       \A w \in ExperimentIds(p) : ~ MeanAbove(w, v, 0)
         IN  advice' = IF /\ \A v \in ExperimentIds(p) : SampleSize(v) >= MinSamples
                          /\ Apart(best, control, margin)
                       THEN [best |-> best, control |-> control,
                             better |-> MeanAbove(best, control, 0)]
                       ELSE Absent
    /\ Ends(c)
    /\ UNCHANGED <<shared, plan, offers, assigned, answers, outcomes>>

\* The process dies or the request is cancelled: the transaction is undone.
AskerDies(c) ==
    /\ asker[c] # IdleAsker
    /\ asker' = [asker EXCEPT ![c] = IdleAsker]
    /\ UNCHANGED <<shared, planVars>>

ExpNext ==
    \E c \in Askers :
        \/ \E p \in Offers : CreateExperiment(c, p)
        \/ \E s \in Subjects : ReadPlan(c, s)
        \/ StoreAssignment(c)
        \/ \E s \in Subjects, v \in UNION {ExperimentIds(p) : p \in Offers}, x \in 0 .. 1 :
             RecordOutcome(c, s, v, x)
        \/ ReadForAnalysis(c)
        \/ Analyse(c)
        \/ AskerDies(c)

ExpSpec == ExpInit /\ [][ExpNext]_expVars

-----------------------------------------------------------------------------
\* A subject keeps its variant: all answers any caller ever got for it are the
\* same, whoever asks, however the plan is stored again meanwhile and whatever
\* process dies between the draw and the insert.
AnswersAgree == \A x, y \in answers : x[1] = y[1] => x[2] = y[2]
=============================================================================
