--------------------------- MODULE Operations_proofs ---------------------------
(***************************************************************************)
(* Proofs about the operations loop, for every value of the constants of   *)
(* its modules: rewards of the bandit, assignments of an experiment, files *)
(* of the asset library, the account profile that the pods read, the       *)
(* snapshots that a retrospective judges, and the browser page on which an *)
(* account publishes.                                                      *)
(*                                                                         *)
(* Each part has an inductive invariant of its own: the types of the rows  *)
(* and of what the actors hold, and what a row and a held copy of it have  *)
(* to do with each other between two steps.                                *)
(***************************************************************************)
EXTENDS Bandit, Experiments, Assets, AccountInsight, Feedback, AccountPage,
        WellFoundedInduction, FiniteSetTheorems, TLAPS

(***************************************************************************)
(* The bandit.                                                             *)
(***************************************************************************)

BanditTypeOK ==
    /\ postgres \in BOOLEAN
    /\ arm \in [Arms -> ArmRows \cup {NoArmRow}]
    /\ armLock \in [Arms -> Senders \cup {NoArmRow}]
    /\ update \in [Senders -> Updates \cup {NoArmRow}]
    /\ rewards \in Nat

\* An update that found a row holds its lock, and the row is as it was read.
RowHeld(c) ==
    update[c] # NoArmRow /\ update[c].row # NoArmRow =>
        /\ armLock[update[c].arm] = c
        /\ arm[update[c].arm] = update[c].row

BanditIInv ==
    /\ BanditTypeOK
    /\ postgres => \A c \in Senders : RowHeld(c)
    /\ RewardsOutliveUpdates

\* The initial state satisfies the bandit's inductive invariant.
LEMMA BanditInitEstablishes == BanditInit => BanditIInv
BY NoArmRowAssumption
DEF BanditInit, BanditIInv, BanditTypeOK, RowHeld, RewardsOutliveUpdates

\* What the end of a transaction leaves: its sender is free, everybody else's
\* update and lock are as they were.
LEMMA DoneFacts ==
    ASSUME BanditTypeOK, NEW c \in Senders, Done(c)
    PROVE  /\ update' \in [Senders -> Updates \cup {NoArmRow}]
           /\ armLock' \in [Arms -> Senders \cup {NoArmRow}]
           /\ update'[c] = NoArmRow
           /\ \A d \in Senders \ {c} : update'[d] = update[d]
           /\ \A a \in Arms : armLock[a] # c => armLock'[a] = armLock[a]
           /\ postgres' = postgres /\ rewards' = rewards
BY DEF BanditTypeOK, Done

\* A read that finds a row takes its lock, and it only gets it when free.
LEMMA ReadKeeps ==
    ASSUME BanditIInv, NEW c \in Senders, NEW a \in Arms, NEW dim \in Dims, Read(c, a, dim)
    PROVE  BanditIInv'
<1> DEFINE u == [arm |-> a, dim |-> dim, reward |-> rewards + 1, row |-> arm[a]]
<1>1. u \in Updates /\ u # NoArmRow
  BY NoArmRowAssumption DEF BanditIInv, BanditTypeOK, Updates
<1>2. update' = [update EXCEPT ![c] = u] /\ update[c] = NoArmRow
      /\ arm' = arm /\ postgres' = postgres /\ lost' = lost /\ rewards' = rewards + 1
  BY DEF Read
<1>3. BanditTypeOK'
  BY <1>1, <1>2 DEF BanditIInv, BanditTypeOK, Read
<1>4. ASSUME postgres, NEW d \in Senders PROVE RowHeld(d)'
  <2>1. CASE d = c
    BY <1>1, <1>2, <1>4, <2>1 DEF BanditIInv, BanditTypeOK, RowHeld, Read, LocksOnRead
  <2>2. CASE d # c
    <3>1. update'[d] = update[d] /\ RowHeld(d)
      BY <1>2, <1>4, <2>2 DEF BanditIInv, BanditTypeOK
    <3>2. \A b \in Arms : armLock[b] = d => armLock'[b] = d
      BY NoArmRowAssumption, <1>4 DEF BanditIInv, BanditTypeOK, Read, LocksOnRead
    <3>3. update[d] # NoArmRow => update[d].arm \in Arms
      BY DEF BanditIInv, BanditTypeOK, Updates
    <3> QED BY <1>2, <3>1, <3>2, <3>3 DEF RowHeld
  <2> QED BY <2>1, <2>2
<1>5. RewardsOutliveUpdates'
  BY <1>2 DEF BanditIInv, RewardsOutliveUpdates
<1> QED BY <1>2, <1>3, <1>4, <1>5 DEF BanditIInv

\* An update that ends without a write takes nothing from a row.
LEMMA EndWithoutWriteKeeps ==
    ASSUME BanditIInv, NEW c \in Senders, Done(c), UNCHANGED <<arm, lost>>
    PROVE  BanditIInv'
<1>1. BanditTypeOK'
  BY DoneFacts DEF BanditIInv, BanditTypeOK
<1>2. ASSUME postgres, NEW d \in Senders PROVE RowHeld(d)'
  <2>1. CASE d = c
    BY DoneFacts, <2>1 DEF BanditIInv, RowHeld
  <2>2. CASE d # c
    <3>1. update'[d] = update[d] /\ RowHeld(d)
      BY DoneFacts, <1>2, <2>2 DEF BanditIInv
    <3>2. \A b \in Arms : armLock[b] = d => armLock'[b] = d
      BY DoneFacts, <2>2 DEF BanditIInv
    <3>3. update[d] # NoArmRow => update[d].arm \in Arms
      BY DEF BanditIInv, BanditTypeOK, Updates
    <3> QED BY <3>1, <3>2, <3>3 DEF RowHeld
  <2> QED BY <2>1, <2>2
<1> QED BY DoneFacts, <1>1, <1>2 DEF BanditIInv, RewardsOutliveUpdates

\* A write of an update that had found a row puts back what is there and one
\* reward more; nobody else who read the row holds its lock.
LEMMA WriteKeeps ==
    ASSUME BanditIInv, NEW c \in Senders, Write(c)
    PROVE  BanditIInv'
<1> DEFINE u == update[c]
           row == Absorbed(u)
<1>1. u \in Updates /\ u.arm \in Arms /\ Done(c)
      /\ arm' = [arm EXCEPT ![u.arm] = row]
  BY DEF BanditIInv, BanditTypeOK, Write, Updates
<1>2. row \in ArmRows
  BY <1>1 DEF Absorbed, Updates, ArmRows
<1>3. BanditTypeOK'
  BY <1>1, <1>2, DoneFacts DEF BanditIInv, BanditTypeOK
<1>4. ASSUME postgres, NEW d \in Senders PROVE RowHeld(d)'
  <2>1. CASE d = c
    BY DoneFacts, <1>1, <2>1 DEF BanditIInv, RowHeld
  <2>2. CASE d # c
    <3>1. update'[d] = update[d] /\ RowHeld(d)
      BY DoneFacts, <1>1, <1>4, <2>2 DEF BanditIInv
    <3>2. armLock[u.arm] \in {c, NoArmRow}
      BY <1>4 DEF Write
    <3>3. SUFFICES ASSUME update[d] # NoArmRow, update[d].row # NoArmRow
                   PROVE  /\ armLock'[update[d].arm] = d
                          /\ arm'[update[d].arm] = update[d].row
      BY <3>1 DEF RowHeld
    <3>4. armLock[update[d].arm] = d /\ arm[update[d].arm] = update[d].row
          /\ update[d].arm \in Arms
      BY <3>1, <3>3 DEF RowHeld, BanditIInv, BanditTypeOK, Updates
    <3>5. update[d].arm # u.arm
      BY <2>2, <3>2, <3>4, NoArmRowAssumption
    <3> QED BY DoneFacts, <1>1, <2>2, <3>4, <3>5 DEF BanditIInv, BanditTypeOK
  <2> QED BY <2>1, <2>2
<1>5. ASSUME postgres, NEW l \in lost' PROVE l.first
  <2>1. CASE l \in lost
    BY <1>5, <2>1 DEF BanditIInv, RewardsOutliveUpdates
  <2>2. CASE l \notin lost
    <3>1. PICK r \in arm[u.arm].rewards \ row.rewards :
             l = [reward |-> r, first |-> u.row = NoArmRow] /\ arm[u.arm] # NoArmRow
      BY <1>5, <2>2 DEF Write
    <3>2. ASSUME u.row # NoArmRow PROVE FALSE
      <4>1. arm[u.arm] = u.row
        BY <1>5, <3>2 DEF BanditIInv, RowHeld, Write
      <4>2. row.rewards = u.row.rewards \cup {u.reward}
        BY <3>2 DEF Absorbed
      <4> QED BY <3>1, <4>1, <4>2
    <3> QED BY <3>1, <3>2
  <2> QED BY <2>1, <2>2
<1> QED BY <1>1, <1>3, <1>4, <1>5, DoneFacts DEF BanditIInv, RewardsOutliveUpdates

\* Every step of the bandit keeps its inductive invariant.
LEMMA BanditStepPreserves == BanditIInv /\ [BanditNext]_banditVars => BanditIInv'
<1> SUFFICES ASSUME BanditIInv, [BanditNext]_banditVars PROVE BanditIInv'
  OBVIOUS
<1>1. CASE UNCHANGED banditVars
  BY <1>1 DEF banditVars, BanditIInv, BanditTypeOK, RowHeld, RewardsOutliveUpdates
<1>2. ASSUME NEW c \in Senders, NEW a \in Arms, NEW dim \in Dims, Read(c, a, dim)
      PROVE  BanditIInv'
  BY <1>2, ReadKeeps
<1>3. ASSUME NEW c \in Senders, Mismatch(c) \/ UpdateAbandoned(c) PROVE BanditIInv'
  BY <1>3, EndWithoutWriteKeeps DEF Mismatch, UpdateAbandoned
<1>4. ASSUME NEW c \in Senders, Write(c) PROVE BanditIInv'
  BY <1>4, WriteKeeps
<1> QED BY <1>1, <1>2, <1>3, <1>4 DEF BanditNext

\* The bandit's inductive invariant holds in every behaviour.
THEOREM BanditInvariance == BanditSpec => []BanditIInv
BY BanditInitEstablishes, BanditStepPreserves, PTL DEF BanditSpec

\* With PostgreSQL, a reward that the policy has absorbed is lost to nobody but
\* a first update of the arm, which had no row to lock (update_bandit_arm).
THEOREM RewardsAreKept == BanditSpec => []RewardsOutliveUpdates
<1>1. BanditIInv => RewardsOutliveUpdates
  BY DEF BanditIInv
<1> QED BY <1>1, BanditInvariance, PTL

-----------------------------------------------------------------------------
(***************************************************************************)
(* Experiments.                                                            *)
(***************************************************************************)

\* A nonempty set of naturals has a least element.
LEMMA LeastNatural ==
    ASSUME NEW T \in SUBSET Nat, T # {}
    PROVE  \E x \in T : \A y \in T : x <= y
<1> DEFINE R == OpToRel(<, Nat)
<1>1. IsWellFoundedOn(R, Nat)
  BY NatLessThanWellFounded
<1>2. \A x, y \in Nat : x < y => <<x, y>> \in R
  BY DEF OpToRel
<1> HIDE DEF R
<1>3. PICK x \in T : \A y \in T : ~ (<<y, x>> \in R)
  <2>1. T \subseteq Nat
    OBVIOUS
  <2> QED BY <1>1, <2>1, WFMin
<1>4. ASSUME NEW y \in T PROVE x <= y
  <2>1. x \in Nat /\ y \in Nat
    OBVIOUS
  <2>2. ~ (<<y, x>> \in R)
    BY <1>3
  <2>3. ~ (y < x)
    BY <1>2, <2>1, <2>2
  <2> QED BY <2>1, <2>3
<1> QED BY <1>4

\* Whatever the weights and the point, a draw is a variant of the plan.
LEMMA DrawnIsAVariant ==
    ASSUME NEW p \in Offers, Len(p) >= 2, NEW s \in Subjects
    PROVE  Drawn(p, s) \in ExperimentIds(p)
<1> DEFINE passed == {i \in 1 .. Len(p) :
                        Point[s] * Upto(p, Len(p)) < Upto(p, i) * Circle}
           least == CHOOSE i \in passed : \A j \in passed : i <= j
<1>1. Len(p) \in Nat
  BY OffersAssumption
<1>2. CASE passed = {}
  <2>1. Drawn(p, s) = p[Len(p)].id
    BY <1>2 DEF Drawn
  <2> QED BY <1>1, <2>1 DEF ExperimentIds
<1>3. CASE passed # {}
  <2>1. passed \in SUBSET Nat
    BY <1>1
  <2>2. \E i \in passed : \A j \in passed : i <= j
    BY <1>3, <2>1, LeastNatural
  <2>3. least \in passed
    BY <2>2
  <2>4. least \in 1 .. Len(p)
    BY <2>3
  <2>5. Drawn(p, s) = p[least].id
    BY <1>3 DEF Drawn
  <2> HIDE DEF least
  <2> QED BY <2>4, <2>5 DEF ExperimentIds
<1> QED BY <1>2, <1>3

StoredPlans == {p \in Offers : Len(p) >= 2}
AskerStates ==
    {IdleAsker} \cup [at : {"assign"}, subject : Subjects, plan : StoredPlans]
                \cup [at : {"analyze"}, plan : StoredPlans]

ExpTypeOK ==
    /\ plan \in StoredPlans \cup {Absent}
    /\ asker \in [Askers -> AskerStates]
    /\ DOMAIN assigned = Subjects
    /\ answers \subseteq Subjects \X {assigned[s] : s \in Subjects}

\* Whoever was answered was told the row, and there is one.
AnswersAreRows ==
    \A x \in answers : assigned[x[1]] = x[2] /\ x[2] # Absent

ExpIInv == ExpTypeOK /\ AnswersAreRows

\* The initial state satisfies the experiments' inductive invariant.
LEMMA ExpInitEstablishes == ExpInit => ExpIInv
BY DEF ExpInit, ExpIInv, ExpTypeOK, AnswersAreRows, AskerStates

\* Storing an assignment keeps the row of a subject that has one, and answers
\* the row that is then there.
LEMMA StoreKeeps ==
    ASSUME ExpIInv, NEW c \in Askers, StoreAssignment(c)
    PROVE  ExpIInv'
<1> DEFINE s == asker[c].subject
           row == Inserted(assigned[s], Drawn(asker[c].plan, s))
<1>1. s \in Subjects /\ asker[c].plan \in StoredPlans
  BY DEF ExpIInv, ExpTypeOK, AskerStates, StoreAssignment, IdleAsker
<1>2. row # Absent
  BY <1>1, DrawnIsAVariant, OffersAssumption DEF Inserted, StoredPlans
<1>3. assigned[s] # Absent => row = assigned[s]
  BY DEF Inserted
<1>4. /\ assigned' = [assigned EXCEPT ![s] = row]
      /\ answers' = answers \cup {<<s, row>>}
      /\ asker' = [asker EXCEPT ![c] = IdleAsker] /\ plan' = plan
  BY DEF StoreAssignment, Ends
<1> HIDE DEF row, s
<1>5. DOMAIN assigned' = Subjects /\ assigned'[s] = row
      /\ \A t \in Subjects \ {s} : assigned'[t] = assigned[t]
  BY <1>1, <1>4 DEF ExpIInv, ExpTypeOK
<1>6. ASSUME NEW x \in answers'
      PROVE  x \in Subjects \X {assigned'[t] : t \in Subjects}
             /\ assigned'[x[1]] = x[2] /\ x[2] # Absent
  <2>1. CASE x \in answers
    <3>1. x[1] \in Subjects /\ x = <<x[1], x[2]>> /\ assigned[x[1]] = x[2] /\ x[2] # Absent
      BY <2>1 DEF ExpIInv, ExpTypeOK, AnswersAreRows
    <3>2. assigned'[x[1]] = x[2]
      BY <1>3, <1>5, <3>1
    <3> QED BY <3>1, <3>2
  <2>2. CASE x = <<s, row>>
    BY <1>1, <1>2, <1>5, <2>2
  <2> QED BY <1>4, <2>1, <2>2
<1>7. asker' \in [Askers -> AskerStates]
  BY <1>4 DEF ExpIInv, ExpTypeOK, AskerStates
<1> QED BY <1>4, <1>5, <1>6, <1>7 DEF ExpIInv, ExpTypeOK, AnswersAreRows

\* Every step of the experiments keeps their inductive invariant.
LEMMA ExpStepPreserves == ExpIInv /\ [ExpNext]_expVars => ExpIInv'
<1> SUFFICES ASSUME ExpIInv, [ExpNext]_expVars PROVE ExpIInv'
  OBVIOUS
<1> USE DEF ExpIInv, ExpTypeOK, AnswersAreRows
<1>1. CASE UNCHANGED expVars
  BY <1>1 DEF expVars
<1>2. ASSUME NEW c \in Askers, NEW p \in Offers, CreateExperiment(c, p) PROVE ExpIInv'
  BY <1>2 DEF CreateExperiment, Acceptable, StoredPlans
<1>3. ASSUME NEW c \in Askers, NEW s \in Subjects, ReadPlan(c, s) PROVE ExpIInv'
  <2>1. plan \in StoredPlans
    BY <1>3 DEF ReadPlan
  <2>2. [at |-> "assign", subject |-> s, plan |-> plan] \in AskerStates
    BY <2>1 DEF AskerStates
  <2> QED BY <1>3, <2>2 DEF ReadPlan, Begins, planVars
<1>4. ASSUME NEW c \in Askers, StoreAssignment(c) PROVE ExpIInv'
  BY <1>4, StoreKeeps
<1>5. ASSUME NEW c \in Askers, NEW s, NEW v, NEW x, RecordOutcome(c, s, v, x) PROVE ExpIInv'
  BY <1>5 DEF RecordOutcome
<1>6. ASSUME NEW c \in Askers, ReadForAnalysis(c) PROVE ExpIInv'
  <2>1. [at |-> "analyze", plan |-> plan] \in AskerStates
    BY <1>6 DEF ReadForAnalysis, AskerStates
  <2> QED BY <1>6, <2>1 DEF ReadForAnalysis, Begins, planVars
<1>7. ASSUME NEW c \in Askers, Analyse(c) PROVE ExpIInv'
  BY <1>7 DEF Analyse, Ends, AskerStates
<1>8. ASSUME NEW c \in Askers, AskerDies(c) PROVE ExpIInv'
  BY <1>8 DEF AskerDies, planVars, AskerStates
<1> QED BY <1>1, <1>2, <1>3, <1>4, <1>5, <1>6, <1>7, <1>8 DEF ExpNext

\* The experiments' inductive invariant holds in every behaviour.
THEOREM ExpInvariance == ExpSpec => []ExpIInv
BY ExpInitEstablishes, ExpStepPreserves, PTL DEF ExpSpec

\* All answers that anybody ever got for a subject name the same variant,
\* whatever the weights, the stored plans and the interleaving (assign).
THEOREM AssignmentsAreSticky == ExpSpec => []AnswersAgree
<1>1. ExpIInv => AnswersAgree
  BY DEF ExpIInv, AnswersAreRows, AnswersAgree
<1> QED BY <1>1, ExpInvariance, PTL

-----------------------------------------------------------------------------
(***************************************************************************)
(* The asset store and library.                                            *)
(***************************************************************************)

AssetTypeOK ==
    /\ uploads \in Seq(Kinds) /\ Len(uploads) <= MaxUploads
    /\ assetFiles \in [Paths -> Digests \cup {NoAsset}]
    /\ library \in [Digests -> {NoAsset, "partial", "whole"}]
    /\ assetRows \subseteq Digests /\ mirrorRows \subseteq Digests
    /\ acked \subseteq 1 .. Len(uploads)
    /\ job \in [AssetServers -> AssetJobs \cup {NoAsset}]
    /\ \A p \in AssetServers :
          job[p] # NoAsset /\ job[p].at \in {"describe", "unlink"} =>
              job[p].id \in 1 .. Len(uploads)

\* A file that is not whole is being copied, or a crash has cut it short.
PartialFilesExplained ==
    \A d \in Digests : library[d] = "partial" => d \in cut \/ Copying(d)

\* What has a row, or will have one at a later step of an import, has a file.
RecordedFilesExist ==
    /\ \A d \in assetRows \cup mirrorRows : library[d] # NoAsset
    /\ \A p \in AssetServers :
          job[p] # NoAsset /\ job[p].at \in {"copy", "save", "insert", "mirror"} =>
              library[job[p].digest] # NoAsset

AssetIInv == AssetTypeOK /\ PartialFilesExplained /\ RecordedFilesExist

\* The initial state satisfies the assets' inductive invariant.
LEMMA AssetInitEstablishes == AssetInit => AssetIInv
BY AssetAssumption
DEF AssetInit, AssetIInv, AssetTypeOK, PartialFilesExplained, RecordedFilesExist

\* The two kinds of work tell their id or their digest.
LEMMA JobShape ==
    ASSUME AssetTypeOK, NEW p \in AssetServers, job[p] # NoAsset
    PROVE  /\ job[p].at \in {"describe", "unlink"} => job[p].id \in AssetIds
           /\ job[p].at \in {"absent", "copy", "save", "insert", "mirror"} =>
                 job[p].digest \in Digests
           /\ job[p].at \in {"describe", "unlink", "absent", "copy", "save", "insert", "mirror"}
BY DEF AssetTypeOK, AssetJobs

\* A server that is not copying may turn to anything but a copy, or to nothing,
\* without leaving a partial file unexplained.
LEMMA OtherWorkKeepsExplained ==
    ASSUME AssetIInv, NEW p \in AssetServers, NEW next, Works(p, next),
           job[p] # NoAsset => job[p].at # "copy",
           library' = library, cut' = cut
    PROVE  PartialFilesExplained'
<1>1. ASSUME NEW d \in Digests, Copying(d) PROVE Copying(d)'
  BY <1>1 DEF Copying, CopiedBy, Works, AssetIInv, AssetTypeOK
<1> QED BY <1>1 DEF AssetIInv, PartialFilesExplained

\* The store's own steps leave the library alone: an upload, a description, a
\* deletion and its second half.
LEMMA StoreStepsKeep ==
    ASSUME AssetIInv, NEW p \in AssetServers,
           \/ \E kind \in Kinds : Upload(p, kind)
           \/ \E id \in acked : Delete(p, id)
           \/ Describe(p) \/ Unlink(p)
    PROVE  AssetIInv'
<1>1. PICK next \in AssetJobs \cup {NoAsset} :
        /\ Works(p, next)
        /\ next # NoAsset => next.at \in {"describe", "unlink"}
                             /\ next.id \in 1 .. Len(uploads')
  <2>1. ASSUME NEW kind \in Kinds, Upload(p, kind)
        PROVE  LET n == [at |-> "describe", id |-> Len(uploads) + 1]
               IN  Works(p, n) /\ n \in AssetJobs /\ n.id \in 1 .. Len(uploads')
    BY <2>1, AssetAssumption DEF Upload, AssetIInv, AssetTypeOK, AssetJobs, AssetIds
  <2>2. ASSUME NEW id \in acked, Delete(p, id)
        PROVE  LET n == [at |-> "unlink", id |-> id]
               IN  Works(p, n) /\ n \in AssetJobs /\ n.id \in 1 .. Len(uploads')
    BY <2>2, AssetAssumption DEF Delete, AssetIInv, AssetTypeOK, AssetJobs, AssetIds
  <2>3. CASE Describe(p) \/ Unlink(p)
    BY <2>3 DEF Describe, Unlink
  <2> QED BY <2>1, <2>2, <2>3
<1>2. /\ library' = library /\ assetRows' = assetRows
      /\ mirrorRows' = mirrorRows /\ cut' = cut
      /\ job[p] # NoAsset => job[p].at # "copy"
  BY DEF Upload, Delete, Describe, Unlink, libraryVars
<1>3. uploads' \in Seq(Kinds) /\ Len(uploads') <= MaxUploads /\ Len(uploads) <= Len(uploads')
  <2>1. uploads \in Seq(Kinds) /\ Len(uploads) \in Nat /\ Len(uploads) <= MaxUploads
    BY DEF AssetIInv, AssetTypeOK
  <2>2. ASSUME NEW kind \in Kinds, Upload(p, kind)
        PROVE  uploads' = Append(uploads, kind) /\ Len(uploads) < MaxUploads
    BY <2>2 DEF Upload
  <2>3. ASSUME NEW kind \in Kinds, Upload(p, kind)
        PROVE  uploads' \in Seq(Kinds) /\ Len(uploads') = Len(uploads) + 1
               /\ Len(uploads') <= MaxUploads
    BY <2>1, <2>2, <2>3, AssetAssumption
  <2>4. uploads' = uploads \/ \E kind \in Kinds : Upload(p, kind)
    BY DEF Delete, Describe, Unlink
  <2> QED BY <2>1, <2>3, <2>4
<1>4. acked' \subseteq 1 .. Len(uploads')
  <2>1. CASE Describe(p)
    BY <2>1 DEF Describe, AssetIInv, AssetTypeOK
  <2>2. acked \subseteq 1 .. Len(uploads) /\ Len(uploads) \in Nat /\ Len(uploads') \in Nat
    BY <1>3 DEF AssetIInv, AssetTypeOK
  <2>3. CASE acked' = acked
    BY <1>3, <2>2, <2>3
  <2> QED BY <2>1, <2>3 DEF Upload, Delete, Unlink
<1>5. assetFiles' \in [Paths -> Digests \cup {NoAsset}]
  <2>1. assetFiles \in [Paths -> Digests \cup {NoAsset}]
    BY DEF AssetIInv, AssetTypeOK
  <2>2. ASSUME NEW kind \in Kinds, Upload(p, kind) PROVE Bytes(Len(uploads) + 1) \in Digests
    <3>1. Len(uploads) \in Nat /\ Len(uploads) < MaxUploads
      BY <2>2 DEF Upload, AssetIInv, AssetTypeOK
    <3>2. Len(uploads) + 1 \in AssetIds
      BY <3>1, AssetAssumption DEF AssetIds
    <3> QED BY <3>2 DEF Digests
  <2>3. CASE Describe(p)
    <3>1. Metadata(job[p].id) \in Digests
      BY <2>3, JobShape DEF Describe, Digests, AssetIInv
    <3> QED BY <2>1, <2>3, <3>1 DEF Describe
  <2> QED BY <2>1, <2>2, <2>3 DEF Upload, Delete, Unlink
<1>6. AssetTypeOK'
  BY <1>1, <1>2, <1>3, <1>4, <1>5 DEF AssetIInv, AssetTypeOK, Works
<1>7. PartialFilesExplained'
  BY <1>1, <1>2, OtherWorkKeepsExplained
<1>8. RecordedFilesExist'
  BY <1>1, <1>2 DEF AssetIInv, AssetTypeOK, RecordedFilesExist, Works
<1> QED BY <1>6, <1>7, <1>8 DEF AssetIInv

\* An import goes on to record a file only where there is one.
LEMMA ImportKeeps ==
    ASSUME AssetIInv, NEW p \in AssetServers, NEW id \in acked, Import(p, id)
    PROVE  AssetIInv'
<1> DEFINE d == Digest(id)
           next == [at |-> IF InLibrary(d) THEN "save" ELSE "absent", digest |-> d]
<1>1. d \in Digests
  <2>1. <<id, "json">> \in Paths /\ id \in AssetIds
    BY AssetAssumption DEF AssetIInv, AssetTypeOK, Paths, AssetIds
  <2>2. uploads[id] \in Kinds
    BY DEF AssetIInv, AssetTypeOK
  <2> QED BY <2>1, <2>2 DEF Import, Resolves, Digest, ContentPath, AssetIInv, AssetTypeOK, Paths
<1>2. next \in AssetJobs /\ next # NoAsset /\ Works(p, next) /\ job[p] = NoAsset
  BY <1>1, AssetAssumption DEF AssetJobs, Import
<1>3. /\ uploads' = uploads /\ assetFiles' = assetFiles /\ assetRows' = assetRows
      /\ mirrorRows' = mirrorRows /\ acked' = acked /\ cut' = cut /\ library' = library
  BY DEF Import, libraryVars
<1>4. job' \in [AssetServers -> AssetJobs \cup {NoAsset}] /\ job'[p] = next
      /\ \A q \in AssetServers \ {p} : job'[q] = job[q]
  BY <1>2 DEF Works, AssetIInv, AssetTypeOK
<1>5. next.at \in {"save", "absent"} /\ next.digest = d /\ (next.at = "save" => InLibrary(d))
  OBVIOUS
<1> HIDE DEF next
<1>6. AssetTypeOK'
  BY <1>3, <1>4, <1>5 DEF AssetIInv, AssetTypeOK
<1>7. PartialFilesExplained'
  BY <1>2, <1>3, OtherWorkKeepsExplained
<1>8. RecordedFilesExist'
  BY <1>3, <1>4, <1>5 DEF AssetIInv, RecordedFilesExist, InLibrary
<1> QED BY <1>6, <1>7, <1>8 DEF AssetIInv

\* A server that turns to a copy, or ends one, changes one file of the library,
\* which it is copying then or which explains itself.
LEMMA CopyMoves ==
    ASSUME AssetIInv, NEW p \in AssetServers, NEW d \in Digests,
           NEW next \in AssetJobs, Works(p, next),
           job[p] # NoAsset, job[p].at \in {"absent", "copy"}, job[p].digest = d,
           next # NoAsset, next.at \in {"copy", "save"}, next.digest = d,
           NEW content \in {"partial", "whole"}, library' = [library EXCEPT ![d] = content],
           content = "partial" => \/ d \in cut \/ next.at = "copy"
                                  \/ \E q \in AssetServers \ {p} : CopiedBy(q, d),
           UNCHANGED <<uploads, assetFiles, assetRows, mirrorRows, acked, cut>>
    PROVE  AssetIInv'
<1>1. library' \in [Digests -> {NoAsset, "partial", "whole"}] /\ library'[d] = content
      /\ \A e \in Digests \ {d} : library'[e] = library[e]
  BY DEF AssetIInv, AssetTypeOK
<1>2. job' \in [AssetServers -> AssetJobs \cup {NoAsset}] /\ job'[p] = next
      /\ \A q \in AssetServers \ {p} : job'[q] = job[q]
  BY DEF Works, AssetIInv, AssetTypeOK
<1>3. AssetTypeOK'
  BY <1>1, <1>2 DEF AssetIInv, AssetTypeOK
<1>4. PartialFilesExplained'
  <2> SUFFICES ASSUME NEW e \in Digests, library'[e] = "partial"
               PROVE  e \in cut' \/ Copying(e)'
    BY DEF PartialFilesExplained
  <2>1. CASE e = d
    <3>1. content = "partial"
      BY <1>1, <2>1
    <3>2. \A q \in AssetServers \ {p} : CopiedBy(q, d) => CopiedBy(q, d)'
      BY <1>2 DEF CopiedBy
    <3>3. next.at = "copy" => CopiedBy(p, d)'
      BY <1>2 DEF CopiedBy
    <3> QED BY <2>1, <3>1, <3>2, <3>3 DEF Copying
  <2>2. CASE e # d
    <3>1. e \in cut \/ Copying(e)
      BY <1>1, <2>2 DEF AssetIInv, PartialFilesExplained
    <3>2. \A q \in AssetServers : CopiedBy(q, e) => q # p /\ CopiedBy(q, e)'
      BY <1>2, <2>2 DEF CopiedBy
    <3> QED BY <3>1, <3>2 DEF Copying
  <2> QED BY <2>1, <2>2
<1>5. RecordedFilesExist'
  <2>1. ASSUME NEW e \in Digests, library[e] # NoAsset PROVE library'[e] # NoAsset
    BY <1>1, <2>1, AssetAssumption
  <2>2. ASSUME NEW q \in AssetServers, job'[q] # NoAsset,
               job'[q].at \in {"copy", "save", "insert", "mirror"}
        PROVE  library'[job'[q].digest] # NoAsset
    <3>1. CASE q = p
      BY <1>1, <1>2, <3>1, AssetAssumption
    <3>2. CASE q # p
      BY <1>2, <2>1, <2>2, <3>2, JobShape DEF AssetIInv, RecordedFilesExist
    <3> QED BY <3>1, <3>2
  <2> QED BY <2>1, <2>2 DEF AssetIInv, AssetTypeOK, RecordedFilesExist
<1> QED BY <1>3, <1>4, <1>5 DEF AssetIInv

\* A copy that starts empties its file, and one that ends makes it whole unless
\* another emptied it meanwhile; one that finds no asset leaves the library alone.
LEMMA CopyKeeps ==
    ASSUME AssetIInv, NEW p \in AssetServers, StartCopy(p) \/ Copy(p)
    PROVE  AssetIInv'
<1> DEFINE d == job[p].digest
<1>1. /\ d \in Digests /\ job[p] # NoAsset /\ job[p].at \in {"absent", "copy"}
      /\ UNCHANGED <<uploads, assetFiles, assetRows, mirrorRows, acked, cut>>
  BY JobShape DEF StartCopy, Copy, AssetIInv
<1>2. \A at \in {"copy", "save"} :
        LET n == [at |-> at, digest |-> d] IN
        n \in AssetJobs /\ n # NoAsset /\ n.at = at /\ n.digest = d
  BY <1>1, AssetAssumption DEF AssetJobs
<1>3. CASE StartCopy(p) /\ Works(p, NoAsset) /\ library' = library
  <2>1. job[p].at # "copy"
    BY <1>3 DEF StartCopy
  <2>2. PartialFilesExplained'
    BY <1>1, <1>3, <2>1, OtherWorkKeepsExplained
  <2> QED BY <1>1, <1>3, <2>2
          DEF AssetIInv, AssetTypeOK, RecordedFilesExist, Works
<1>4. CASE StartCopy(p) /\ ~(Works(p, NoAsset) /\ library' = library)
  <2>1. /\ library' = [library EXCEPT ![d] = "partial"]
        /\ Works(p, [at |-> "copy", digest |-> d])
    BY <1>4 DEF StartCopy
  <2> QED BY <1>1, <1>2, <2>1, CopyMoves
<1>5. CASE Copy(p)
  <2>1. PICK content \in {"partial", "whole"} :
          /\ content = "partial" => d \in cut \/ \E q \in AssetServers \ {p} : CopiedBy(q, d)
          /\ library' = [library EXCEPT ![d] = content]
    BY <1>5 DEF Copy
  <2>2. Works(p, [at |-> "save", digest |-> d])
    BY <1>5 DEF Copy
  <2> QED BY <1>1, <1>2, <2>1, <2>2, CopyMoves
<1> QED BY <1>3, <1>4, <1>5

\* The later steps of an import add rows only for the digest they work on, which
\* has a file since the import found or copied it.
LEMMA RecordingKeeps ==
    ASSUME AssetIInv, NEW p \in AssetServers, LookUp(p) \/ Insert(p) \/ Mirror(p)
    PROVE  AssetIInv'
<1> DEFINE d == job[p].digest
<1>1. d \in Digests /\ library[d] # NoAsset /\ job[p] # NoAsset /\ job[p].at # "copy"
  BY JobShape DEF LookUp, Insert, Mirror, AssetIInv, RecordedFilesExist
<1>2. PICK next \in AssetJobs \cup {NoAsset} :
        /\ Works(p, next)
        /\ next # NoAsset => next.at \in {"insert", "mirror"} /\ next.digest = d
  <2>1. \A at \in {"insert", "mirror"} : [at |-> at, digest |-> d] \in AssetJobs
    BY <1>1 DEF AssetJobs
  <2>2. CASE LookUp(p)
    <3> DEFINE n == [at |-> IF d \in assetRows THEN "mirror" ELSE "insert", digest |-> d]
    <3>1. Works(p, n) /\ n \in AssetJobs /\ n.at \in {"insert", "mirror"} /\ n.digest = d
      BY <2>1, <2>2 DEF LookUp
    <3> QED BY <3>1
  <2>3. CASE Insert(p)
    <3> DEFINE n == [at |-> "mirror", digest |-> d]
    <3>1. n \in AssetJobs /\ (Works(p, n) \/ Works(p, NoAsset))
      BY <2>1, <2>3 DEF Insert
    <3> QED BY <3>1
  <2>4. CASE Mirror(p)
    BY <2>4 DEF Mirror
  <2> QED BY <2>2, <2>3, <2>4
<1>3. /\ uploads' = uploads /\ assetFiles' = assetFiles /\ library' = library
      /\ acked' = acked /\ cut' = cut
      /\ assetRows' \subseteq assetRows \cup {d} /\ mirrorRows' \subseteq mirrorRows \cup {d}
  BY DEF LookUp, Insert, Mirror, libraryVars
<1>4. job' \in [AssetServers -> AssetJobs \cup {NoAsset}] /\ job'[p] = next
      /\ \A q \in AssetServers \ {p} : job'[q] = job[q]
  BY <1>2 DEF Works, AssetIInv, AssetTypeOK
<1>5. AssetTypeOK'
  BY <1>1, <1>2, <1>3, <1>4 DEF AssetIInv, AssetTypeOK
<1>6. PartialFilesExplained'
  BY <1>1, <1>2, <1>3, OtherWorkKeepsExplained
<1>7. RecordedFilesExist'
  BY <1>1, <1>2, <1>3, <1>4 DEF AssetIInv, RecordedFilesExist
<1> QED BY <1>5, <1>6, <1>7 DEF AssetIInv

\* A crash leaves a partial file only as one that it has cut short.
LEMMA CrashKeeps ==
    ASSUME AssetIInv, NEW p \in AssetServers, AssetServerDies(p)
    PROVE  AssetIInv'
<1>1. job' \in [AssetServers -> AssetJobs \cup {NoAsset}] /\ job'[p] = NoAsset
      /\ \A q \in AssetServers \ {p} : job'[q] = job[q]
  BY DEF AssetServerDies, Works, AssetIInv, AssetTypeOK
<1>2. /\ uploads' = uploads /\ assetFiles' = assetFiles /\ library' = library
      /\ assetRows' = assetRows /\ mirrorRows' = mirrorRows /\ acked' = acked
      /\ cut \subseteq cut'
      /\ job[p].at = "copy" => job[p].digest \in cut'
  BY DEF AssetServerDies
<1>3. AssetTypeOK'
  BY <1>1, <1>2 DEF AssetIInv, AssetTypeOK
<1>4. ASSUME NEW d \in Digests, library'[d] = "partial" PROVE d \in cut' \/ Copying(d)'
  BY <1>1, <1>2, <1>4 DEF AssetIInv, PartialFilesExplained, Copying, CopiedBy
<1>5. RecordedFilesExist'
  BY <1>1, <1>2 DEF AssetIInv, RecordedFilesExist
<1> QED BY <1>3, <1>4, <1>5 DEF AssetIInv, PartialFilesExplained

\* Every step of the assets keeps their inductive invariant.
LEMMA AssetStepPreserves == AssetIInv /\ [AssetNext]_assetVars => AssetIInv'
<1> SUFFICES ASSUME AssetIInv, [AssetNext]_assetVars PROVE AssetIInv'
  OBVIOUS
<1>1. CASE UNCHANGED assetVars
  BY <1>1 DEF assetVars, AssetIInv, AssetTypeOK, PartialFilesExplained,
              RecordedFilesExist, Copying, CopiedBy
<1>2. ASSUME NEW p \in AssetServers,
             \/ \E kind \in Kinds : Upload(p, kind)
             \/ \E id \in acked : Delete(p, id)
             \/ Describe(p) \/ Unlink(p)
      PROVE  AssetIInv'
  BY <1>2, StoreStepsKeep
<1>3. ASSUME NEW p \in AssetServers, NEW id \in acked, Import(p, id) PROVE AssetIInv'
  BY <1>3, ImportKeeps
<1>4. ASSUME NEW p \in AssetServers, StartCopy(p) \/ Copy(p) PROVE AssetIInv'
  BY <1>4, CopyKeeps
<1>5. ASSUME NEW p \in AssetServers, LookUp(p) \/ Insert(p) \/ Mirror(p) PROVE AssetIInv'
  BY <1>5, RecordingKeeps
<1>6. ASSUME NEW p \in AssetServers, AssetServerDies(p) PROVE AssetIInv'
  BY <1>6, CrashKeeps
<1> QED BY <1>1, <1>2, <1>3, <1>4, <1>5, <1>6 DEF AssetNext

\* The assets' inductive invariant holds in every behaviour.
THEOREM AssetInvariance == AssetSpec => []AssetIInv
BY AssetInitEstablishes, AssetStepPreserves, PTL DEF AssetSpec

\* Every row of the library, in either store, stands for a whole file, but for
\* copies under way and copies that a crash has cut short (import_asset_id).
THEOREM RowsStandForFiles == AssetSpec => []RecordedFileIsWhole
<1>1. AssetIInv => RecordedFileIsWhole
  BY DEF AssetIInv, AssetTypeOK, PartialFilesExplained, RecordedFilesExist,
         RecordedFileIsWhole
<1> QED BY <1>1, AssetInvariance, PTL

-----------------------------------------------------------------------------
(***************************************************************************)
(* Account profiles.                                                       *)
(***************************************************************************)

InsightTypeOK ==
    /\ syncs \in Nat /\ shown \in 0 .. syncs /\ pgProfile \in 0 .. syncs
    /\ DOMAIN task = Tasks

\* A sync under way brings the profile of its own analytics.
SyncsCarryTheirProfile ==
    \A t \in Tasks : Syncing(t) =>
        task[t].sync \in 1 .. syncs /\ task[t].profile = task[t].sync

\* While no two syncs have overlapped, at most one is under way, and no later
\* sync has been shown.
OneAtATime ==
    ~overlapped => \A t \in Tasks : Syncing(t) =>
        task[t].sync >= shown /\ \A u \in Tasks : Syncing(u) => u = t

InsightIInv ==
    InsightTypeOK /\ SyncsCarryTheirProfile /\ OneAtATime /\ AnsweredSyncShows

\* The initial state satisfies the inductive invariant of the profiles.
LEMMA InsightInitEstablishes == InsightInit => InsightIInv
BY DEF InsightInit, InsightIInv, InsightTypeOK, SyncsCarryTheirProfile, OneAtATime,
       AnsweredSyncShows, Syncing

\* A step that starts no sync, shows nothing and mirrors nothing keeps the
\* invariant, whatever sync it ends.
LEMMA NoNewSyncKeeps ==
    ASSUME InsightIInv, syncs' \in Nat, syncs' >= syncs,
           UNCHANGED <<shown, pgProfile, overlapped>>, DOMAIN task' = Tasks,
           \A t \in Tasks : Syncing(t)' => task'[t] = task[t] /\ Syncing(t)
    PROVE  InsightIInv'
<1>1. InsightTypeOK' /\ AnsweredSyncShows'
  BY DEF InsightIInv, InsightTypeOK, AnsweredSyncShows
<1>2. SyncsCarryTheirProfile'
  BY DEF InsightIInv, InsightTypeOK, SyncsCarryTheirProfile
<1>3. OneAtATime'
  BY DEF InsightIInv, OneAtATime
<1> QED BY <1>1, <1>2, <1>3 DEF InsightIInv

\* A sync that starts brings the newest analytics of all.
LEMMA SyncKeeps ==
    ASSUME InsightIInv, NEW t \in Tasks, SyncAnalytics(t)
    PROVE  InsightIInv'
<1> DEFINE n == syncs + 1
<1>0. /\ syncs' = n /\ shown' = shown /\ pgProfile' = pgProfile
      /\ task' = [task EXCEPT ![t] = [at |-> "mirror profile", sync |-> n, profile |-> n]]
  BY DEF SyncAnalytics, LoadedProfile
<1>1. /\ syncs \in Nat /\ n \in Nat /\ n > syncs /\ n \in 1 .. n
      /\ shown \in 0 .. n /\ pgProfile \in 0 .. n /\ n >= shown
      /\ DOMAIN task = Tasks
  BY DEF InsightIInv, InsightTypeOK
<1>o. ~overlapped' => ~overlapped /\ \A u \in Tasks : ~Syncing(u)
  BY DEF SyncAnalytics
<1> HIDE DEF n
<1>2. DOMAIN task' = Tasks /\ task'[t].sync = n /\ task'[t].profile = n
      /\ \A u \in Tasks \ {t} : task'[u] = task[u]
  BY <1>0, <1>1
<1>3. \A u \in Tasks \ {t} : Syncing(u)' => Syncing(u)
  BY <1>2 DEF Syncing
<1>4. InsightTypeOK'
  <2>1. syncs' \in Nat
    BY <1>0, <1>1
  <2>2. shown' \in 0 .. syncs'
    BY <1>0, <1>1
  <2>3. pgProfile' \in 0 .. syncs'
    BY <1>0, <1>1
  <2> QED BY <1>2, <2>1, <2>2, <2>3 DEF InsightTypeOK
<1>5. SyncsCarryTheirProfile'
  <2>1. \A u \in Tasks \ {t} : Syncing(u) =>
           task[u].sync \in 1 .. n /\ task[u].profile = task[u].sync
    BY <1>1 DEF InsightIInv, SyncsCarryTheirProfile
  <2> QED BY <1>0, <1>1, <1>2, <1>3, <2>1 DEF SyncsCarryTheirProfile
<1>6. OneAtATime'
  BY <1>0, <1>1, <1>o, <1>2, <1>3 DEF OneAtATime
<1>7. AnsweredSyncShows'
  BY <1>0, <1>o DEF InsightIInv, AnsweredSyncShows
<1> QED BY <1>4, <1>5, <1>6, <1>7 DEF InsightIInv

\* A mirrored profile is the one of the sync that is shown with it.
LEMMA MirrorKeeps ==
    ASSUME InsightIInv, NEW t \in Tasks, MirrorProfile(t)
    PROVE  InsightIInv'
<1> DEFINE n == task[t].sync
<1>1. /\ n \in 1 .. syncs /\ syncs \in Nat /\ pgProfile' = n /\ syncs' = syncs
      /\ shown \in Nat /\ shown' = IF n > shown THEN n ELSE shown
      /\ task' = [task EXCEPT ![t] = Quiet] /\ overlapped' = overlapped
  BY DEF MirrorProfile, InsightIInv, InsightTypeOK, SyncsCarryTheirProfile
<1>2. DOMAIN task' = Tasks /\ task'[t] = Quiet
      /\ \A u \in Tasks \ {t} : task'[u] = task[u]
  BY <1>1 DEF InsightIInv, InsightTypeOK
<1>3. \A u \in Tasks : Syncing(u)' => u # t /\ Syncing(u) /\ task'[u] = task[u]
  BY <1>2 DEF Syncing
<1>4. ~overlapped => n >= shown /\ \A u \in Tasks : Syncing(u) => u = t
  BY DEF InsightIInv, OneAtATime, MirrorProfile
<1> HIDE DEF n
<1>5. InsightTypeOK'
  BY <1>1, <1>2 DEF InsightIInv, InsightTypeOK
<1>6. SyncsCarryTheirProfile'
  BY <1>1, <1>3 DEF InsightIInv, SyncsCarryTheirProfile
<1>7. OneAtATime'
  BY <1>1, <1>3, <1>4 DEF OneAtATime
<1>8. AnsweredSyncShows'
  BY <1>1, <1>4 DEF AnsweredSyncShows
<1> QED BY <1>5, <1>6, <1>7, <1>8 DEF InsightIInv

\* Every step of the profiles keeps their inductive invariant.
LEMMA InsightStepPreserves == InsightIInv /\ [InsightNext]_insightVars => InsightIInv'
<1> SUFFICES ASSUME InsightIInv, [InsightNext]_insightVars PROVE InsightIInv'
  OBVIOUS
<1>1. syncs \in Nat /\ DOMAIN task = Tasks
  BY DEF InsightIInv, InsightTypeOK
<1>2. CASE UNCHANGED insightVars
  <2>1. \A t \in Tasks : Syncing(t)' => task'[t] = task[t] /\ Syncing(t)
    BY <1>2 DEF insightVars, Syncing
  <2> QED BY <1>1, <1>2, <2>1, NoNewSyncKeeps DEF insightVars
<1>3. ASSUME NEW t \in Tasks, SyncAnalytics(t) PROVE InsightIInv'
  BY <1>3, SyncKeeps
<1>4. ASSUME NEW t \in Tasks, MirrorProfile(t) PROVE InsightIInv'
  BY <1>4, MirrorKeeps
<1>5. ASSUME NEW t \in Tasks, Report(t) PROVE InsightIInv'
  <2> DEFINE history == Append(Mine(t).history,
                               [report |-> reports + 1, score |-> Mine(t).analytics])
             next == IF Torn \in ToSet(history) THEN Quiet
                     ELSE [at |-> "mirror snapshot", line |-> Last(history)]
  <2>1. task' = [task EXCEPT ![t] = next]
    BY <1>5 DEF Report
  <2>2. next = Quiet \/ next.at = "mirror snapshot"
    OBVIOUS
  <2> HIDE DEF next
  <2>3. \A u \in Tasks : Syncing(u)' => task'[u] = task[u] /\ Syncing(u)
    BY <1>1, <2>1, <2>2 DEF Syncing
  <2>4. DOMAIN task' = Tasks
    BY <1>1, <2>1
  <2>5. syncs' = syncs /\ UNCHANGED <<shown, pgProfile, overlapped>>
    BY <1>5 DEF Report
  <2> QED BY <1>1, <2>3, <2>4, <2>5, NoNewSyncKeeps
<1>6. ASSUME NEW t \in Tasks, MirrorSnapshot(t) \/ CallFails(t) PROVE InsightIInv'
  <2>1. task' = [task EXCEPT ![t] = Quiet]
    BY <1>6 DEF MirrorSnapshot, CallFails
  <2>2. \A u \in Tasks : Syncing(u)' => task'[u] = task[u] /\ Syncing(u)
    BY <1>1, <2>1 DEF Syncing
  <2>3. DOMAIN task' = Tasks
    BY <1>1, <2>1
  <2>4. syncs' = syncs /\ UNCHANGED <<shown, pgProfile, overlapped>>
    BY <1>6 DEF MirrorSnapshot, CallFails
  <2> QED BY <1>1, <2>2, <2>3, <2>4, NoNewSyncKeeps
<1>7. ASSUME NEW h \in Pods, SyncByTool(h) \/ ReportByTool(h) PROVE InsightIInv'
  <2>1. task' = task /\ syncs' \in {syncs, syncs + 1}
    BY <1>7 DEF SyncByTool, ReportByTool
  <2>2. \A u \in Tasks : Syncing(u)' => task'[u] = task[u] /\ Syncing(u)
    BY <2>1 DEF Syncing
  <2> QED BY <1>1, <1>7, <2>1, <2>2, NoNewSyncKeeps DEF SyncByTool, ReportByTool
<1>8. ASSUME NEW h \in Pods, PodDies(h) PROVE InsightIInv'
  <2>1. task' = [t \in Tasks |-> IF PodOf[t] = h THEN Quiet ELSE task[t]]
        /\ syncs' \in {syncs, syncs + 1}
    BY <1>8 DEF PodDies
  <2>2. \A u \in Tasks : Syncing(u)' => task'[u] = task[u] /\ Syncing(u)
    BY <2>1 DEF Syncing
  <2> QED BY <1>1, <1>8, <2>1, <2>2, NoNewSyncKeeps DEF PodDies
<1> QED BY <1>2, <1>3, <1>4, <1>5, <1>6, <1>7, <1>8 DEF InsightNext

\* The inductive invariant of the profiles holds in every behaviour.
THEOREM InsightInvariance == InsightSpec => []InsightIInv
BY InsightInitEstablishes, InsightStepPreserves, PTL DEF InsightSpec

\* As long as no two syncs overlap, PostgreSQL never holds an older profile than
\* a route has answered, whatever tools, crashes and failures do (sync_async).
THEOREM AnsweredSyncsShow == InsightSpec => []AnsweredSyncShows
<1>1. InsightIInv => AnsweredSyncShows
  BY DEF InsightIInv
<1> QED BY <1>1, InsightInvariance, PTL

-----------------------------------------------------------------------------
(***************************************************************************)
(* Retrospectives.                                                         *)
(***************************************************************************)

FiledRows == [note : Posts, at : Nat, zone : Nat, fewSearches : BOOLEAN, column : Owners]
SyncedRows == [note : Posts, at : Nat, zone : Nat, owner : Owners, fewSearches : BOOLEAN]

FeedbackTypeOK ==
    /\ durable \in BOOLEAN
    /\ snapshots \subseteq FiledRows /\ IsFiniteSet(snapshots)
    /\ synced \subseteq SyncedRows
    /\ DOMAIN review = Reviewers

\* The key of a table is one.
OneRowPerKey == \A s, t \in snapshots : SameKey(s, t) => s = t

\* The same instant of the note was synced for another account as well.
Contested(s) == \E u \in synced : u.note = s.note /\ u.at = s.at /\ u.owner # s.owner

\* What was synced has a row, under its own account unless it is contested; and
\* a row is under an account that its instant was synced for.
SyncedIsFiled ==
    \A s \in synced : \E t \in snapshots :
        SameKey(s, t) /\ (t.column = s.owner \/ Contested(s))
FiledWasSynced ==
    \A t \in snapshots : \E u \in synced :
        u.note = t.note /\ u.at = t.at /\ u.owner = t.column

\* What JudgedOnNewest says of one retrospective, stored or about to be.
OnNewest(r) ==
    \A s \in r.known :
        \/ s.at <= r.target.at
        \/ ~durable /\ s.zone # r.target.zone
        \/ Contested(s)

FeedbackIInv ==
    /\ FeedbackTypeOK /\ OneRowPerKey /\ SyncedIsFiled /\ FiledWasSynced
    /\ \A r \in retros : OnNewest(r)
    /\ \A r \in Reviewers : review[r] # NoReview => OnNewest(review[r])

\* The initial state satisfies the retrospectives' inductive invariant.
LEMMA FeedbackInitEstablishes == FeedbackInit => FeedbackIInv
BY FS_EmptySet
DEF FeedbackInit, FeedbackIInv, FeedbackTypeOK, OneRowPerKey, SyncedIsFiled, FiledWasSynced

\* Rows of one note with different keys are strictly ordered, in either store.
LEMMA LaterOrders ==
    ASSUME FeedbackIInv
    PROVE  /\ \A s \in snapshots : ~Later(s, s)
           /\ \A s, t, u \in snapshots : Later(s, t) /\ Later(t, u) => Later(s, u)
           /\ \A s, t \in snapshots : s.note = t.note /\ s # t => Later(s, t) \/ Later(t, s)
<1>1. \A s \in snapshots : s.at \in Nat /\ s.zone \in Nat
  BY DEF FeedbackIInv, FeedbackTypeOK, FiledRows
<1>2. \A s \in snapshots : ~Later(s, s)
  BY <1>1 DEF Later, Clock
<1>3. ASSUME NEW s \in snapshots, NEW t \in snapshots, NEW u \in snapshots,
             Later(s, t), Later(t, u)
      PROVE  Later(s, u)
  BY <1>1, <1>3 DEF Later, Clock
<1>4. ASSUME NEW s \in snapshots, NEW t \in snapshots, s.note = t.note, s # t
      PROVE  Later(s, t) \/ Later(t, s)
  <2>1. s.at # t.at \/ (~durable /\ s.zone # t.zone)
    BY <1>4 DEF FeedbackIInv, OneRowPerKey, SameKey
  <2>2. /\ s.at \in Nat /\ s.zone \in Nat /\ t.at \in Nat /\ t.zone \in Nat
    BY <1>1
  <2> QED BY <2>1, <2>2 DEF Later, Clock
<1> QED BY <1>2, <1>3, <1>4

\* Among the rows of a note there is a newest one, later than all others: the
\* one with the fewest rows after it.
LEMMA NewestIsLatest ==
    ASSUME FeedbackIInv, NEW rows \in SUBSET snapshots, rows # {},
           \A s, t \in rows : s.note = t.note
    PROVE  /\ Newest(rows) \in rows
           /\ \A t \in rows \ {Newest(rows)} : Later(Newest(rows), t)
<1> DEFINE After(s) == {t \in rows : Later(t, s)}
           counts == {Cardinality(After(s)) : s \in rows}
<1>1. IsFiniteSet(rows)
  BY FS_Subset DEF FeedbackIInv, FeedbackTypeOK
<1>2. \A s \in rows : IsFiniteSet(After(s)) /\ Cardinality(After(s)) \in Nat
  BY <1>1, FS_Subset, FS_CardinalityType
<1>3. PICK x \in rows : \A s \in rows : Cardinality(After(x)) <= Cardinality(After(s))
  <2>1. counts \in SUBSET Nat /\ counts # {}
    BY <1>2
  <2>2. \E n \in counts : \A m \in counts : n <= m
    BY <2>1, LeastNatural
  <2> QED BY <2>2
<1>4. ASSUME NEW y \in After(x) PROVE FALSE
  <2>1. After(y) \subseteq After(x)
    BY <1>4, LaterOrders
  <2>2. y \notin After(y) /\ y \in rows
    BY <1>4, LaterOrders
  <2>3. Cardinality(After(y)) < Cardinality(After(x))
    <3>1. After(y) \in SUBSET After(x) /\ After(y) # After(x)
      BY <1>4, <2>1, <2>2
    <3> HIDE DEF After
    <3>2. Cardinality(After(y)) <= Cardinality(After(x))
          /\ Cardinality(After(y)) # Cardinality(After(x))
      BY <1>2, <3>1, FS_Subset
    <3> QED BY <1>2, <2>2, <3>2
  <2>4. Cardinality(After(x)) <= Cardinality(After(y))
    BY <1>3, <2>2
  <2>5. Cardinality(After(x)) \in Nat /\ Cardinality(After(y)) \in Nat
    BY <1>2, <2>2
  <2> HIDE DEF After
  <2> QED BY <2>3, <2>4, <2>5
<1>5. \A t \in rows \ {x} : Later(x, t)
  BY <1>4, LaterOrders
<1> QED BY <1>5 DEF Newest

\* A retrospective is made of the newest row of the note, and so of one that is
\* no older than any snapshot synced by then for the account.
LEMMA JudgedIsOnNewest ==
    ASSUME FeedbackIInv, NEW o, NEW n, \E s \in Listed(o) : s.note = n
    PROVE  OnNewest(Judged(o, n, Listed(o)))
<1> DEFINE rows == {s \in Listed(o) : s.note = n}
           target == Newest(rows)
           known == {s \in synced : s.owner = o /\ s.note = n}
<1>1. target \in rows /\ \A t \in rows \ {target} : Later(target, t)
  <2>1. rows \in SUBSET snapshots /\ rows # {} /\ \A s, t \in rows : s.note = t.note
    BY DEF Listed
  <2> HIDE DEF rows
  <2> QED BY <2>1, NewestIsLatest
<1>2. Judged(o, n, Listed(o)).target = target /\ Judged(o, n, Listed(o)).known = known
  BY DEF Judged
<1>3. ASSUME NEW s \in known, ~Contested(s)
      PROVE  s.at <= target.at \/ (~durable /\ s.zone # target.zone)
  <2>1. PICK t \in snapshots : SameKey(s, t) /\ t.column = s.owner
    BY <1>3 DEF FeedbackIInv, SyncedIsFiled
  <2>2. t \in rows /\ t.at = s.at /\ (durable \/ t.zone = s.zone)
    BY <2>1 DEF SameKey, Listed
  <2>3. target = t \/ Later(target, t)
    BY <1>1, <2>2
  <2>4. target \in snapshots
    BY <1>1 DEF Listed
  <2>5. s.at \in Nat /\ t.at \in Nat /\ t.zone \in Nat /\ target.at \in Nat /\ target.zone \in Nat
    BY <2>2, <2>4 DEF FeedbackIInv, FeedbackTypeOK, FiledRows
  <2> HIDE DEF target, rows, known
  <2> QED BY <2>2, <2>3, <2>5 DEF Later, Clock
<1> QED BY <1>2, <1>3 DEF OnNewest

\* An instant that was contested stays so, and with it every judgement.
LEMMA JudgementsStand ==
    ASSUME synced \subseteq synced', durable' = durable
    PROVE  /\ \A s : Contested(s) => Contested(s)'
           /\ \A r : OnNewest(r) => OnNewest(r)'
<1>1. ASSUME NEW s, Contested(s) PROVE Contested(s)'
  BY <1>1 DEF Contested
<1>2. ASSUME NEW r, OnNewest(r) PROVE OnNewest(r)'
  BY <1>1, <1>2 DEF OnNewest
<1> QED BY <1>1, <1>2

\* A snapshot replaces the row with its key.  In PostgreSQL the row stays under
\* the account that it had, in SQLite it moves to the new one.
LEMMA SyncMetricsKeeps ==
    ASSUME FeedbackIInv, NEW s \in SyncedRows, SyncMetrics(s)
    PROVE  FeedbackIInv'
<1> DEFINE old == {t \in snapshots : SameKey(s, t)}
           column == IF durable /\ old # {} THEN (CHOOSE t \in old : TRUE).column
                     ELSE s.owner
<1>0. PICK f : f = Filed(s, column)
  OBVIOUS
<1>1. /\ synced' = synced \cup {s} /\ snapshots' = (snapshots \ old) \cup {f}
      /\ durable' = durable /\ review' = review /\ retros' = retros
  BY <1>0 DEF SyncMetrics
<1>2. durable /\ old # {} => \E t \in old : column = t.column
  OBVIOUS
<1>3. ~(durable /\ old # {}) => column = s.owner
  OBVIOUS
<1>4. \A t \in old : t \in snapshots /\ SameKey(s, t)
  OBVIOUS
<1>5. /\ f.note = s.note /\ f.at = s.at /\ f.zone = s.zone /\ f.column = column
      /\ f = [note |-> s.note, at |-> s.at, zone |-> s.zone,
              fewSearches |-> s.fewSearches, column |-> column]
  BY <1>0 DEF Filed
<1>6. \A t \in snapshots \ old : ~SameKey(s, t)
  OBVIOUS
<1> HIDE DEF column, old
<1>7. column \in Owners /\ f \in FiledRows
  <2>1. column \in Owners
    BY <1>2, <1>3, <1>4 DEF FeedbackIInv, FeedbackTypeOK, FiledRows, SyncedRows
  <2> QED BY <1>5, <2>1 DEF SyncedRows, FiledRows
<1>8. column = s.owner \/ \E u \in synced : u.note = s.note /\ u.at = s.at /\ u.owner = column
  BY <1>2, <1>3, <1>4 DEF FeedbackIInv, FiledWasSynced, SameKey
<1>9. FeedbackTypeOK'
  <2>1. IsFiniteSet(snapshots \ old)
    BY FS_Subset DEF FeedbackIInv, FeedbackTypeOK
  <2>2. IsFiniteSet((snapshots \ old) \cup {f})
    BY <2>1, FS_AddElement
  <2> QED BY <1>1, <1>7, <2>2 DEF FeedbackIInv, FeedbackTypeOK
<1>10. OneRowPerKey'
  <2>1. ASSUME NEW t \in snapshots \ old PROVE ~SameKey(f, t)' /\ ~SameKey(t, f)'
    BY <1>1, <1>5, <1>6, <2>1 DEF SameKey
  <2>2. ASSUME NEW t \in snapshots \ old, NEW u \in snapshots \ old, SameKey(t, u)'
        PROVE  t = u
    BY <1>1, <2>2 DEF FeedbackIInv, OneRowPerKey, SameKey
  <2> QED BY <1>1, <2>1, <2>2 DEF OneRowPerKey
<1>11. SyncedIsFiled'
  <2>1. ASSUME NEW u \in synced
        PROVE  \E t \in snapshots' : SameKey(u, t)' /\ (t.column = u.owner \/ Contested(u)')
    <3>1. PICK t \in snapshots : SameKey(u, t) /\ (t.column = u.owner \/ Contested(u))
      BY DEF FeedbackIInv, SyncedIsFiled
    <3>2. Contested(u) => Contested(u)'
      BY <1>1, JudgementsStand
    <3>3. CASE t \notin old
      BY <1>1, <3>1, <3>2, <3>3 DEF SameKey
    <3>4. CASE t \in old
      <4>1. SameKey(u, f)'
        BY <1>1, <1>4, <1>5, <3>1, <3>4 DEF SameKey
      <4>2. CASE durable
        <5>1. \A v \in old : v = t
          BY <1>4, <3>4 DEF FeedbackIInv, OneRowPerKey, SameKey
        <5>2. column = t.column
          BY <1>2, <3>4, <4>2, <5>1
        <5> QED BY <1>1, <1>5, <3>1, <3>2, <4>1, <5>2
      <4>3. CASE ~durable
        <5>1. column = s.owner
          BY <1>3, <4>3
        <5>2. u.note = s.note /\ u.at = s.at
          BY <1>4, <3>1, <3>4 DEF SameKey
        <5>3. s.owner # u.owner => Contested(u)'
          BY <1>1, <5>2 DEF Contested
        <5> QED BY <1>1, <1>5, <4>1, <5>1, <5>3
      <4> QED BY <4>2, <4>3
    <3> QED BY <3>3, <3>4
  <2>2. SameKey(s, f)' /\ (f.column = s.owner \/ Contested(s)')
    BY <1>1, <1>5, <1>8 DEF SameKey, Contested
  <2> QED BY <1>1, <2>1, <2>2 DEF SyncedIsFiled
<1>12. FiledWasSynced'
  <2>1. ASSUME NEW t \in snapshots \ old
        PROVE  \E u \in synced' : u.note = t.note /\ u.at = t.at /\ u.owner = t.column
    BY <1>1 DEF FeedbackIInv, FiledWasSynced
  <2>2. \E u \in synced' : u.note = f.note /\ u.at = f.at /\ u.owner = f.column
    BY <1>1, <1>5, <1>8
  <2> QED BY <1>1, <2>1, <2>2 DEF FiledWasSynced
<1>13. (/\ \A r \in retros : OnNewest(r)
        /\ \A r \in Reviewers : review[r] # NoReview => OnNewest(review[r]))'
  <2>1. synced \subseteq synced'
    BY <1>1
  <2>2. \A r : OnNewest(r) => OnNewest(r)'
    BY <1>1, <2>1, JudgementsStand
  <2>3. ASSUME NEW r \in Reviewers, NEW v, v = review[r], v # NoReview
        PROVE  OnNewest(v)'
    BY <2>2, <2>3 DEF FeedbackIInv
  <2> QED BY <1>1, <2>2, <2>3 DEF FeedbackIInv
<1> QED BY <1>9, <1>10, <1>11, <1>12, <1>13 DEF FeedbackIInv

\* A step that only stores judgements made on newest rows keeps the invariant.
LEMMA StoredJudgementsKeep ==
    ASSUME FeedbackIInv, UNCHANGED <<durable, snapshots, synced>>,
           DOMAIN review' = Reviewers,
           \A r \in retros' : OnNewest(r),
           \A r \in Reviewers : \A v : v = review'[r] /\ v # NoReview => OnNewest(v)
    PROVE  FeedbackIInv'
<1>1. FeedbackTypeOK' /\ OneRowPerKey' /\ FiledWasSynced'
  BY DEF FeedbackIInv, FeedbackTypeOK, OneRowPerKey, FiledWasSynced, SameKey
<1>2. \A s : Contested(s) => Contested(s)'
  BY JudgementsStand
<1>3. SyncedIsFiled'
  BY <1>2 DEF FeedbackIInv, SyncedIsFiled, SameKey
<1>4. \A r : OnNewest(r) => OnNewest(r)'
  BY JudgementsStand
<1>5. ASSUME NEW r \in Reviewers, NEW v, v = review'[r], v # NoReview PROVE OnNewest(v)'
  BY <1>4, <1>5
<1> QED BY <1>1, <1>3, <1>4, <1>5 DEF FeedbackIInv

\* Every step of the feedback loop keeps the retrospectives' inductive invariant.
LEMMA FeedbackStepPreserves == FeedbackIInv /\ [FeedbackNext]_feedbackVars => FeedbackIInv'
<1> SUFFICES ASSUME FeedbackIInv, [FeedbackNext]_feedbackVars PROVE FeedbackIInv'
  OBVIOUS
<1>1. /\ DOMAIN review = Reviewers /\ \A r \in retros : OnNewest(r)
      /\ \A r \in Reviewers : \A v : v = review[r] /\ v # NoReview => OnNewest(v)
  BY DEF FeedbackIInv, FeedbackTypeOK
<1>2. ASSUME UNCHANGED <<durable, snapshots, synced, review, retros>> PROVE FeedbackIInv'
  BY <1>1, <1>2, StoredJudgementsKeep
<1>3. ASSUME NEW n \in Posts, NEW t \in Instants, NEW z \in Zones, NEW o \in Owners,
             SyncMetrics([note |-> n, at |-> t, zone |-> z, owner |-> o,
                          fewSearches |-> t \in Unsought])
      PROVE  FeedbackIInv'
  <2> DEFINE s == [note |-> n, at |-> t, zone |-> z, owner |-> o, fewSearches |-> t \in Unsought]
  <2>1. s \in SyncedRows
    BY FeedbackBounds DEF SyncedRows
  <2> QED BY <1>3, <2>1, SyncMetricsKeeps
<1>4. ASSUME NEW r \in Reviewers, NEW o \in Owners, NEW n \in Posts, Retrospective(r, o, n)
      PROVE  FeedbackIInv'
  <2>1. PICK v : v = Judged(o, n, Listed(o))
    OBVIOUS
  <2>2. OnNewest(v)
    <3>1. \E s \in Listed(o) : s.note = n
      BY <1>4 DEF Retrospective
    <3> QED BY <2>1, <3>1, JudgedIsOnNewest
  <2>3. /\ UNCHANGED <<durable, snapshots, synced>>
        /\ \/ review' = [review EXCEPT ![r] = v] /\ retros' = retros
           \/ review' = review /\ retros' = retros \cup {v}
    BY <1>4, <2>1 DEF Retrospective
  <2>4. /\ DOMAIN review' = Reviewers /\ \A q \in retros' : OnNewest(q)
        /\ \A q \in Reviewers : \A w : w = review'[q] /\ w # NoReview => OnNewest(w)
    BY <1>1, <2>2, <2>3
  <2> QED BY <2>3, <2>4, StoredJudgementsKeep
<1>5. ASSUME NEW r \in Reviewers, StoreRetrospective(r) PROVE FeedbackIInv'
  <2>1. PICK v : v = review[r]
    OBVIOUS
  <2>2. /\ UNCHANGED <<durable, snapshots, synced>> /\ v # NoReview
        /\ retros' = retros \cup {v} /\ review' = [review EXCEPT ![r] = NoReview]
    BY <1>5, <2>1 DEF StoreRetrospective
  <2>3. OnNewest(v)
    BY <1>1, <2>1, <2>2
  <2>4. /\ DOMAIN review' = Reviewers /\ \A q \in retros' : OnNewest(q)
        /\ \A q \in Reviewers : \A w : w = review'[q] /\ w # NoReview => OnNewest(w)
    BY <1>1, <2>2, <2>3
  <2> QED BY <2>2, <2>4, StoredJudgementsKeep
<1>6. CASE UNCHANGED feedbackVars
  BY <1>2, <1>6 DEF feedbackVars
<1>7. ASSUME NEW o \in Owners, CreateCalendar(o) PROVE FeedbackIInv'
  BY <1>2, <1>7 DEF CreateCalendar
<1>8. ASSUME NEW episodes, CreateSeries(episodes) PROVE FeedbackIInv'
  BY <1>2, <1>8 DEF CreateSeries
<1>9. ASSUME NEW history, WeightTrend(history) PROVE FeedbackIInv'
  BY <1>2, <1>9 DEF WeightTrend
<1> QED BY <1>3, <1>4, <1>5, <1>6, <1>7, <1>8, <1>9 DEF FeedbackNext

\* The retrospectives' inductive invariant holds in every behaviour.
THEOREM FeedbackInvariance == FeedbackSpec => []FeedbackIInv
BY FeedbackInitEstablishes, FeedbackStepPreserves, PTL DEF FeedbackSpec

\* The advice on file rests on the newest snapshot synced before it was asked
\* for, in either store, but for clocks of several zones in SQLite and instants
\* synced for two accounts (attribute_performance takes targets[-1]).
THEOREM AdviceRestsOnTheNewest == FeedbackSpec => []JudgedOnNewest
<1>1. FeedbackIInv => JudgedOnNewest
  BY DEF FeedbackIInv, FeedbackTypeOK, SyncedRows, OnNewest, Contested, JudgedOnNewest
<1> QED BY <1>1, FeedbackInvariance, PTL

(***************************************************************************)
(* The page of an account.                                                 *)
(***************************************************************************)

PageKinds == {"publish", "scheduled", "preview", "health", "analytics", "metrics", "start",
              "status", "logout", "none"}
Published == {"publish", "scheduled"}
Opening == {"verify", "page", "open"}
Filling == {"title", "body"}
Submitting == {"reverify", "again", "click", "read"}
Flight == {"open"} \cup Filling \cup Submitting
Asking == {"new", "verify", "reverify", "keep", "page", "again", "resume"}
Places == {"new", "keep", "resume", "store", "goto", "launch", "show", "closing", "done",
           "failed"} \cup Opening \cup Filling \cup Submitting
Signed == {"none", "mine", "other"}
Texts == PageOps \cup {Nobody}
Pages == [at : {"blank", "login", "studio", "form", "note"}, title : Texts, body : Texts,
          note : Texts \cup {"older"}]
PageBrowsers == [state : {"unused", "open", "left", "closed"}, who : Signed, page : Pages]
Requests == [kind : PageKinds, pc : Places, browser : Browsers \cup {NoBrowser},
             restores : BOOLEAN, got : Texts \cup {"older"}]
Clicks == [by : PageOps, as : Signed, title : Texts, body : Texts]

PageTypeOK ==
    /\ active \in Browsers \cup {NoBrowser}
    /\ browser \in [Browsers -> PageBrowsers]
    /\ cookies \in {"absent"} \cup Signed
    /\ holder \in [Locks -> Texts]
    /\ expired \subseteq Locks \X PageOps
    /\ op \in [PageOps -> Requests]
    /\ ending \subseteq Browsers
    /\ clicked \subseteq Clicks
    /\ meddled \subseteq PageOps
    /\ dropped \subseteq Browsers

\* A request that has a browser of its own in hand.
Hands(q) == q.restores \/ q.pc = "closing"

\* Which request may be where, and the locks that it holds there unless their
\* leases lapsed.
PlaceOK(o, q, locks, lapses) ==
    /\ q.pc \in Submitting => q.kind \in Published
    /\ q.pc \in Opening \cup Filling => q.kind \in Published \cup {"preview"}
    /\ q.pc \in {"keep", "resume", "store"} => q.kind = "preview"
    /\ q.pc = "goto" => q.kind # "publish"
    /\ q.pc \in {"launch", "show"} => q.kind = "start"
    /\ q.pc = "closing" => q.kind = "logout"
    /\ q.restores => q.pc \in Asking /\ (q.pc = "new" => q.kind # "publish")
    /\ (Hands(q) \/ q.pc \in {"launch", "show"}) /\ <<"browser", o>> \notin lapses =>
          locks["browser"] = o
    /\ q.pc \in Opening \cup Filling \cup Submitting /\ q.kind = "publish"
          /\ <<"publish", o>> \notin lapses => locks["publish"] = o
PlacesOK == \A o \in PageOps : PlaceOK(o, op[o], holder, expired)

\* The browsers in hand are apart from each other and from the active one.
HandsOK ==
    /\ active \in Browsers => browser[active].state # "unused"
    /\ \A o \in PageOps : Hands(op[o]) =>
          /\ op[o].browser \in Browsers /\ op[o].browser # active
          /\ browser[op[o].browser].state # "unused"
          /\ \A p \in PageOps : p # o /\ Hands(op[p]) => op[p].browser # op[o].browser

\* While no lease of account-browser lapses, nothing runs as the active browser that
\* a start replaces or a status call is about to replace.
Alone ==
    ~BrowserLeaseLapsed => \A o \in PageOps :
        /\ op[o].restores => active = NoBrowser
        /\ op[o].pc = "launch" => ~Running(active)

\* What the page of a publication shows that nobody else's request touched.
PageShows(o, pc, x) ==
    /\ pc \in Filling \cup {"reverify", "again", "click"} =>
          x.page.at = "form" /\ x.page.note = Nobody
    /\ pc \in {"body", "reverify", "again", "click"} => x.page.title = o
    /\ pc \in {"reverify", "again", "click"} => x.page.body = o
    /\ pc \in {"again", "click"} => x.who \in {"mine", "none"}
    /\ pc = "read" => x.page.note \in {o, Nobody}
OwnPages ==
    \A o \in InFlight \ meddled :
        /\ active \in Browsers /\ op[o].browser = active /\ ~op[o].restores
        /\ PageShows(o, op[o].pc, browser[active])

PageIInv == /\ PageTypeOK /\ PlacesOK /\ HandsOK /\ Alone /\ OwnPages
            /\ NoStrayBrowser /\ OwnUnlessMeddled

\* A browser that the process launches is one that it never launched before.
LEMMA FreshIsSpare ==
    ASSUME Spare # {}
    PROVE  Fresh \in Browsers /\ browser[Fresh].state = "unused"
<1>1. Spare \subseteq Nat
  BY PageAssumption DEF Spare
<1>2. \E b \in Spare : \A c \in Spare : b <= c
  BY <1>1, LeastNatural
<1> QED BY <1>2 DEF Fresh, Spare

\* Pages and browsers as the steps make them.
LEMMA PagesAreMade ==
    /\ Blank \in Pages /\ Editor \in Pages /\ Editor.at = "form" /\ Editor.note = Nobody
    /\ Unlaunched \in PageBrowsers /\ Unlaunched.state = "unused"
    /\ \A who \in Signed : /\ Studio(who) \in Pages /\ Studio(who).at \in {"login", "studio"}
                           /\ Studio(who).note = Nobody
                           /\ Launched(who) \in PageBrowsers /\ Launched(who).state = "open"
    /\ \A n \in Texts \cup {"older"} : NotePage(n) \in Pages /\ NotePage(n).note = n
<1>1. Blank \in Pages /\ Blank.note = Nobody
  BY DEF Blank, Pages, Texts
<1>2. Editor \in Pages /\ Editor.at = "form" /\ Editor.note = Nobody
  BY DEF Editor, Blank, Pages, Texts
<1>3. Unlaunched \in PageBrowsers /\ Unlaunched.state = "unused"
  BY <1>1 DEF Unlaunched, PageBrowsers, Signed
<1>4. ASSUME NEW who \in Signed
      PROVE  /\ Studio(who) \in Pages /\ Studio(who).at \in {"login", "studio"}
             /\ Studio(who).note = Nobody
  BY DEF Studio, Blank, Pages, Texts
<1>5. ASSUME NEW who \in Signed
      PROVE  Launched(who) \in PageBrowsers /\ Launched(who).state = "open"
  BY <1>3 DEF Launched, PageBrowsers
<1>6. ASSUME NEW n \in Texts \cup {"older"}
      PROVE  NotePage(n) \in Pages /\ NotePage(n).note = n
  BY DEF NotePage, Blank, Pages, Texts
<1> QED BY <1>1, <1>2, <1>3, <1>4, <1>5, <1>6

\* The initial states of the page satisfy its inductive invariant.
LEMMA PageInitEstablishes == PageInit => PageIInv
<1> SUFFICES ASSUME PageInit PROVE PageIInv
  OBVIOUS
<1>1. PICK work \in PageWork :
         op = [o \in PageOps |-> [kind |-> work[o], pc |-> "new", browser |-> NoBrowser,
                                  restores |-> FALSE, got |-> Nobody]]
  BY DEF PageInit
<1>2. \A o \in PageOps : work[o] \in PageKinds
  BY PageAssumption DEF PageKinds
<1>3. \A o \in PageOps : /\ op[o] \in Requests /\ op[o].pc = "new" /\ op[o].got = Nobody
                         /\ ~op[o].restores
  BY <1>1, <1>2 DEF Requests, Places, Texts
<1>4. PageTypeOK
  <2>1. op \in [PageOps -> Requests]
    BY <1>1, <1>3
  <2>2. browser \in [Browsers -> PageBrowsers]
    BY PagesAreMade DEF PageInit
  <2> QED BY <2>1, <2>2 DEF PageInit, PageTypeOK, Signed, Texts
<1>5. \A b \in Browsers \cup {NoBrowser} : ~Running(b)
  BY PagesAreMade, PageAssumption DEF PageInit, Running
<1>6. PlacesOK
  BY <1>3 DEF PlacesOK, PlaceOK, Hands, Opening, Filling, Submitting
<1>7. HandsOK /\ Alone /\ NoStrayBrowser
  BY <1>3, <1>5, PageAssumption DEF HandsOK, Hands, Alone, NoStrayBrowser, PageInit
<1>8. OwnPages /\ OwnUnlessMeddled
  BY <1>3 DEF OwnPages, InFlight, OwnUnlessMeddled, PageInit
<1> QED BY <1>4, <1>6, <1>7, <1>8 DEF PageIInv

\* One request moves, and takes nobody's lock.
LocksKept(o) ==
    /\ holder' \in [Locks -> Texts]
    /\ \A p \in PageOps : \A l \in Locks : p # o /\ holder[l] = p => holder'[l] = p
Moves(o, q) ==
    /\ q \in Requests /\ op' = [op EXCEPT ![o] = q] /\ q.kind = op[o].kind
    /\ PlaceOK(o, q, holder', expired) /\ LocksKept(o) /\ UNCHANGED expired
\* What it may change of the pages while another publication looks on unmeddled, and
\* what its own page shows.
OthersSee(o) ==
    \A p \in InFlight \ meddled' : p # o =>
        /\ active' = active /\ browser'[active].page = browser[active].page
        /\ browser'[active].who \in {browser[active].who, "none"}
OwnShown(o, q) ==
    o \notin meddled' /\ q.kind \in Published /\ q.pc \in Flight =>
        /\ active' \in Browsers /\ q.browser = active' /\ ~q.restores
        /\ PageShows(o, q.pc, browser'[active'])
\* What it reports and clicks on.
Reports(o, q) ==
    /\ q.got = op[o].got \/ (o \notin meddled' => q.got \in {o, Nobody})
    /\ clicked' \subseteq Clicks
    /\ \A k \in clicked' \ clicked :
          k.by \notin meddled' => k.title = k.by /\ k.body = k.by /\ k.as = "mine"
PageTypes ==
    /\ active' \in Browsers \cup {NoBrowser} /\ browser' \in [Browsers -> PageBrowsers]
    /\ cookies' \in {"absent"} \cup Signed /\ ending' \subseteq Browsers
    /\ dropped' \subseteq Browsers /\ meddled \subseteq meddled' /\ meddled' \subseteq PageOps

\* A request moves.
LEMMA RequestMoves ==
    ASSUME PageIInv, NEW o \in PageOps, NEW q, Moves(o, q), PageTypes, OthersSee(o),
           OwnShown(o, q), Reports(o, q), HandsOK', Alone', NoStrayBrowser'
    PROVE  PageIInv'
<1> USE DEF PageIInv
<1>1. op \in [PageOps -> Requests] /\ op' = [op EXCEPT ![o] = q] /\ q.kind = op[o].kind
  BY DEF PageTypeOK, Moves
<1>2. PageTypeOK'
  BY DEF PageTypeOK, PageTypes, Moves, LocksKept, Reports
<1>3. PlacesOK'
  <2> SUFFICES ASSUME NEW p \in PageOps PROVE PlaceOK(p, op'[p], holder', expired')
    BY DEF PlacesOK, PlaceOK
  <2>1. CASE p = o
    BY <1>1, <2>1 DEF Moves, PlaceOK
  <2>2. CASE p # o
    <3>1. op'[p] = op[p] /\ PlaceOK(p, op[p], holder, expired) /\ expired' = expired
      BY <1>1, <2>2 DEF PlacesOK, Moves
    <3>2. /\ holder["browser"] = p => holder'["browser"] = p
          /\ holder["publish"] = p => holder'["publish"] = p
      BY <2>2 DEF Locks, Moves, LocksKept
    <3> QED BY <3>1, <3>2 DEF PlaceOK
  <2> QED BY <2>1, <2>2
<1>4. OwnPages'
  <2> SUFFICES ASSUME NEW p \in PageOps, op'[p].kind \in Published, op'[p].pc \in Flight,
                      p \notin meddled'
               PROVE  /\ active' \in Browsers /\ op'[p].browser = active' /\ ~op'[p].restores
                      /\ PageShows(p, op'[p].pc, browser'[active'])
    BY DEF OwnPages, InFlight, Publication, Published, Flight, Filling, Submitting
  <2>1. CASE p = o
    BY <1>1, <2>1 DEF OwnShown
  <2>2. CASE p # o
    <3>1. op'[p] = op[p]
      BY <1>1, <2>2
    <3>2. p \in InFlight \ meddled' /\ p \in InFlight \ meddled
      BY <3>1 DEF InFlight, Publication, Published, Flight, Filling, Submitting, PageTypes
    <3>3. /\ active \in Browsers /\ op[p].browser = active /\ ~op[p].restores
          /\ PageShows(p, op[p].pc, browser[active])
      BY <3>2 DEF OwnPages
    <3>4. /\ active' = active /\ browser'[active].page = browser[active].page
          /\ browser'[active].who \in {browser[active].who, "none"}
      BY <2>2, <3>2 DEF OthersSee
    <3>5. PageShows(p, op'[p].pc, browser'[active'])
      BY <3>1, <3>3, <3>4 DEF PageShows
    <3> QED BY <3>1, <3>3, <3>4, <3>5
  <2> QED BY <2>1, <2>2
<1>5. OwnUnlessMeddled'
  <2>1. \A s \in clicked' : s.by \notin meddled' => s.title = s.by /\ s.body = s.by /\ s.as = "mine"
    BY DEF OwnUnlessMeddled, Reports, PageTypes
  <2>2. \A p \in PageOps : op'[p].kind \in Published /\ p \notin meddled' =>
           op'[p].got \in {p, Nobody}
    BY <1>1 DEF OwnUnlessMeddled, Publication, Published, Reports, PageTypes
  <2> QED BY <2>1, <2>2 DEF OwnUnlessMeddled, Publication, Published
<1> QED BY <1>2, <1>3, <1>4, <1>5

\* A request moves that has no browser in hand, replaces none, and closes at most some.
LEMMA DriveKeeps ==
    ASSUME PageIInv, NEW o \in PageOps, NEW q, Moves(o, q), ~Hands(op[o]), ~Hands(q),
           q.pc = "launch" => ~Running(active)', UNCHANGED <<active, ending, dropped>>,
           cookies' \in {"absent"} \cup Signed, browser' \in [Browsers -> PageBrowsers],
           \A b \in Browsers : \/ browser'[b].state = browser[b].state
                               \/ browser'[b].state = "closed"
                               \/ Running(b) /\ browser'[b].state # "unused",
           meddled \subseteq meddled', meddled' \subseteq PageOps,
           OthersSee(o), OwnShown(o, q), Reports(o, q)
    PROVE  PageIInv'
<1> USE DEF PageIInv
<1>1. op \in [PageOps -> Requests] /\ op' = [op EXCEPT ![o] = q] /\ expired' = expired
  BY DEF PageTypeOK, Moves
<1>2. PageTypes
  BY DEF PageTypes, PageTypeOK
<1>3. /\ \A b : Running(b)' => Running(b)
      /\ \A b \in Browsers : browser[b].state # "unused" => browser'[b].state # "unused"
  BY DEF Running
<1>4. \A p \in PageOps : Hands(op'[p]) => Hands(op[p]) /\ op'[p] = op[p]
  BY <1>1
<1>5. \A p \in PageOps : Hands(op[p]) => op'[p] = op[p]
  BY <1>1
<1>6. HandsOK'
  <2>1. active' \in Browsers => browser'[active'].state # "unused"
    BY <1>3 DEF HandsOK
  <2>2. ASSUME NEW p \in PageOps, Hands(op'[p])
        PROVE  /\ op'[p].browser \in Browsers /\ op'[p].browser # active'
               /\ browser'[op'[p].browser].state # "unused"
               /\ \A r \in PageOps : r # p /\ Hands(op'[r]) => op'[r].browser # op'[p].browser
    BY <1>3, <1>4, <2>2 DEF HandsOK
  <2> QED BY <2>1, <2>2 DEF HandsOK, Hands
<1>7. Alone'
  <2> SUFFICES ASSUME ~BrowserLeaseLapsed, NEW p \in PageOps
               PROVE  /\ op'[p].restores => active = NoBrowser
                      /\ op'[p].pc = "launch" => ~Running(active)'
    BY <1>1 DEF Alone, BrowserLeaseLapsed
  <2>1. op'[p].restores => op'[p] = op[p]
    BY <1>4 DEF Hands
  <2>2. op'[p].pc = "launch" => op'[p] = op[p] \/ ~Running(active)'
    BY <1>1
  <2> QED BY <1>3, <2>1, <2>2 DEF Alone
<1>8. NoStrayBrowser'
  <2> SUFFICES ASSUME NEW b \in Browsers, Running(b)', b \notin {active} \cup ending \cup dropped
               PROVE  \E p \in PageOps : Hands(op'[p]) /\ op'[p].browser = b
    BY DEF NoStrayBrowser, Hands
  <2>1. PICK p \in PageOps : Hands(op[p]) /\ op[p].browser = b
    BY <1>3 DEF NoStrayBrowser, Hands
  <2> QED BY <1>5, <2>1
<1> QED BY <1>2, <1>6, <1>7, <1>8, RequestMoves

\* The end of a request gives its locks back and takes nobody's.
LEMMA PageEnds ==
    ASSUME PageIInv, NEW o \in PageOps, NEW pc \in {"done", "failed"}, PageEnd(o, pc),
           UNCHANGED expired
    PROVE  \E q : /\ Moves(o, q) /\ ~Hands(q) /\ q.pc = pc /\ q.got = op[o].got
                  /\ OwnShown(o, q)
<1> DEFINE q == [op[o] EXCEPT !.pc = pc, !.restores = FALSE, !.browser = NoBrowser]
<1>1. op[o] \in Requests
  BY DEF PageIInv, PageTypeOK
<1>2. /\ q \in Requests /\ q.kind = op[o].kind /\ q.got = op[o].got /\ q.pc = pc
      /\ ~q.restores
  BY <1>1 DEF Requests, Places
<1>3. op' = [op EXCEPT ![o] = q]
  BY DEF PageEnd
<1> HIDE DEF q
<1>4. LocksKept(o)
  <2>1. \A l \in Locks : (IF l \in Locks /\ holder[l] = o THEN Nobody ELSE holder[l]) \in Texts
    BY DEF PageIInv, PageTypeOK, Texts
  <2>2. holder' \in [Locks -> Texts]
    BY <2>1 DEF PageEnd, Released
  <2> QED BY <2>2 DEF LocksKept, PageEnd, Released
<1>5. PlaceOK(o, q, holder', expired)
  BY <1>2 DEF PlaceOK, Hands, Opening, Filling, Submitting, Asking
<1>6. OwnShown(o, q) /\ ~Hands(q)
  BY <1>2 DEF OwnShown, Hands, Flight, Filling, Submitting
<1> QED BY <1>2, <1>3, <1>4, <1>5, <1>6 DEF Moves

\* Locks that stay as they are.
LEMMA LocksStay ==
    ASSUME PageIInv, NEW o \in PageOps, UNCHANGED holder PROVE LocksKept(o)
BY DEF PageIInv, PageTypeOK, LocksKept

\* The lock account-browser is taken when it is free.
LEMMA BrowserLockTaken ==
    ASSUME PageIInv, NEW o \in PageOps, holder["browser"] = Nobody,
           holder' = [holder EXCEPT !["browser"] = o]
    PROVE  LocksKept(o) /\ holder'["browser"] = o
           /\ \A l \in Locks \ {"browser"} : holder'[l] = holder[l]
<1>1. holder' \in [Locks -> Texts] /\ holder'["browser"] = o
  BY DEF PageIInv, PageTypeOK, Texts, Locks
<1> QED BY <1>1, PageAssumption DEF LocksKept, PageIInv, PageTypeOK

\* Nothing is clicked and nothing is reported.
LEMMA NothingReported ==
    ASSUME PageIInv, NEW o \in PageOps, NEW q, q.got = op[o].got, UNCHANGED clicked
    PROVE  Reports(o, q)
BY DEF PageIInv, PageTypeOK, Reports

\* A request moves and no page changes.
LEMMA QuietMove ==
    ASSUME PageIInv, NEW o \in PageOps, NEW q, Moves(o, q), ~Hands(op[o]), ~Hands(q),
           q.pc # "launch", Reports(o, q), OwnShown(o, q),
           UNCHANGED <<active, browser, ending, dropped, meddled>>,
           cookies' \in {"absent"} \cup Signed
    PROVE  PageIInv'
<1>1. /\ OthersSee(o) /\ browser' \in [Browsers -> PageBrowsers]
      /\ meddled \subseteq meddled' /\ meddled' \subseteq PageOps
  BY DEF OthersSee, PageIInv, PageTypeOK
<1> QED BY <1>1, DriveKeeps

\* A request ends and no page changes.
LEMMA QuietEnd ==
    ASSUME PageIInv, NEW o \in PageOps, NEW pc \in {"done", "failed"}, PageEnd(o, pc),
           ~Hands(op[o]), UNCHANGED <<active, browser, expired, ending, clicked, dropped, meddled>>,
           cookies' \in {"absent"} \cup Signed
    PROVE  PageIInv'
<1>1. PICK q : /\ Moves(o, q) /\ ~Hands(q) /\ q.pc = pc /\ q.got = op[o].got
               /\ OwnShown(o, q)
  BY PageEnds
<1>2. Reports(o, q)
  BY <1>1, NothingReported
<1> QED BY <1>1, <1>2, QuietMove

\* A request that touches the page meddles with every other publication under way;
\* one under the lease publish-account is the only one of its kind.
LEMMA TouchIsSeen ==
    ASSUME PageIInv, NEW o \in PageOps, Touch(o)
    PROVE  /\ meddled \subseteq meddled' /\ meddled' \subseteq PageOps
           /\ op[o].kind # "publish" \/ op[o].pc \in Opening \cup Filling \cup Submitting =>
                 OthersSee(o)
<1>1. meddled' = meddled \cup {p \in InFlight \ {o} : ~Together(o, p)}
  BY DEF Touch
<1>2. meddled \subseteq meddled' /\ meddled' \subseteq PageOps
  BY <1>1 DEF InFlight, PageIInv, PageTypeOK
<1>3. ASSUME NEW p \in InFlight \ meddled', p # o,
             op[o].kind # "publish" \/ op[o].pc \in Opening \cup Filling \cup Submitting
      PROVE  FALSE
  <2>1. \A r \in {o, p} : op[r].kind = "publish" /\ <<"publish", r>> \notin expired
    BY <1>1, <1>3 DEF Together
  <2>2. holder["publish"] = o
    BY <1>3, <2>1 DEF PageIInv, PlacesOK, PlaceOK
  <2>3. p \in PageOps /\ op[p].pc \in Opening \cup Filling \cup Submitting
    BY DEF InFlight, Opening, Filling, Submitting
  <2>4. holder["publish"] = p
    BY <2>1, <2>3 DEF PageIInv, PlacesOK, PlaceOK
  <2> QED BY <1>3, <2>2, <2>4
<1> QED BY <1>2, <1>3 DEF OthersSee

\* A request changes the page that it drives, and is seen by every publication that
\* is under way.
LEMMA TouchMove ==
    ASSUME PageIInv, NEW o \in PageOps, NEW q, Moves(o, q), ~Hands(op[o]), ~Hands(q),
           q.pc # "launch", Reports(o, q), OwnShown(o, q),
           NEW b \in Browsers, NEW page \in Pages, browser' = [browser EXCEPT ![b].page = page],
           op[o].kind # "publish" \/ op[o].pc \in Opening \cup Filling \cup Submitting,
           Touch(o), UNCHANGED <<active, ending, dropped>>,
           cookies' \in {"absent"} \cup Signed
    PROVE  PageIInv'
<1>1. browser \in [Browsers -> PageBrowsers]
  BY DEF PageIInv, PageTypeOK
<1>2. \A x \in PageBrowsers : /\ [x EXCEPT !.page = page] \in PageBrowsers
                              /\ [x EXCEPT !.page = page].state = x.state
  BY DEF PageBrowsers
<1>3. browser' \in [Browsers -> PageBrowsers]
  BY <1>1, <1>2
<1>4. \A c \in Browsers : browser'[c].state = browser[c].state
  BY <1>1, <1>2
<1>5. meddled \subseteq meddled' /\ meddled' \subseteq PageOps /\ OthersSee(o)
  BY TouchIsSeen
<1> QED BY <1>3, <1>4, <1>5, DriveKeeps

\* A page that is changed is the page shown.
LEMMA PageIsShown ==
    ASSUME PageIInv, NEW b \in Browsers, NEW page, browser' = [browser EXCEPT ![b].page = page]
    PROVE  browser'[b].page = page /\ browser'[b].who = browser[b].who
BY DEF PageIInv, PageTypeOK, PageBrowsers

\* A request begins, under its own lock.
LEMMA PageBeginKeeps ==
    ASSUME PageIInv, NEW o \in PageOps, Begin(o) PROVE PageIInv'
<1> DEFINE q == [op[o] EXCEPT !.pc = "verify"]
<1>1. /\ op[o] \in Requests /\ op[o].pc = "new" /\ ~op[o].restores
      /\ op[o].kind \in Published \cup {"preview"}
  BY DEF Begin, PageAt, Publication, Published, PageIInv, PageTypeOK
<1>2. /\ q \in Requests /\ q.kind = op[o].kind /\ q.got = op[o].got /\ q.pc = "verify"
      /\ ~q.restores
  BY <1>1 DEF Requests, Places, Opening
<1>3. op' = [op EXCEPT ![o] = q]
  BY DEF Begin, PageGoto
<1> HIDE DEF q
<1>4. /\ UNCHANGED <<active, browser, cookies, expired, ending, clicked, meddled, dropped>>
      /\ holder' = [l \in Locks |-> IF l = op[o].kind THEN o ELSE holder[l]]
      /\ op[o].kind # "scheduled" => holder[op[o].kind] = Nobody
  BY DEF Begin, PageLockFree
<1>5. LocksKept(o)
  <2>1. \A l \in Locks : (IF l = op[o].kind THEN o ELSE holder[l]) \in Texts
    BY DEF PageIInv, PageTypeOK, Texts
  <2>2. holder' \in [Locks -> Texts]
    BY <1>4, <2>1
  <2>3. \A l \in Locks : l = op[o].kind => holder[l] = Nobody
    BY <1>4 DEF Locks
  <2> QED BY <1>4, <2>2, <2>3, PageAssumption DEF LocksKept
<1>6. PlaceOK(o, q, holder', expired)
  <2>1. q.kind = "publish" => holder'["publish"] = o
    BY <1>2, <1>4 DEF Locks
  <2> QED BY <1>1, <1>2, <2>1 DEF PlaceOK, Hands, Opening, Filling, Submitting
<1>7. ~Hands(op[o]) /\ ~Hands(q) /\ OwnShown(o, q)
  BY <1>1, <1>2 DEF Hands, OwnShown, Flight, Filling, Submitting
<1>8. Reports(o, q)
  BY <1>2, <1>4, NothingReported
<1>9. Moves(o, q) /\ cookies' \in {"absent"} \cup Signed
  BY <1>2, <1>3, <1>4, <1>5, <1>6 DEF Moves, PageIInv, PageTypeOK
<1> QED BY <1>2, <1>4, <1>7, <1>8, <1>9, QuietMove

\* A request that may have raised ends.
LEMMA PageRaiseKeeps ==
    ASSUME PageIInv, NEW o \in PageOps, Raise(o) PROVE PageIInv'
<1>1. PageEnd(o, "failed") /\ ~Hands(op[o]) /\ cookies' \in {"absent"} \cup Signed
  BY DEF Raise, Hands, PageIInv, PageTypeOK
<1> QED BY <1>1, QuietEnd DEF Raise

\* A request takes the session there is.
LEMMA PageTakeKeeps ==
    ASSUME PageIInv, NEW o \in PageOps, TakeSession(o) PROVE PageIInv'
<1> DEFINE q == [op[o] EXCEPT !.pc = NextPlace[op[o].pc], !.browser = active]
<1>1. /\ op[o] \in Requests /\ ~op[o].restores /\ active \in Browsers
      /\ op[o].pc \in {"page", "again", "resume"} \/ (op[o].pc = "new" /\ op[o].kind = "health")
      /\ UNCHANGED <<active, browser, cookies, holder, expired, ending, clicked, meddled, dropped>>
  BY DEF TakeSession, PageAt, PageIInv, PageTypeOK
<1>2. op' = [op EXCEPT ![o] = q]
  BY DEF TakeSession
<1>3. /\ op[o].pc = "page" => NextPlace[op[o].pc] = "open"
      /\ op[o].pc = "again" => NextPlace[op[o].pc] = "click"
      /\ op[o].pc = "resume" => NextPlace[op[o].pc] = "store"
      /\ op[o].pc = "new" => NextPlace[op[o].pc] = "goto"
  BY DEF NextPlace
<1>4. NextPlace[op[o].pc] \in Places
  BY <1>1, <1>3 DEF Places, Opening, Submitting
<1>5. /\ q \in Requests /\ q.kind = op[o].kind /\ q.got = op[o].got
      /\ q.pc = NextPlace[op[o].pc] /\ ~q.restores /\ q.browser = active
  BY <1>1, <1>4 DEF Requests
<1> HIDE DEF q
<1>6. PlaceOK(o, op[o], holder, expired)
  BY DEF PageIInv, PlacesOK
<1>7. PlaceOK(o, q, holder', expired)
  BY <1>1, <1>3, <1>5, <1>6 DEF PlaceOK, Hands, Opening, Filling, Submitting
<1>8. ~Hands(op[o]) /\ ~Hands(q) /\ q.pc # "launch"
  BY <1>1, <1>3, <1>5 DEF Hands
<1>9. OwnShown(o, q)
  <2> SUFFICES ASSUME o \notin meddled, q.kind \in Published, q.pc \in Flight
               PROVE  PageShows(o, q.pc, browser[active])
    BY <1>1, <1>5 DEF OwnShown
  <2>1. CASE q.pc = "open"
    BY <2>1 DEF PageShows, Filling
  <2>2. CASE op[o].pc = "again"
    <3>1. o \in InFlight \ meddled
      BY <1>5, <2>2 DEF InFlight, Publication, Published
    <3>2. PageShows(o, "again", browser[active])
      BY <2>2, <3>1 DEF PageIInv, OwnPages
    <3> QED BY <1>3, <1>5, <2>2, <3>2 DEF PageShows, Filling
  <2> QED BY <1>1, <1>3, <1>5, <2>1, <2>2 DEF Flight, Filling, Submitting
<1>10. Moves(o, q) /\ Reports(o, q) /\ cookies' \in {"absent"} \cup Signed
  BY <1>1, <1>2, <1>5, <1>7, LocksStay, NothingReported DEF Moves, PageIInv, PageTypeOK
<1> QED BY <1>1, <1>8, <1>9, <1>10, QuietMove

\* The editor is opened for a request, or the page asks it to sign in.
LEMMA PageOpenKeeps ==
    ASSUME PageIInv, NEW o \in PageOps, OpenEditor(o) PROVE PageIInv'
<1> DEFINE b == op[o].browser
           in == browser[b].who # "none"
           page == IF in THEN Editor ELSE Studio("none")
<1>1. /\ op[o].pc = "open" /\ ~op[o].restores /\ op[o] \in Requests /\ b \in Browsers
      /\ UNCHANGED <<active, cookies, expired, ending, clicked, dropped>>
      /\ browser' = [browser EXCEPT ![b].page = page] /\ Touch(o)
  BY DEF OpenEditor, PageAt, Open, PageIInv, PageTypeOK
<1>2. page \in Pages
  BY PagesAreMade DEF Signed
<1>3. cookies' \in {"absent"} \cup Signed /\ ~Hands(op[o])
      /\ op[o].pc \in Opening \cup Filling \cup Submitting
  BY <1>1 DEF PageIInv, PageTypeOK, Hands, Opening
<1>4. CASE in
  <2> DEFINE q == [op[o] EXCEPT !.pc = "title"]
  <2>1. op' = [op EXCEPT ![o] = q] /\ UNCHANGED holder
    BY <1>4 DEF OpenEditor, PageGoto
  <2>2. /\ q \in Requests /\ q.kind = op[o].kind /\ q.got = op[o].got /\ q.pc = "title"
        /\ ~q.restores /\ q.browser = b
    BY <1>1 DEF Requests, Places, Filling
  <2> HIDE DEF q
  <2>3. PlaceOK(o, op[o], holder, expired)
    BY DEF PageIInv, PlacesOK
  <2>4. PlaceOK(o, q, holder', expired)
    BY <1>1, <2>1, <2>2, <2>3 DEF PlaceOK, Hands, Opening, Filling, Submitting
  <2>5. browser'[b].page = Editor
    BY <1>1, <1>4, PageIsShown
  <2>6. OwnShown(o, q)
    <3> SUFFICES ASSUME o \notin meddled', q.kind \in Published
                 PROVE  active \in Browsers /\ b = active /\ PageShows(o, "title", browser'[active])
      BY <1>1, <2>2 DEF OwnShown
    <3>1. o \in InFlight \ meddled
      BY <1>1, <2>2, TouchIsSeen DEF InFlight, Publication, Published
    <3>2. active \in Browsers /\ b = active
      BY <3>1 DEF PageIInv, OwnPages
    <3> QED BY <2>5, <3>2, PagesAreMade DEF PageShows
  <2>7. Moves(o, q) /\ Reports(o, q) /\ ~Hands(q) /\ q.pc # "launch"
    BY <1>1, <2>1, <2>2, <2>4, LocksStay, NothingReported DEF Moves, Hands
  <2> HIDE DEF page, b, in
  <2> QED BY <1>1, <1>2, <1>3, <2>6, <2>7, TouchMove
<1>5. CASE ~in
  <2>1. PageEnd(o, "failed")
    BY <1>5 DEF OpenEditor
  <2>2. PICK q : /\ Moves(o, q) /\ ~Hands(q) /\ q.pc = "failed" /\ q.got = op[o].got
                 /\ OwnShown(o, q)
    BY <1>1, <2>1, PageEnds
  <2>3. Reports(o, q)
    BY <1>1, <2>2, NothingReported
  <2> HIDE DEF page, b, in
  <2> QED BY <1>1, <1>2, <1>3, <2>2, <2>3, TouchMove
<1> QED BY <1>4, <1>5

\* A form that is written into shows what it showed before, and the text.
LEMMA FormsAreKept ==
    ASSUME PageIInv, NEW o \in PageOps, NEW b, FormShown(b)
    PROVE  LET old == browser[b].page IN
           /\ b \in Browsers /\ old \in Pages /\ old.at = "form"
           /\ [old EXCEPT !.title = o] \in Pages /\ [old EXCEPT !.body = o] \in Pages
BY DEF FormShown, Open, PageIInv, PageTypeOK, PageBrowsers, Pages, Texts

\* The title is written into whatever form the page shows.
LEMMA PageTitleKeeps ==
    ASSUME PageIInv, NEW o \in PageOps, WriteTitle(o) PROVE PageIInv'
<1> DEFINE b == op[o].browser
           q == [op[o] EXCEPT !.pc = "body"]
           page == [browser[b].page EXCEPT !.title = o]
<1>1. /\ op[o].pc = "title" /\ ~op[o].restores /\ op[o] \in Requests /\ FormShown(b)
      /\ UNCHANGED <<active, cookies, holder, expired, ending, clicked, dropped>>
      /\ browser' = [browser EXCEPT ![b].page = page] /\ Touch(o)
      /\ op' = [op EXCEPT ![o] = q]
  BY DEF WriteTitle, PageAt, PageGoto, PageIInv, PageTypeOK
<1>2. /\ q \in Requests /\ q.kind = op[o].kind /\ q.got = op[o].got /\ q.pc = "body"
      /\ q.browser = b /\ ~q.restores
  BY <1>1 DEF Requests, Places, Filling
<1> HIDE DEF q
<1>3. b \in Browsers /\ page \in Pages
  BY <1>1, FormsAreKept
<1>4. /\ browser'[b].page = page /\ page.title = o /\ page.at = "form"
      /\ page.note = browser[b].page.note
  <2>1. browser[b].page \in Pages /\ browser[b].page.at = "form"
    BY <1>1, FormsAreKept
  <2>2. /\ page.title = o /\ page.at = browser[b].page.at /\ page.note = browser[b].page.note
    BY <2>1 DEF Pages
  <2> HIDE DEF page
  <2> QED BY <1>1, <1>3, <2>1, <2>2, PageIsShown
<1> HIDE DEF page
<1>5. PlaceOK(o, q, holder', expired)
  <2>1. PlaceOK(o, op[o], holder, expired)
    BY DEF PageIInv, PlacesOK
  <2> QED BY <1>1, <1>2, <2>1 DEF PlaceOK, Hands, Opening, Filling, Submitting
<1>6. OwnShown(o, q)
  <2> SUFFICES ASSUME o \notin meddled', q.kind \in Published
               PROVE  active \in Browsers /\ b = active /\ PageShows(o, "body", browser'[active])
    BY <1>1, <1>2 DEF OwnShown
  <2>1. o \in InFlight \ meddled
    BY <1>1, <1>2, TouchIsSeen DEF InFlight, Publication, Published
  <2>2. active \in Browsers /\ b = active /\ PageShows(o, "title", browser[b])
    BY <1>1, <2>1 DEF PageIInv, OwnPages
  <2> QED BY <1>4, <2>2 DEF PageShows, Filling
<1>7. /\ Moves(o, q) /\ Reports(o, q) /\ ~Hands(op[o]) /\ ~Hands(q) /\ q.pc # "launch"
      /\ cookies' \in {"absent"} \cup Signed
      /\ op[o].pc \in Opening \cup Filling \cup Submitting
  BY <1>1, <1>2, <1>5, LocksStay, NothingReported
     DEF Moves, Hands, Filling, PageIInv, PageTypeOK
<1> HIDE DEF b
<1> QED BY <1>1, <1>3, <1>6, <1>7, TouchMove

\* So is the text, after which a preview may end and a publication goes on.
LEMMA PageBodyKeeps ==
    ASSUME PageIInv, NEW o \in PageOps, WriteBody(o) PROVE PageIInv'
<1> DEFINE b == op[o].browser
           page == [browser[b].page EXCEPT !.body = o]
<1>1. /\ op[o].pc = "body" /\ ~op[o].restores /\ op[o] \in Requests /\ FormShown(b)
      /\ UNCHANGED <<active, cookies, expired, ending, clicked, dropped>>
      /\ browser' = [browser EXCEPT ![b].page = page] /\ Touch(o)
  BY DEF WriteBody, PageAt, PageIInv, PageTypeOK
<1>2. b \in Browsers /\ page \in Pages
  BY <1>1, FormsAreKept
<1>3. /\ browser'[b].page = page /\ page.body = o /\ page.at = "form"
      /\ page.note = browser[b].page.note /\ page.title = browser[b].page.title
  <2>1. browser[b].page \in Pages /\ browser[b].page.at = "form"
    BY <1>1, FormsAreKept
  <2>2. /\ page.body = o /\ page.at = browser[b].page.at
        /\ page.note = browser[b].page.note /\ page.title = browser[b].page.title
    BY <2>1 DEF Pages
  <2> HIDE DEF page
  <2> QED BY <1>1, <1>2, <2>1, <2>2, PageIsShown
<1> HIDE DEF page
<1>4. /\ ~Hands(op[o]) /\ cookies' \in {"absent"} \cup Signed
      /\ op[o].pc \in Opening \cup Filling \cup Submitting
  BY <1>1 DEF Hands, Filling, PageIInv, PageTypeOK
<1>5. CASE PageEnd(o, "done")
  <2>1. PICK q : /\ Moves(o, q) /\ ~Hands(q) /\ q.pc = "done" /\ q.got = op[o].got
                 /\ OwnShown(o, q)
    BY <1>1, <1>5, PageEnds
  <2>2. Reports(o, q)
    BY <1>1, <2>1, NothingReported
  <2> HIDE DEF b
  <2> QED BY <1>1, <1>2, <1>4, <2>1, <2>2, TouchMove
<1>6. ASSUME NEW pc \in {"reverify", "keep"}, pc = "reverify" <=> Publication(o),
             PageGoto(o, pc), UNCHANGED holder
      PROVE  PageIInv'
  <2> DEFINE q == [op[o] EXCEPT !.pc = pc]
  <2>1. op' = [op EXCEPT ![o] = q]
    BY <1>6 DEF PageGoto
  <2>2. /\ q \in Requests /\ q.kind = op[o].kind /\ q.got = op[o].got /\ q.pc = pc
        /\ q.browser = b /\ ~q.restores
    BY <1>1 DEF Requests, Places, Submitting
  <2> HIDE DEF q
  <2>3. PlaceOK(o, q, holder', expired)
    <3>1. PlaceOK(o, op[o], holder, expired)
      BY DEF PageIInv, PlacesOK
    <3> QED BY <1>1, <1>6, <2>2, <3>1
            DEF PlaceOK, Hands, Opening, Filling, Submitting, Publication, Published
  <2>4. OwnShown(o, q)
    <3> SUFFICES ASSUME o \notin meddled', q.kind \in Published
                 PROVE  active \in Browsers /\ b = active
                        /\ PageShows(o, "reverify", browser'[active])
      BY <1>1, <1>6, <2>2 DEF OwnShown, Publication, Published
    <3>1. o \in InFlight \ meddled
      BY <1>1, <2>2, TouchIsSeen DEF InFlight, Publication, Published
    <3>2. active \in Browsers /\ b = active /\ PageShows(o, "body", browser[b])
      BY <1>1, <3>1 DEF PageIInv, OwnPages
    <3> QED BY <1>3, <3>2 DEF PageShows, Filling
  <2>5. Moves(o, q) /\ Reports(o, q) /\ ~Hands(q) /\ q.pc # "launch"
    BY <1>1, <1>6, <2>1, <2>2, <2>3, LocksStay, NothingReported DEF Moves, Hands
  <2> HIDE DEF b
  <2> QED BY <1>1, <1>2, <1>4, <2>4, <2>5, TouchMove
<1> QED BY <1>5, <1>6 DEF WriteBody

\* The click: what it submits is the publication's own draft, in its own account,
\* unless another request drove the page meanwhile.
LEMMA PageClickKeeps ==
    ASSUME PageIInv, NEW o \in PageOps, Click(o) PROVE PageIInv'
<1> DEFINE b == op[o].browser
           x == browser[b]
           taken == x.who # "none" /\ Nobody \notin {x.page.title, x.page.body}
<1>1. /\ op[o].pc \in {"click", "store"} /\ ~op[o].restores /\ op[o] \in Requests
      /\ FormShown(b) /\ Touch(o)
      /\ UNCHANGED <<active, cookies, expired, ending, dropped>>
  BY DEF Click, PageAt, PageIInv, PageTypeOK
<1>2. b \in Browsers /\ x \in PageBrowsers /\ x.who \in Signed /\ x.page \in Pages
  BY <1>1 DEF FormShown, Open, PageIInv, PageTypeOK, PageBrowsers
<1>3. PICK page \in {Studio("none"), x.page, Studio(x.who), NotePage(o)} :
         browser' = [browser EXCEPT ![b].page = page]
  BY DEF Click
<1>4. page \in Pages
  BY <1>2, <1>3, PagesAreMade DEF Signed, Texts
<1>5. /\ ~Hands(op[o]) /\ cookies' \in {"absent"} \cup Signed
      /\ op[o].kind # "publish" \/ op[o].pc \in Opening \cup Filling \cup Submitting
  BY <1>1 DEF Hands, Submitting, PageIInv, PageTypeOK, PlacesOK, PlaceOK
<1>6. CASE op[o].pc = "store"
  <2>1. PageEnd(o, "done") /\ UNCHANGED clicked
    BY <1>1, <1>6 DEF Click, PageAt
  <2>2. PICK q : /\ Moves(o, q) /\ ~Hands(q) /\ q.pc = "done" /\ q.got = op[o].got
                 /\ OwnShown(o, q)
    BY <1>1, <2>1, PageEnds
  <2>3. Reports(o, q)
    BY <2>1, <2>2, NothingReported
  <2> HIDE DEF x, b
  <2> QED BY <1>1, <1>2, <1>3, <1>4, <1>5, <2>2, <2>3, TouchMove
<1>7. CASE op[o].pc = "click"
  <2> DEFINE q == [op[o] EXCEPT !.pc = "read"]
             click == [by |-> o, as |-> x.who, title |-> x.page.title, body |-> x.page.body]
  <2>1. /\ op' = [op EXCEPT ![o] = q] /\ UNCHANGED holder
        /\ clicked' = IF taken THEN clicked \cup {click} ELSE clicked
    BY <1>1, <1>7 DEF Click, PageAt, PageGoto
  <2>2. /\ q \in Requests /\ q.kind = op[o].kind /\ q.got = op[o].got /\ q.pc = "read"
        /\ q.browser = b /\ ~q.restores
    BY <1>1 DEF Requests, Places, Submitting
  <2> HIDE DEF q
  <2>3. PlaceOK(o, op[o], holder, expired)
    BY DEF PageIInv, PlacesOK
  <2>4. PlaceOK(o, q, holder', expired) /\ op[o].kind \in Published
    BY <1>7, <2>1, <2>2, <2>3 DEF PlaceOK, Hands, Opening, Filling, Submitting
  <2>5. ASSUME o \notin meddled'
        PROVE  active \in Browsers /\ b = active /\ PageShows(o, "click", x)
    <3>1. o \in InFlight \ meddled
      BY <1>1, <1>7, <2>4, <2>5, TouchIsSeen DEF InFlight, Publication, Published
    <3> QED BY <1>7, <3>1 DEF PageIInv, OwnPages
  <2>6. OwnShown(o, q)
    <3> SUFFICES ASSUME o \notin meddled'
                 PROVE  active \in Browsers /\ b = active
                        /\ PageShows(o, "read", browser'[active])
      BY <1>1, <2>2 DEF OwnShown
    <3>1. active \in Browsers /\ b = active /\ PageShows(o, "click", x)
      BY <2>5
    <3>2. browser'[active].page = page
      BY <1>2, <1>3, <3>1, PageIsShown
    <3>3. page.note \in {o, Nobody}
      BY <1>2, <1>3, <3>1, PagesAreMade DEF PageShows, Signed, Texts
    <3> QED BY <3>1, <3>2, <3>3 DEF PageShows, Filling
  <2>7. Reports(o, q)
    <3>1. click \in Clicks
      BY <1>2 DEF Clicks, Pages
    <3>2. clicked' \subseteq Clicks
      BY <2>1, <3>1 DEF PageIInv, PageTypeOK
    <3>3. ASSUME NEW k \in clicked' \ clicked, k.by \notin meddled'
          PROVE  k.title = k.by /\ k.body = k.by /\ k.as = "mine"
      <4>1. k = click /\ x.who # "none"
        BY <2>1, <3>3
      <4>2. k.by = o /\ k.as = x.who /\ k.title = x.page.title /\ k.body = x.page.body
        BY <4>1
      <4>3. PageShows(o, "click", x)
        BY <2>5, <3>3, <4>2
      <4> QED BY <4>1, <4>2, <4>3 DEF PageShows
    <3> QED BY <2>2, <3>2, <3>3 DEF Reports
  <2>8. Moves(o, q) /\ ~Hands(q) /\ q.pc # "launch"
    BY <1>1, <2>1, <2>2, <2>4, LocksStay DEF Moves, Hands
  <2> HIDE DEF x, b
  <2> QED BY <1>1, <1>2, <1>3, <1>4, <1>5, <2>6, <2>7, <2>8, TouchMove
<1> QED BY <1>1, <1>6, <1>7

\* A result takes the note that its page shows: its own or none, unless meddled with.
LEMMA PageReadKeeps ==
    ASSUME PageIInv, NEW o \in PageOps, ReadResult(o) PROVE PageIInv'
<1> DEFINE b == op[o].browser
           q == [op[o] EXCEPT !.pc = "done", !.browser = NoBrowser, !.got = browser[b].page.note]
<1>1. /\ op[o].pc = "read" /\ ~op[o].restores /\ op[o] \in Requests /\ Open(b)
      /\ UNCHANGED <<active, browser, cookies, expired, ending, clicked, meddled, dropped>>
      /\ op' = [op EXCEPT ![o] = q] /\ holder' = Released(o, Locks)
  BY DEF ReadResult, PageAt, PageIInv, PageTypeOK
<1>2. browser[b].page.note \in Texts \cup {"older"}
  BY <1>1 DEF Open, PageIInv, PageTypeOK, PageBrowsers, Pages
<1>3. /\ q \in Requests /\ q.kind = op[o].kind /\ q.pc = "done" /\ ~q.restores
      /\ q.got = browser[b].page.note
  BY <1>1, <1>2 DEF Requests, Places
<1> HIDE DEF q
<1>4. o \notin meddled => q.got \in {o, Nobody}
  <2> SUFFICES ASSUME o \notin meddled PROVE q.got \in {o, Nobody}
    OBVIOUS
  <2>1. op[o].kind \in Published
    BY <1>1 DEF PageIInv, PlacesOK, PlaceOK, Submitting
  <2>2. o \in InFlight
    BY <1>1, <2>1 DEF InFlight, Publication, Published
  <2>3. b = active /\ PageShows(o, "read", browser[b])
    BY <1>1, <2>2 DEF PageIInv, OwnPages
  <2> QED BY <1>3, <2>3 DEF PageShows
<1>5. Reports(o, q)
  BY <1>1, <1>4 DEF Reports, PageIInv, PageTypeOK
<1>6. LocksKept(o)
  <2>1. \A l \in Locks : (IF l \in Locks /\ holder[l] = o THEN Nobody ELSE holder[l]) \in Texts
    BY DEF PageIInv, PageTypeOK, Texts
  <2>2. holder' \in [Locks -> Texts]
    BY <1>1, <2>1 DEF Released
  <2> QED BY <1>1, <2>2 DEF LocksKept, Released
<1>7. PlaceOK(o, q, holder', expired) /\ OwnShown(o, q) /\ ~Hands(q) /\ ~Hands(op[o])
  BY <1>1, <1>3 DEF PlaceOK, OwnShown, Hands, Opening, Filling, Submitting, Flight
<1>8. Moves(o, q) /\ q.pc # "launch" /\ cookies' \in {"absent"} \cup Signed
  BY <1>1, <1>3, <1>6, <1>7 DEF Moves, PageIInv, PageTypeOK
<1> QED BY <1>1, <1>5, <1>7, <1>8, QuietMove

\* The health check and the syncs load a page of theirs, which every publication
\* under way sees.
LEMMA PageNavigateKeeps ==
    ASSUME PageIInv, NEW o \in PageOps, Navigate(o) PROVE PageIInv'
<1> DEFINE b == op[o].browser
<1>1. /\ op[o].pc = "goto" /\ ~op[o].restores /\ Open(b) /\ Touch(o) /\ PageEnd(o, "done")
      /\ UNCHANGED <<active, cookies, expired, ending, clicked, dropped>>
  BY DEF Navigate, PageAt
<1>2. PICK page \in {Studio(browser[b].who), NotePage("older")} :
         browser' = [browser EXCEPT ![b].page = page]
  BY DEF Navigate
<1>3. b \in Browsers /\ browser[b].who \in Signed
  BY <1>1 DEF Open, PageIInv, PageTypeOK, PageBrowsers
<1>4. page \in Pages
  BY <1>2, <1>3, PagesAreMade
<1>5. /\ op[o].kind # "publish" /\ ~Hands(op[o]) /\ cookies' \in {"absent"} \cup Signed
  BY <1>1 DEF PageIInv, PlacesOK, PlaceOK, PageTypeOK, Hands
<1>6. PICK q : /\ Moves(o, q) /\ ~Hands(q) /\ q.pc = "done" /\ q.got = op[o].got
               /\ OwnShown(o, q)
  BY <1>1, PageEnds
<1>7. Reports(o, q)
  BY <1>1, <1>6, NothingReported
<1> HIDE DEF b
<1> QED BY <1>1, <1>2, <1>3, <1>4, <1>5, <1>6, <1>7, TouchMove

\* A detection judges who is signed in, and what it saves is that.
LEMMA SavedIsSomeone ==
    ASSUME PageIInv, NEW x \in PageBrowsers, NEW r
    PROVE  /\ SavedAfter(r, x) \in {"absent"} \cup Signed
           /\ r = "verified" /\ r \in Detected(x) => x.who = "mine"
BY DEF SavedAfter, PageIInv, PageTypeOK, PageBrowsers, Detected

\* start shows the page to sign in at, and saves the session that it finds there.
LEMMA PageShowKeeps ==
    ASSUME PageIInv, NEW o \in PageOps, StartShow(o) PROVE PageIInv'
<1> DEFINE b == op[o].browser
           page == Studio(browser[b].who)
           loaded == [browser[b] EXCEPT !.page = page]
<1>1. /\ op[o].pc = "show" /\ ~Hands(op[o]) /\ PageEnd(o, "done")
      /\ UNCHANGED <<active, expired, ending, clicked, dropped>>
  BY DEF StartShow, PageAt, Hands
<1>2. CASE ~Open(b)
  <2>1. UNCHANGED <<browser, meddled, cookies>>
    BY <1>2 DEF StartShow
  <2>2. cookies' \in {"absent"} \cup Signed
    BY <2>1 DEF PageIInv, PageTypeOK
  <2> QED BY <1>1, <2>1, <2>2, QuietEnd
<1>3. CASE Open(b)
  <2>1. /\ browser' = [browser EXCEPT ![b] = loaded] /\ Touch(o)
        /\ \E r \in Detected(loaded) : cookies' = SavedAfter(r, loaded)
    BY <1>3 DEF StartShow
  <2>2. b \in Browsers /\ browser[b] \in PageBrowsers /\ browser[b].who \in Signed
    BY <1>3 DEF Open, PageIInv, PageTypeOK, PageBrowsers
  <2>3. page \in Pages
    BY <2>2, PagesAreMade
  <2>4. browser' = [browser EXCEPT ![b].page = page]
    BY <2>1
  <2> HIDE DEF page
  <2>5. loaded \in PageBrowsers
    BY <2>2, <2>3 DEF PageBrowsers
  <2> HIDE DEF loaded
  <2>6. cookies' \in {"absent"} \cup Signed
    BY <2>1, <2>5, SavedIsSomeone
  <2>7. op[o].kind # "publish"
    BY <1>1 DEF PageIInv, PlacesOK, PlaceOK
  <2>8. PICK q : /\ Moves(o, q) /\ ~Hands(q) /\ q.pc = "done" /\ q.got = op[o].got
                 /\ OwnShown(o, q)
    BY <1>1, PageEnds
  <2>9. Reports(o, q)
    BY <1>1, <2>8, NothingReported
  <2> HIDE DEF b
  <2> QED BY <1>1, <2>1, <2>2, <2>3, <2>4, <2>6, <2>7, <2>8, <2>9, TouchMove
<1> QED BY <1>2, <1>3

\* A request whose status call does not sign it in ends.
LEMMA AnswerEnds ==
    ASSUME NEW o \in PageOps, NEW r, Answer(o, r), ~GoesOn(o, r)
    PROVE  \E pc \in {"done", "failed"} : PageEnd(o, pc)
BY DEF Answer

\* Another goes on to its next place.
LEMMA AnswerGoes ==
    ASSUME PageIInv, NEW o \in PageOps, NEW r, Answer(o, r), GoesOn(o, r),
           op[o].pc \in Asking, op[o].pc = "new" => op[o].kind # "publish",
           active' \in Browsers \cup {NoBrowser}, UNCHANGED expired
    PROVE  \E q : /\ Moves(o, q) /\ ~Hands(q) /\ q.pc = NextPlace[op[o].pc]
                  /\ q.got = op[o].got /\ q.browser = active' /\ ~q.restores /\ q.pc # "launch"
<1> DEFINE q == [op[o] EXCEPT !.pc = NextPlace[op[o].pc], !.restores = FALSE,
                              !.browser = active']
<1>1. op' = [op EXCEPT ![o] = q] /\ holder' = Released(o, {"browser"})
  BY DEF Answer
<1>2. /\ op[o].pc = "verify" => NextPlace[op[o].pc] = "page"
      /\ op[o].pc = "reverify" => NextPlace[op[o].pc] = "again"
      /\ op[o].pc = "keep" => NextPlace[op[o].pc] = "resume"
      /\ op[o].pc = "page" => NextPlace[op[o].pc] = "open"
      /\ op[o].pc = "again" => NextPlace[op[o].pc] = "click"
      /\ op[o].pc = "resume" => NextPlace[op[o].pc] = "store"
      /\ op[o].pc = "new" => NextPlace[op[o].pc] = "goto"
  BY DEF NextPlace
<1>3. NextPlace[op[o].pc] \in Places /\ op[o] \in Requests
  BY <1>2 DEF Places, Opening, Submitting, Asking, PageIInv, PageTypeOK
<1>4. /\ q \in Requests /\ q.kind = op[o].kind /\ q.got = op[o].got
      /\ q.pc = NextPlace[op[o].pc] /\ ~q.restores /\ q.browser = active'
  BY <1>3 DEF Requests
<1> HIDE DEF q
<1>5. LocksKept(o) /\ holder'["publish"] = holder["publish"]
  <2>1. \A l \in Locks : (IF l \in {"browser"} /\ holder[l] = o THEN Nobody ELSE holder[l]) \in Texts
    BY DEF PageIInv, PageTypeOK, Texts
  <2>2. holder' \in [Locks -> Texts]
    BY <1>1, <2>1 DEF Released
  <2> QED BY <1>1, <2>2 DEF LocksKept, Released, Locks
<1>6. PlaceOK(o, op[o], holder, expired)
  BY DEF PageIInv, PlacesOK
<1>7. ~Hands(q) /\ q.pc # "launch"
  BY <1>2, <1>4 DEF Hands, Asking
<1>8. PlaceOK(o, q, holder', expired)
  BY <1>2, <1>4, <1>5, <1>6, <1>7 DEF PlaceOK, Hands, Opening, Filling, Submitting, Asking
<1> QED BY <1>1, <1>4, <1>5, <1>7, <1>8 DEF Moves

\* A status call at an active session, or with no saved one: before its submission a
\* publication learns that its own account is signed in.
LEMMA PageStatusKeeps ==
    ASSUME PageIInv, NEW o \in PageOps, Status(o) PROVE PageIInv'
<1>1. /\ ~op[o].restores /\ op[o].pc \in Asking /\ ~Hands(op[o])
      /\ op[o].pc = "new" => op[o].kind # "publish"
      /\ active # NoBrowser => op[o].pc \in {"new", "verify", "reverify", "keep"}
      /\ UNCHANGED <<active, browser, expired, ending, clicked, meddled, dropped>>
  BY DEF Status, Asks, Asking, Hands
<1>2. PICK r : /\ Answer(o, r) /\ cookies' \in {"absent"} \cup Signed
               /\ GoesOn(o, r) => active # NoBrowser /\ r \in Detected(browser[active])
  <2>1. CASE active # NoBrowser
    <3>1. PICK r \in Detected(browser[active]) :
             cookies' = SavedAfter(r, browser[active]) /\ Answer(o, r)
      BY <2>1 DEF Status
    <3>2. browser[active] \in PageBrowsers
      BY <2>1 DEF PageIInv, PageTypeOK
    <3> QED BY <2>1, <3>1, <3>2, SavedIsSomeone
  <2>2. CASE active = NoBrowser
    <3>1. Answer(o, "login_required") /\ cookies' = cookies
      BY <2>2 DEF Status
    <3>2. ~GoesOn(o, "login_required")
      BY DEF GoesOn, Authenticated
    <3> QED BY <3>1, <3>2 DEF PageIInv, PageTypeOK
  <2> QED BY <2>1, <2>2
<1>3. CASE ~GoesOn(o, r)
  BY <1>1, <1>2, <1>3, AnswerEnds, QuietEnd
<1>4. CASE GoesOn(o, r)
  <2>1. active \in Browsers /\ active' = active
    BY <1>1, <1>2, <1>4 DEF PageIInv, PageTypeOK
  <2>2. PICK q : /\ Moves(o, q) /\ ~Hands(q) /\ q.pc = NextPlace[op[o].pc]
                 /\ q.got = op[o].got /\ q.browser = active' /\ ~q.restores /\ q.pc # "launch"
    BY <1>1, <1>2, <1>4, <2>1, AnswerGoes
  <2>3. OwnShown(o, q)
    <3> SUFFICES ASSUME o \notin meddled, q.kind \in Published, q.pc \in Flight
                 PROVE  PageShows(o, q.pc, browser[active])
      BY <1>1, <2>1, <2>2 DEF OwnShown
    <3>1. op[o].pc = "reverify" /\ q.pc = "again"
      BY <1>1, <1>2, <1>4, <2>2 DEF NextPlace, Flight, Filling, Submitting
    <3>2. o \in InFlight \ meddled
      BY <2>2, <3>1 DEF Moves, InFlight, Publication, Published
    <3>3. PageShows(o, "reverify", browser[active])
      BY <3>1, <3>2 DEF PageIInv, OwnPages
    <3>4. r = "verified" /\ browser[active] \in PageBrowsers
      BY <1>4, <2>1, <3>1 DEF GoesOn, PageIInv, PageTypeOK
    <3>5. browser[active].who = "mine"
      BY <1>2, <1>4, <3>4, SavedIsSomeone
    <3> QED BY <3>1, <3>3, <3>5 DEF PageShows, Filling
  <2>4. Reports(o, q)
    BY <1>1, <2>2, NothingReported
  <2> QED BY <1>1, <1>2, <2>2, <2>3, <2>4, QuietMove
<1> QED BY <1>3, <1>4

\* A request launches a browser, which it registers, has in hand, or leaves to nobody.
LEMMA LaunchKeeps ==
    ASSUME PageIInv, NEW o \in PageOps, NEW q, Moves(o, q), ~Hands(op[o]), q.pc # "launch",
           Spare # {}, NEW who \in Signed,
           browser' = [browser EXCEPT ![Fresh] = Launched(who)],
           active' \in {active, Fresh}, UNCHANGED <<ending, cookies>>,
           dropped \subseteq dropped', dropped' \subseteq Browsers,
           Hands(q) => q.browser = Fresh /\ active = NoBrowser /\ active' = NoBrowser,
           Fresh \in {active'} \cup dropped' \/ Hands(q),
           active' = Fresh => ~Running(active) \/ active \in dropped',
           active' = Fresh /\ ~BrowserLeaseLapsed =>
              \A p \in PageOps \ {o} : ~op[p].restores /\ op[p].pc # "launch",
           meddled \subseteq meddled', meddled' \subseteq PageOps,
           OthersSee(o), OwnShown(o, q), Reports(o, q)
    PROVE  PageIInv'
<1> USE DEF PageIInv
<1>1. op \in [PageOps -> Requests] /\ op' = [op EXCEPT ![o] = q] /\ expired' = expired
  BY DEF PageTypeOK, Moves
<1>2. Fresh \in Browsers /\ browser[Fresh].state = "unused"
  BY FreshIsSpare
<1>3. Launched(who) \in PageBrowsers /\ Launched(who).state = "open"
  BY PagesAreMade
<1>4. /\ browser' \in [Browsers -> PageBrowsers] /\ browser'[Fresh].state = "open"
      /\ \A b \in Browsers \ {Fresh} : browser'[b] = browser[b]
  BY <1>2, <1>3 DEF PageTypeOK
<1>5. PageTypes
  BY <1>2, <1>4 DEF PageTypes, PageTypeOK
<1>6. \A p \in PageOps \ {o} : op'[p] = op[p]
  BY <1>1
<1>7. HandsOK'
  <2>1. active' \in Browsers => browser'[active'].state # "unused"
    BY <1>2, <1>4 DEF HandsOK
  <2>2. ASSUME NEW p \in PageOps \ {o}, Hands(op'[p])
        PROVE  /\ op'[p] = op[p] /\ op[p].browser \in Browsers \ {Fresh, active, active'}
               /\ browser'[op[p].browser].state # "unused"
    BY <1>2, <1>4, <1>6, <2>2 DEF HandsOK
  <2>3. ASSUME Hands(op'[o])
        PROVE  op'[o].browser = Fresh /\ Fresh # active'
    BY <1>1, <1>2, <2>3, PageAssumption
  <2>4. ASSUME NEW p \in PageOps, Hands(op'[p])
        PROVE  /\ op'[p].browser \in Browsers /\ op'[p].browser # active'
               /\ browser'[op'[p].browser].state # "unused"
               /\ \A r \in PageOps : r # p /\ Hands(op'[r]) => op'[r].browser # op'[p].browser
    <3>1. CASE p = o
      BY <1>2, <1>4, <2>2, <2>3, <2>4, <3>1
    <3>2. CASE p # o
      <4>1. op'[p] = op[p] /\ op[p].browser \in Browsers \ {Fresh, active, active'}
            /\ browser'[op[p].browser].state # "unused"
        BY <2>2, <2>4, <3>2
      <4>2. ASSUME NEW r \in PageOps, r # p, Hands(op'[r]) PROVE op'[r].browser # op[p].browser
        <5>1. CASE r = o
          BY <2>3, <4>1, <4>2, <5>1
        <5>2. CASE r # o
          BY <1>6, <2>4, <4>1, <4>2, <5>2 DEF HandsOK
        <5> QED BY <5>1, <5>2
      <4> QED BY <4>1, <4>2
    <3> QED BY <3>1, <3>2
  <2> QED BY <2>1, <2>4 DEF HandsOK, Hands
<1>8. Alone'
  <2> SUFFICES ASSUME ~BrowserLeaseLapsed, NEW p \in PageOps
               PROVE  /\ op'[p].restores => active' = NoBrowser
                      /\ op'[p].pc = "launch" => ~Running(active)'
    BY <1>1 DEF Alone, BrowserLeaseLapsed
  <2>1. CASE p = o
    BY <1>1, <2>1 DEF Hands
  <2>2. CASE p # o
    <3>1. active' = active /\ ~Running(active) => ~Running(active)'
      BY <1>2, <1>4, PageAssumption DEF Running, HandsOK, PageTypeOK
    <3>2. op'[p] = op[p] /\ (op[p].restores \/ op[p].pc = "launch" => active' = active)
      BY <1>6, <2>2
    <3> QED BY <3>1, <3>2 DEF Alone
  <2> QED BY <2>1, <2>2
<1>9. NoStrayBrowser'
  <2> SUFFICES ASSUME NEW b \in Browsers, Running(b)', b \notin {active'} \cup ending \cup dropped'
               PROVE  \E p \in PageOps : Hands(op'[p]) /\ op'[p].browser = b
    BY DEF NoStrayBrowser, Hands
  <2>1. CASE b = Fresh
    BY <1>1, <2>1
  <2>2. CASE b # Fresh
    <3>1. Running(b) /\ b # active
      BY <1>4, <2>2 DEF Running
    <3>2. PICK p \in PageOps : Hands(op[p]) /\ op[p].browser = b
      BY <3>1 DEF NoStrayBrowser, Hands
    <3> QED BY <1>6, <3>2
  <2> QED BY <2>1, <2>2
<1> QED BY <1>5, <1>7, <1>8, <1>9, RequestMoves

\* A request lets go of the browser that it had in hand.
LEMMA HandsDown ==
    ASSUME PageIInv, NEW o \in PageOps, NEW q, Moves(o, q), Hands(op[o]), ~Hands(q),
           q.pc # "launch", NEW x \in PageBrowsers,
           browser' = [browser EXCEPT ![op[o].browser] = x], x.state # "unused",
           active' \in {active, op[o].browser}, UNCHANGED ending,
           cookies' \in {"absent"} \cup Signed,
           dropped \subseteq dropped', dropped' \subseteq Browsers,
           x.state \in {"open", "left"} => op[o].browser \in {active'} \cup dropped',
           active' # active => ~Running(active) \/ active \in dropped',
           active' # active /\ ~BrowserLeaseLapsed =>
              \A p \in PageOps \ {o} : ~op[p].restores /\ op[p].pc # "launch",
           meddled \subseteq meddled', meddled' \subseteq PageOps,
           OthersSee(o), OwnShown(o, q), Reports(o, q)
    PROVE  PageIInv'
<1> USE DEF PageIInv
<1> DEFINE b == op[o].browser
<1>1. op \in [PageOps -> Requests] /\ op' = [op EXCEPT ![o] = q] /\ expired' = expired
  BY DEF PageTypeOK, Moves
<1>2. b \in Browsers /\ b # active
  BY DEF HandsOK
<1>3. /\ browser' \in [Browsers -> PageBrowsers] /\ browser'[b] = x
      /\ \A c \in Browsers \ {b} : browser'[c] = browser[c]
  BY <1>2 DEF PageTypeOK
<1>4. PageTypes
  BY <1>2, <1>3 DEF PageTypes, PageTypeOK
<1>5. op'[o] = q /\ \A p \in PageOps \ {o} : op'[p] = op[p]
  BY <1>1
<1>6. \A p \in PageOps \ {o} : Hands(op[p]) => op[p].browser # b
  BY DEF HandsOK
<1>7. HandsOK'
  <2>1. active' \in Browsers => browser'[active'].state # "unused"
    BY <1>2, <1>3 DEF HandsOK
  <2>2. ASSUME NEW p \in PageOps, Hands(op'[p])
        PROVE  /\ op'[p].browser \in Browsers /\ op'[p].browser # active'
               /\ browser'[op'[p].browser].state # "unused"
               /\ \A r \in PageOps : r # p /\ Hands(op'[r]) => op'[r].browser # op'[p].browser
    <3>1. p # o /\ op'[p] = op[p]
      BY <1>5, <2>2
    <3>2. \A r \in PageOps : Hands(op'[r]) => op'[r] = op[r]
      BY <1>5
    <3> QED BY <1>3, <1>6, <2>2, <3>1, <3>2 DEF HandsOK
  <2> QED BY <2>1, <2>2 DEF HandsOK, Hands
<1>8. Alone'
  <2> SUFFICES ASSUME ~BrowserLeaseLapsed, NEW p \in PageOps
               PROVE  /\ op'[p].restores => active' = NoBrowser
                      /\ op'[p].pc = "launch" => ~Running(active)'
    BY <1>1 DEF Alone, BrowserLeaseLapsed
  <2>1. CASE p = o
    BY <1>5, <2>1 DEF Hands
  <2>2. CASE p # o
    <3>1. active' = active /\ ~Running(active) => ~Running(active)'
      BY <1>2, <1>3 DEF Running
    <3>2. op'[p] = op[p] /\ (op[p].restores \/ op[p].pc = "launch" => active' = active)
      BY <1>5, <2>2
    <3> QED BY <3>1, <3>2 DEF Alone
  <2> QED BY <2>1, <2>2
<1>9. NoStrayBrowser'
  <2> SUFFICES ASSUME NEW c \in Browsers, Running(c)', c \notin {active'} \cup ending \cup dropped'
               PROVE  \E p \in PageOps : Hands(op'[p]) /\ op'[p].browser = c
    BY DEF NoStrayBrowser, Hands
  <2>1. c # b
    BY <1>3 DEF Running
  <2>2. Running(c) /\ c # active
    BY <1>3, <2>1 DEF Running
  <2>3. PICK p \in PageOps : Hands(op[p]) /\ op[p].browser = c
    BY <2>2 DEF NoStrayBrowser, Hands
  <2> QED BY <1>5, <2>1, <2>3
<1> QED BY <1>4, <1>7, <1>8, <1>9, RequestMoves

\* While the leases of account-browser last, its holder is alone at starting and restoring.
LEMMA HolderIsAlone ==
    ASSUME PageIInv, NEW o \in PageOps, ~BrowserLeaseLapsed, holder["browser"] \in {o, Nobody}
    PROVE  \A p \in PageOps \ {o} : ~op[p].restores /\ op[p].pc # "launch"
BY PageAssumption DEF PageIInv, PlacesOK, PlaceOK, Hands, BrowserLeaseLapsed

\* While there is no active session, no publication under way is left untouched.
LEMMA NoneUnseen ==
    ASSUME PageIInv, active = NoBrowser, meddled \subseteq meddled'
    PROVE  InFlight \subseteq meddled /\ \A o \in PageOps : OthersSee(o)
BY PageAssumption DEF PageIInv, OwnPages, OthersSee

\* A status call launches a browser with the saved session.
LEMMA PageStatusLaunchKeeps ==
    ASSUME PageIInv, NEW o \in PageOps, StatusLaunch(o) PROVE PageIInv'
<1>1. /\ ~op[o].restores /\ op[o].pc \in Asking /\ ~Hands(op[o]) /\ op[o] \in Requests
      /\ op[o].pc = "new" => op[o].kind # "publish"
      /\ active = NoBrowser /\ Spare # {} /\ holder["browser"] = Nobody
      /\ UNCHANGED <<active, cookies, expired, ending, clicked, meddled>>
  BY DEF StatusLaunch, Asks, Asking, Hands, PageIInv, PageTypeOK
<1>2. /\ Fresh \in Browsers /\ active' # Fresh /\ meddled' \subseteq PageOps
      /\ InFlight \subseteq meddled /\ OthersSee(o) /\ dropped \subseteq Browsers
  BY <1>1, FreshIsSpare, NoneUnseen, PageAssumption DEF PageIInv, PageTypeOK
<1>3. CASE \E who \in RestoredAs : Launch(who)
           /\ op' = [op EXCEPT ![o].restores = TRUE, ![o].browser = Fresh]
           /\ holder' = [holder EXCEPT !["browser"] = o] /\ UNCHANGED dropped
  <2> DEFINE q == [op[o] EXCEPT !.restores = TRUE, !.browser = Fresh]
  <2>1. PICK who \in Signed : browser' = [browser EXCEPT ![Fresh] = Launched(who)]
    BY <1>3 DEF Launch, RestoredAs, PageIInv, PageTypeOK, Signed
  <2>2. op' = [op EXCEPT ![o] = q]
    BY <1>3
  <2>3. /\ q \in Requests /\ q.kind = op[o].kind /\ q.got = op[o].got /\ q.pc = op[o].pc
        /\ q.browser = Fresh /\ q.restores
    BY <1>1, <1>2 DEF Requests
  <2> HIDE DEF q
  <2>4. LocksKept(o) /\ holder'["browser"] = o /\ holder'["publish"] = holder["publish"]
    BY <1>1, <1>3, BrowserLockTaken DEF Locks
  <2>5. PlaceOK(o, op[o], holder, expired)
    BY DEF PageIInv, PlacesOK
  <2>6. PlaceOK(o, q, holder', expired)
    BY <1>1, <2>3, <2>4, <2>5 DEF PlaceOK, Hands, Opening, Filling, Submitting, Asking
  <2>7. OwnShown(o, q)
    <3> SUFFICES ASSUME q.kind \in Published, q.pc \in Flight PROVE o \in InFlight
      BY <1>1, <1>2 DEF OwnShown
    <3> QED BY <2>3 DEF InFlight, Publication, Published, Flight, Filling, Submitting
  <2>8. /\ Moves(o, q) /\ Reports(o, q) /\ Hands(q) /\ q.pc # "launch"
    BY <1>1, <2>2, <2>3, <2>4, <2>6, NothingReported DEF Moves, Hands, Asking
  <2> QED BY <1>1, <1>2, <1>3, <2>1, <2>3, <2>7, <2>8, LaunchKeeps
<1>4. CASE LaunchRaises /\ Answer(o, "raised")
  <2>1. PICK pc \in {"done", "failed"} : PageEnd(o, pc)
    BY <1>4, AnswerEnds DEF GoesOn, Authenticated
  <2>2. PICK q : /\ Moves(o, q) /\ ~Hands(q) /\ q.pc = pc /\ q.got = op[o].got
                 /\ OwnShown(o, q)
    BY <1>1, <2>1, PageEnds
  <2>3. Reports(o, q)
    BY <1>1, <2>2, NothingReported
  <2>4. browser' = [browser EXCEPT ![Fresh] = Launched("none")] /\ dropped' = dropped \cup {Fresh}
    BY <1>4 DEF LaunchRaises, Launch
  <2> QED BY <1>1, <1>2, <2>2, <2>3, <2>4, LaunchKeeps DEF Signed
<1> QED BY <1>3, <1>4 DEF StatusLaunch

\* It registers that browser or lets go of it.
LEMMA PageStatusRestoredKeeps ==
    ASSUME PageIInv, NEW o \in PageOps, StatusRestored(o) PROVE PageIInv'
<1> DEFINE b == op[o].browser
           x == [browser[b] EXCEPT !.page = Studio(browser[b].who)]
<1>1. /\ op[o].restores /\ Hands(op[o]) /\ UNCHANGED <<expired, ending, clicked>>
      /\ op[o].pc \in Asking /\ (op[o].pc = "new" => op[o].kind # "publish")
      /\ op[o] \in Requests
  BY DEF StatusRestored, Hands, PageIInv, PageTypeOK, PlacesOK, PlaceOK
<1>2. /\ b \in Browsers /\ b # active /\ browser[b].state # "unused"
      /\ browser[b] \in PageBrowsers /\ browser[b].who \in Signed
      /\ dropped \subseteq Browsers /\ meddled \subseteq PageOps /\ clicked \subseteq Clicks
  BY <1>1 DEF PageIInv, HandsOK, PageTypeOK, PageBrowsers
<1>3. Studio(browser[b].who) \in Pages
  BY <1>2, PagesAreMade
<1>4. /\ x \in PageBrowsers /\ x.state = browser[b].state
      /\ \A s \in {"open", "left", "closed"} : /\ [x EXCEPT !.state = s] \in PageBrowsers
                                               /\ [x EXCEPT !.state = s].state = s
  BY <1>2, <1>3 DEF PageBrowsers
<1> HIDE DEF x
<1>5. o \notin InFlight \ meddled /\ op[o].pc # "launch"
  BY <1>1 DEF PageIInv, OwnPages, Asking
<1>6. ~BrowserLeaseLapsed =>
         /\ active = NoBrowser
         /\ \A p \in PageOps \ {o} : ~op[p].restores /\ op[p].pc # "launch"
  <2>1. ~BrowserLeaseLapsed => holder["browser"] = o
    BY <1>1 DEF PageIInv, PlacesOK, PlaceOK, BrowserLeaseLapsed
  <2> QED BY <1>1, <2>1, HolderIsAlone DEF PageIInv, Alone
<1>7. PICK r \in Detected(x) :
         /\ cookies' = SavedAfter(r, x)
         /\ \/ /\ r \in Authenticated
               /\ active' = b /\ browser' = [browser EXCEPT ![b] = x]
               /\ dropped' = dropped \cup Displaced(active)
               /\ Touch(o) /\ Answer(o, r)
            \/ /\ r \notin Authenticated /\ Finally
               /\ \E c \in CloseOf(b) :
                     /\ browser' = [browser EXCEPT ![b] = [x EXCEPT !.state = c.state]]
                     /\ dropped' = dropped \cup (IF c.raised THEN {b} ELSE {})
               /\ UNCHANGED <<active, meddled>> /\ Answer(o, "raised")
            \/ /\ r \notin Authenticated /\ ~Finally
               /\ browser' = [browser EXCEPT ![b] = x]
               /\ dropped' = dropped \cup Displaced(b)
               /\ UNCHANGED <<active, meddled>> /\ Answer(o, "raised")
  BY DEF StatusRestored, x
<1>8. cookies' \in {"absent"} \cup Signed
  BY <1>4, <1>7, SavedIsSomeone
<1>9. CASE r \in Authenticated
  <2>1. /\ active' = b /\ browser' = [browser EXCEPT ![b] = x]
        /\ dropped' = dropped \cup Displaced(active) /\ Touch(o) /\ Answer(o, r)
    BY <1>7, <1>9
  <2>2. op[o].kind # "publish" \/ op[o].pc \in Opening \cup Filling \cup Submitting
    BY <1>1 DEF Asking, Opening, Filling, Submitting, PageIInv, PlacesOK, PlaceOK
  <2>3. meddled \subseteq meddled' /\ meddled' \subseteq PageOps /\ OthersSee(o)
    BY <2>1, <2>2, TouchIsSeen
  <2>4. /\ Displaced(active) \subseteq Browsers
        /\ ~Running(active) \/ active \in dropped'
    <3>1. ~BrowserLeaseLapsed => ~Running(active)
      BY <1>6, PageAssumption DEF Running
    <3> QED BY <2>1, <3>1 DEF Displaced, Running
  <2>5. PICK q : Moves(o, q) /\ ~Hands(q) /\ q.pc # "launch" /\ q.got = op[o].got
                 /\ OwnShown(o, q)
    <3>1. CASE GoesOn(o, r)
      <4>1. active' \in Browsers \cup {NoBrowser}
        BY <1>2, <2>1
      <4>2. PICK q : /\ Moves(o, q) /\ ~Hands(q) /\ q.pc = NextPlace[op[o].pc]
                     /\ q.got = op[o].got /\ q.browser = active' /\ ~q.restores
                     /\ q.pc # "launch"
        BY <1>1, <2>1, <3>1, <4>1, AnswerGoes
      <4>3. OwnShown(o, q)
        <5> SUFFICES ASSUME o \notin meddled', q.kind \in Published, q.pc \in Flight
                     PROVE  PageShows(o, q.pc, browser'[active'])
          BY <1>2, <2>1, <4>2 DEF OwnShown
        <5>1. op[o].kind \in Published
          BY <4>2 DEF Moves
        <5>2. op[o].pc \notin {"reverify", "again"}
          BY <1>5, <2>3, <5>1 DEF InFlight, Publication, Published
        <5>3. q.pc = "open"
          BY <1>1, <4>2, <5>2 DEF NextPlace, Asking, Flight, Filling, Submitting
        <5> QED BY <5>3 DEF PageShows, Filling
      <4> QED BY <4>2, <4>3
    <3>2. CASE ~GoesOn(o, r)
      <4>1. PICK pc \in {"done", "failed"} : PageEnd(o, pc)
        BY <2>1, <3>2, AnswerEnds
      <4> QED BY <1>1, <4>1, PageEnds
    <3> QED BY <3>1, <3>2
  <2>6. Reports(o, q)
    BY <1>1, <2>5, NothingReported
  <2> HIDE DEF b
  <2> QED BY <1>1, <1>2, <1>4, <1>6, <1>8, <2>1, <2>3, <2>4, <2>5, <2>6, HandsDown DEF b
<1>10. CASE r \notin Authenticated
  <2>1. Answer(o, "raised") /\ UNCHANGED <<active, meddled>>
    BY <1>7, <1>10
  <2>2. PICK pc \in {"done", "failed"} : PageEnd(o, pc)
    BY <2>1, AnswerEnds DEF GoesOn, Authenticated
  <2>3. PICK q : /\ Moves(o, q) /\ ~Hands(q) /\ q.pc = pc /\ q.got = op[o].got
                 /\ OwnShown(o, q)
    BY <1>1, <2>2, PageEnds
  <2>4. Reports(o, q) /\ q.pc # "launch"
    BY <1>1, <2>3, NothingReported
  <2>5. PICK s \in {"open", "left", "closed"} :
           /\ browser' = [browser EXCEPT ![b] = [x EXCEPT !.state = s]]
           /\ dropped \subseteq dropped' /\ dropped' \subseteq Browsers
           /\ s \in {"open", "left"} => b \in dropped'
    <3>1. CASE Finally
      <4>1. PICK c \in CloseOf(b) :
               /\ browser' = [browser EXCEPT ![b] = [x EXCEPT !.state = c.state]]
               /\ dropped' = dropped \cup (IF c.raised THEN {b} ELSE {})
        BY <1>7, <1>10, <3>1
      <4>2. c.state \in {"open", "left", "closed"} /\ (c.state # "closed" => c.raised)
        BY <1>2, <4>1 DEF CloseOf, Running
      <4> QED BY <1>2, <4>1, <4>2
    <3>2. CASE ~Finally
      <4>1. browser' = [browser EXCEPT ![b] = x] /\ dropped' = dropped \cup Displaced(b)
        BY <1>7, <1>10, <3>2
      <4>2. BrowserLeaseLapsed
        BY <1>6, <3>2 DEF Finally
      <4>3. x = [x EXCEPT !.state = browser[b].state]
        BY <1>4 DEF PageBrowsers
      <4>4. browser[b].state \in {"open", "left", "closed"}
        BY <1>2 DEF PageBrowsers
      <4> QED BY <1>2, <4>1, <4>2, <4>3, <4>4 DEF Displaced, Running
    <3> QED BY <3>1, <3>2
  <2>6. OthersSee(o)
    <3>1. \A c \in Browsers \ {b} : browser'[c] = browser[c]
      BY <2>5 DEF PageIInv, PageTypeOK
    <3> QED BY <1>2, <2>1, <3>1 DEF OthersSee, PageIInv, OwnPages
  <2>7. [x EXCEPT !.state = s] \in PageBrowsers /\ [x EXCEPT !.state = s].state = s
    BY <1>4
  <2> DEFINE y == [x EXCEPT !.state = s]
  <2>8. /\ y \in PageBrowsers /\ y.state = s /\ browser' = [browser EXCEPT ![b] = y]
    BY <2>5, <2>7
  <2> HIDE DEF y
  <2> QED BY <1>1, <1>2, <1>8, <2>1, <2>3, <2>4, <2>5, <2>6, <2>8, HandsDown
<1> QED BY <1>9, <1>10

\* start closes the old session, which stays registered.
LEMMA PageStartCloseKeeps ==
    ASSUME PageIInv, NEW o \in PageOps, StartClose(o) PROVE PageIInv'
<1>1. /\ op[o].pc = "new" /\ op[o].kind = "start" /\ ~Hands(op[o]) /\ op[o] \in Requests
      /\ ~op[o].restores /\ holder["browser"] = Nobody /\ Touch(o)
      /\ UNCHANGED <<active, cookies, expired, ending, clicked, dropped>>
  BY DEF StartClose, PageAt, Hands, PageIInv, PageTypeOK
<1>2. PICK c \in IF active = NoBrowser THEN {[state |-> "closed", raised |-> FALSE]}
                 ELSE CloseOf(active) :
         /\ browser' = [b \in Browsers |->
               IF b = active THEN [browser[b] EXCEPT !.state = c.state] ELSE browser[b]]
         /\ IF c.raised THEN PageGoto(o, "failed") /\ UNCHANGED holder
            ELSE PageGoto(o, "launch") /\ holder' = [holder EXCEPT !["browser"] = o]
  BY DEF StartClose
<1>3. /\ c.state \in {"open", "left", "closed"} /\ (~c.raised => c.state = "closed")
      /\ c.state # "closed" => Running(active)
  BY <1>2 DEF CloseOf, Running
<1>4. \A x \in PageBrowsers : /\ [x EXCEPT !.state = c.state] \in PageBrowsers
                              /\ [x EXCEPT !.state = c.state].state = c.state
                              /\ [x EXCEPT !.state = c.state].page = x.page
                              /\ [x EXCEPT !.state = c.state].who = x.who
  BY <1>3 DEF PageBrowsers
<1>5. /\ browser' \in [Browsers -> PageBrowsers]
      /\ \A b \in Browsers : \/ browser'[b].state = browser[b].state
                             \/ browser'[b].state = "closed"
                             \/ Running(b) /\ browser'[b].state # "unused"
      /\ active \in Browsers => browser'[active].state = c.state
  BY <1>2, <1>3, <1>4 DEF PageIInv, PageTypeOK
<1>6. meddled \subseteq meddled' /\ meddled' \subseteq PageOps /\ OthersSee(o)
  BY <1>1, TouchIsSeen
<1>7. ASSUME NEW pc \in {"failed", "launch"}, PageGoto(o, pc), LocksKept(o),
             pc = "launch" => ~Running(active)' /\ holder'["browser"] = o
      PROVE  PageIInv'
  <2> DEFINE q == [op[o] EXCEPT !.pc = pc]
  <2>1. op' = [op EXCEPT ![o] = q]
    BY <1>7 DEF PageGoto
  <2>2. /\ q \in Requests /\ q.kind = op[o].kind /\ q.got = op[o].got /\ q.pc = pc
        /\ ~q.restores
    BY <1>1 DEF Requests, Places
  <2> HIDE DEF q
  <2>3. PlaceOK(o, q, holder', expired) /\ OwnShown(o, q) /\ ~Hands(q)
    BY <1>1, <1>7, <2>2
       DEF PlaceOK, OwnShown, Hands, Opening, Filling, Submitting, Flight, Published
  <2>4. Moves(o, q) /\ Reports(o, q) /\ cookies' \in {"absent"} \cup Signed
    BY <1>1, <1>7, <2>1, <2>2, <2>3, NothingReported DEF Moves, PageIInv, PageTypeOK
  <2> QED BY <1>1, <1>5, <1>6, <1>7, <2>2, <2>3, <2>4, DriveKeeps
<1>8. CASE c.raised
  BY <1>2, <1>7, <1>8, LocksStay
<1>9. CASE ~c.raised
  <2>1. LocksKept(o) /\ holder'["browser"] = o
    BY <1>1, <1>2, <1>9, BrowserLockTaken
  <2>2. ~Running(active)'
    BY <1>1, <1>3, <1>5, <1>9 DEF Running
  <2> QED BY <1>2, <1>7, <1>9, <2>1, <2>2
<1> QED BY <1>8, <1>9

\* It launches the new browser, which takes the place of the old one.
LEMMA PageStartLaunchKeeps ==
    ASSUME PageIInv, NEW o \in PageOps, StartLaunch(o) PROVE PageIInv'
<1>1. /\ op[o].pc = "launch" /\ ~op[o].restores /\ ~Hands(op[o]) /\ op[o] \in Requests
      /\ Spare # {} /\ Touch(o) /\ dropped \subseteq Browsers
      /\ UNCHANGED <<cookies, expired, ending, clicked>>
  BY DEF StartLaunch, PageAt, Hands, PageIInv, PageTypeOK
<1>2. op[o].kind = "start" /\ PlaceOK(o, op[o], holder, expired)
  BY <1>1 DEF PageIInv, PlacesOK, PlaceOK
<1>3. /\ Fresh \in Browsers /\ browser[Fresh].state = "unused"
      /\ meddled \subseteq meddled' /\ meddled' \subseteq PageOps /\ OthersSee(o)
  BY <1>1, <1>2, FreshIsSpare, TouchIsSeen
<1>4. CASE /\ \E who \in RestoredAs : Launch(who)
           /\ active' = Fresh
           /\ dropped' = dropped \cup Displaced(active)
           /\ op' = [op EXCEPT ![o].pc = "show", ![o].browser = Fresh]
           /\ UNCHANGED holder
  <2> DEFINE q == [op[o] EXCEPT !.pc = "show", !.browser = Fresh]
  <2>1. PICK who \in Signed : browser' = [browser EXCEPT ![Fresh] = Launched(who)]
    BY <1>4 DEF Launch, RestoredAs, PageIInv, PageTypeOK, Signed
  <2>2. op' = [op EXCEPT ![o] = q]
    BY <1>4
  <2>3. /\ q \in Requests /\ q.kind = op[o].kind /\ q.got = op[o].got /\ q.pc = "show"
        /\ ~q.restores
    BY <1>1, <1>3 DEF Requests, Places
  <2> HIDE DEF q
  <2>4. PlaceOK(o, q, holder', expired) /\ OwnShown(o, q) /\ ~Hands(q)
    BY <1>1, <1>2, <1>4, <2>3
       DEF PlaceOK, OwnShown, Hands, Opening, Filling, Submitting, Flight, Published
  <2>5. Moves(o, q) /\ Reports(o, q)
    BY <1>1, <1>4, <2>2, <2>3, <2>4, LocksStay, NothingReported DEF Moves
  <2>6. /\ Displaced(active) \subseteq Browsers
        /\ ~Running(active) \/ active \in dropped'
    <3>1. ~BrowserLeaseLapsed => ~Running(active)
      BY <1>1 DEF PageIInv, Alone
    <3> QED BY <1>4, <3>1 DEF Displaced, Running
  <2>7. ~BrowserLeaseLapsed => \A p \in PageOps \ {o} : ~op[p].restores /\ op[p].pc # "launch"
    <3>1. ~BrowserLeaseLapsed => holder["browser"] = o
      BY <1>1, <1>2 DEF PlaceOK, BrowserLeaseLapsed
    <3> QED BY <3>1, HolderIsAlone
  <2> QED BY <1>1, <1>3, <1>4, <2>1, <2>3, <2>4, <2>5, <2>6, <2>7, LaunchKeeps
<1>5. CASE LaunchRaises /\ PageEnd(o, "failed") /\ UNCHANGED active
  <2>1. PICK q : /\ Moves(o, q) /\ ~Hands(q) /\ q.pc = "failed" /\ q.got = op[o].got
                 /\ OwnShown(o, q)
    BY <1>1, <1>5, PageEnds
  <2>2. Reports(o, q)
    BY <1>1, <2>1, NothingReported
  <2>3. browser' = [browser EXCEPT ![Fresh] = Launched("none")] /\ dropped' = dropped \cup {Fresh}
    BY <1>5 DEF LaunchRaises, Launch
  <2>4. active' # Fresh
    BY <1>3, <1>5 DEF PageIInv, HandsOK
  <2> QED BY <1>1, <1>3, <1>5, <2>1, <2>2, <2>3, <2>4, LaunchKeeps DEF Signed
<1> QED BY <1>4, <1>5 DEF StartLaunch

\* logout takes the session, which no request finds any more, to close it.
LEMMA PageLogoutKeeps ==
    ASSUME PageIInv, NEW o \in PageOps, Logout(o) PROVE PageIInv'
<1>1. /\ op[o].pc = "new" /\ op[o].kind = "logout" /\ ~Hands(op[o]) /\ op[o] \in Requests
      /\ ~op[o].restores /\ holder["browser"] = Nobody /\ active' = NoBrowser
      /\ UNCHANGED <<browser, expired, ending, clicked, dropped>>
  BY DEF Logout, PageAt, Hands, PageIInv, PageTypeOK
<1>2. CASE active = NoBrowser
  <2> DEFINE q == [op[o] EXCEPT !.pc = "done"]
  <2>1. /\ op' = [op EXCEPT ![o] = q] /\ UNCHANGED <<holder, meddled>>
        /\ cookies' \in {"absent"} \cup Signed
    BY <1>2 DEF Logout, PageGoto, PageIInv, PageTypeOK
  <2>2. /\ q \in Requests /\ q.kind = op[o].kind /\ q.got = op[o].got /\ q.pc = "done"
        /\ ~q.restores
    BY <1>1 DEF Requests, Places
  <2> HIDE DEF q
  <2>3. PlaceOK(o, q, holder', expired) /\ OwnShown(o, q) /\ ~Hands(q)
    BY <2>2 DEF PlaceOK, OwnShown, Hands, Opening, Filling, Submitting, Flight
  <2>4. Moves(o, q) /\ Reports(o, q)
    BY <1>1, <2>1, <2>2, <2>3, LocksStay, NothingReported DEF Moves
  <2> QED BY <1>1, <1>2, <2>1, <2>2, <2>3, <2>4, QuietMove
<1>3. CASE active # NoBrowser
  <2> DEFINE q == [op[o] EXCEPT !.pc = "closing", !.browser = active]
  <2>1. /\ op' = [op EXCEPT ![o] = q] /\ holder' = [holder EXCEPT !["browser"] = o]
        /\ Touch(o) /\ UNCHANGED cookies
    BY <1>3 DEF Logout
  <2>2. active \in Browsers /\ browser[active].state # "unused"
    BY <1>3 DEF PageIInv, PageTypeOK, HandsOK
  <2>3. /\ q \in Requests /\ q.kind = op[o].kind /\ q.got = op[o].got /\ q.pc = "closing"
        /\ ~q.restores /\ q.browser = active
    BY <1>1, <2>2 DEF Requests, Places
  <2> HIDE DEF q
  <2>4. LocksKept(o) /\ holder'["browser"] = o
    BY <1>1, <2>1, BrowserLockTaken
  <2>5. PlaceOK(o, q, holder', expired) /\ OwnShown(o, q)
    BY <1>1, <2>3, <2>4 DEF PlaceOK, OwnShown, Opening, Filling, Submitting, Flight
  <2>6. Moves(o, q) /\ Reports(o, q)
    BY <1>1, <2>1, <2>3, <2>4, <2>5, NothingReported DEF Moves
  <2>7. meddled \subseteq meddled' /\ meddled' \subseteq PageOps /\ OthersSee(o)
    BY <1>1, <2>1, TouchIsSeen
  <2>8. PageTypes
    BY <1>1, <2>1, <2>7 DEF PageTypes, PageIInv, PageTypeOK
  <2>9. op'[o] = q /\ \A p \in PageOps \ {o} : op'[p] = op[p]
    BY <2>1 DEF PageIInv, PageTypeOK
  <2>10. HandsOK'
    <3>1. \A p \in PageOps \ {o} : Hands(op[p]) =>
             op[p].browser \in Browsers \ {active} /\ browser[op[p].browser].state # "unused"
      BY DEF PageIInv, HandsOK
    <3>2. \A p, r \in PageOps : p # r /\ Hands(op'[p]) /\ Hands(op'[r]) =>
             op'[p].browser # op'[r].browser
      BY <2>3, <2>9, <3>1 DEF PageIInv, HandsOK
    <3>3. \A p \in PageOps : Hands(op'[p]) =>
             /\ op'[p].browser \in Browsers /\ op'[p].browser # NoBrowser
             /\ browser[op'[p].browser].state # "unused"
      BY <2>2, <2>3, <2>9, <3>1, PageAssumption
    <3> QED BY <1>1, <3>2, <3>3, PageAssumption DEF HandsOK, Hands
  <2>11. Alone'
    BY <1>1, PageAssumption DEF Alone, Running
  <2>12. NoStrayBrowser'
    <3> SUFFICES ASSUME NEW b \in Browsers, Running(b)', b \notin ending \cup dropped
                 PROVE  \E p \in PageOps : Hands(op'[p]) /\ op'[p].browser = b
      BY <1>1 DEF NoStrayBrowser, Hands
    <3>1. CASE b = active
      BY <2>3, <2>9, <3>1 DEF Hands
    <3>2. CASE b # active
      <4>1. PICK p \in PageOps : Hands(op[p]) /\ op[p].browser = b
        BY <1>1, <3>2 DEF PageIInv, NoStrayBrowser, Hands, Running
      <4> QED BY <1>1, <2>9, <4>1
    <3> QED BY <3>1, <3>2
  <2> QED BY <2>5, <2>6, <2>7, <2>8, <2>10, <2>11, <2>12, RequestMoves
<1> QED BY <1>2, <1>3

\* It closes the browser, or leaves what the close left.
LEMMA PageLogoutCloseKeeps ==
    ASSUME PageIInv, NEW o \in PageOps, LogoutClose(o) PROVE PageIInv'
<1> DEFINE b == op[o].browser
<1>1. /\ op[o].pc = "closing" /\ Hands(op[o])
      /\ UNCHANGED <<active, expired, ending, clicked, meddled>>
  BY DEF LogoutClose, PageAt, Hands
<1>2. PICK c \in CloseOf(b) :
         /\ browser' = [browser EXCEPT ![b].state = c.state]
         /\ IF c.raised
            THEN PageEnd(o, "failed") /\ dropped' = dropped \cup {b} /\ UNCHANGED cookies
            ELSE PageEnd(o, "done") /\ cookies' \in {"absent", cookies} /\ UNCHANGED dropped
  BY DEF LogoutClose
<1>3. /\ b \in Browsers /\ b # active /\ browser[b] \in PageBrowsers
      /\ dropped \subseteq Browsers /\ meddled \subseteq PageOps
      /\ browser \in [Browsers -> PageBrowsers]
  BY <1>1 DEF PageIInv, HandsOK, PageTypeOK
<1> DEFINE x == [browser[b] EXCEPT !.state = c.state]
<1>4. c.state \in {"open", "left", "closed"} /\ (c.state # "closed" => c.raised)
  BY <1>2 DEF CloseOf, Running
<1>5. x \in PageBrowsers /\ x.state = c.state /\ browser' = [browser EXCEPT ![b] = x]
  BY <1>2, <1>3, <1>4 DEF PageBrowsers
<1> HIDE DEF x
<1>6. PICK pc \in {"done", "failed"} : PageEnd(o, pc)
  BY <1>2
<1>7. PICK q : /\ Moves(o, q) /\ ~Hands(q) /\ q.pc = pc /\ q.got = op[o].got
               /\ OwnShown(o, q)
  BY <1>1, <1>6, PageEnds
<1>8. Reports(o, q) /\ q.pc # "launch"
  BY <1>1, <1>7, NothingReported
<1>9. OthersSee(o)
  <2>1. \A d \in Browsers \ {b} : browser'[d] = browser[d]
    BY <1>3, <1>5
  <2> QED BY <1>1, <1>3, <2>1 DEF OthersSee, PageIInv, OwnPages
<1>10. /\ dropped \subseteq dropped' /\ dropped' \subseteq Browsers
       /\ x.state \in {"open", "left"} => b \in dropped'
       /\ cookies' \in {"absent"} \cup Signed
  BY <1>2, <1>3, <1>4, <1>5 DEF PageIInv, PageTypeOK
<1> QED BY <1>1, <1>3, <1>4, <1>5, <1>7, <1>8, <1>9, <1>10, HandsDown

\* No request moves.
LEMMA WorldKeeps ==
    ASSUME PageIInv, UNCHANGED <<op, clicked>>, PageTypes,
           holder' \in [Locks -> Texts], expired' \subseteq Locks \X PageOps,
           PlacesOK', HandsOK', Alone', OwnPages', NoStrayBrowser'
    PROVE  PageIInv'
<1>1. PageTypeOK'
  BY DEF PageIInv, PageTypeOK, PageTypes
<1>2. OwnUnlessMeddled'
  BY DEF PageIInv, OwnUnlessMeddled, PageTypes, Publication
<1> QED BY <1>1, <1>2 DEF PageIInv

\* A lease ends under its holder.
LEMMA PageLeaseLapsesKeeps ==
    ASSUME PageIInv, NEW l \in Locks, PageLeaseLapses(l) PROVE PageIInv'
<1>1. /\ holder[l] \in PageOps /\ expired' = expired \cup {<<l, holder[l]>>}
      /\ holder' = [holder EXCEPT ![l] = Nobody]
      /\ UNCHANGED <<active, browser, cookies, op, ending, clicked, meddled, dropped>>
  BY DEF PageLeaseLapses, PageIInv, PageTypeOK, Texts
<1>2. PageTypes
  BY <1>1 DEF PageTypes, PageIInv, PageTypeOK
<1>3. holder' \in [Locks -> Texts] /\ expired' \subseteq Locks \X PageOps
  BY <1>1 DEF PageIInv, PageTypeOK, Texts
<1>4. PlacesOK'
  <2> SUFFICES ASSUME NEW o \in PageOps PROVE PlaceOK(o, op[o], holder', expired')
    BY <1>1 DEF PlacesOK, PlaceOK, Hands
  <2>1. PlaceOK(o, op[o], holder, expired)
    BY DEF PageIInv, PlacesOK
  <2>2. \A m \in Locks : holder[m] = o => holder'[m] = o \/ <<m, o>> \in expired'
    BY <1>1 DEF PageIInv, PageTypeOK
  <2> QED BY <1>1, <2>1, <2>2 DEF PlaceOK, Locks
<1>5. HandsOK' /\ OwnPages' /\ NoStrayBrowser'
  BY <1>1 DEF PageIInv, HandsOK, Hands, OwnPages, InFlight, Publication, PageShows,
              NoStrayBrowser, Running
<1>6. Alone'
  BY <1>1 DEF PageIInv, Alone, BrowserLeaseLapsed, Running
<1> QED BY <1>1, <1>2, <1>3, <1>4, <1>5, <1>6, WorldKeeps

\* The shutdown takes the session, and later closes it or leaves what that left.
LEMMA PageShutdownKeeps ==
    ASSUME PageIInv, Shutdown PROVE PageIInv'
<1>1. /\ active \in Browsers /\ ending = {} /\ ending' = {active} /\ active' = NoBrowser
      /\ meddled' = meddled \cup InFlight
      /\ UNCHANGED <<browser, cookies, holder, expired, op, clicked, dropped>>
  BY DEF Shutdown, PageIInv, PageTypeOK
<1>2. PageTypes /\ holder' \in [Locks -> Texts] /\ expired' \subseteq Locks \X PageOps
  BY <1>1 DEF PageTypes, PageIInv, PageTypeOK, InFlight
<1>3. PlacesOK' /\ Alone'
  BY <1>1, PageAssumption DEF PageIInv, PlacesOK, PlaceOK, Hands, Alone, Running
<1>4. HandsOK'
  BY <1>1, PageAssumption DEF PageIInv, HandsOK, Hands
<1>5. OwnPages'
  BY <1>1 DEF OwnPages, InFlight, Publication
<1>6. NoStrayBrowser'
  BY <1>1 DEF PageIInv, NoStrayBrowser, Running
<1> QED BY <1>1, <1>2, <1>3, <1>4, <1>5, <1>6, WorldKeeps

\* The world changes one browser that is there.
LEMMA BrowserChanges ==
    ASSUME PageIInv, NEW b \in Browsers, NEW x \in PageBrowsers, x.state # "unused",
           browser' = [browser EXCEPT ![b] = x],
           x.state \in {"open", "left"} => Running(b) \/ b \in dropped',
           UNCHANGED <<active, cookies, holder, expired, op, ending, clicked, meddled>>,
           dropped \subseteq dropped', dropped' \subseteq Browsers,
           b # active \/ \A o \in InFlight \ meddled :
                            PageShows(o, op[o].pc, browser[b]) => PageShows(o, op[o].pc, x),
           b = active => browser[b].state \in {"open", "left"}
    PROVE  PageIInv'
<1>1. /\ browser' \in [Browsers -> PageBrowsers] /\ browser'[b] = x
      /\ \A c \in Browsers \ {b} : browser'[c] = browser[c]
  BY DEF PageIInv, PageTypeOK
<1>2. PageTypes /\ holder' \in [Locks -> Texts] /\ expired' \subseteq Locks \X PageOps
  BY <1>1 DEF PageTypes, PageIInv, PageTypeOK
<1>3. PlacesOK'
  BY DEF PageIInv, PlacesOK, PlaceOK, Hands
<1>4. HandsOK'
  BY <1>1 DEF PageIInv, HandsOK, Hands
<1>5. Alone'
  <2>1. Running(active)' => Running(active)
    BY <1>1 DEF Running
  <2> QED BY <2>1 DEF PageIInv, Alone, BrowserLeaseLapsed
<1>6. OwnPages'
  <2> SUFFICES ASSUME NEW o \in InFlight \ meddled
               PROVE  /\ active \in Browsers /\ op[o].browser = active /\ ~op[o].restores
                      /\ PageShows(o, op[o].pc, browser'[active])
    BY DEF OwnPages, InFlight, Publication, PageShows
  <2> QED BY <1>1 DEF PageIInv, OwnPages
<1>7. NoStrayBrowser'
  <2> SUFFICES ASSUME NEW c \in Browsers, Running(c)', c \notin {active} \cup ending \cup dropped'
               PROVE  \E p \in PageOps : Hands(op[p]) /\ op[p].browser = c
    BY DEF NoStrayBrowser, Hands
  <2>1. Running(c)
    BY <1>1 DEF Running
  <2> QED BY <2>1 DEF PageIInv, NoStrayBrowser, Hands
<1> QED BY <1>2, <1>3, <1>4, <1>5, <1>6, <1>7, WorldKeeps

LEMMA PageShutdownCloseKeeps ==
    ASSUME PageIInv, NEW b \in Browsers, ShutdownClose(b) PROVE PageIInv'
<1>1. /\ Running(b)
      /\ UNCHANGED <<active, cookies, holder, expired, op, ending, clicked, meddled>>
  BY DEF ShutdownClose
<1>2. PICK c \in CloseOf(b) : /\ browser' = [browser EXCEPT ![b].state = c.state]
                              /\ dropped' = dropped \cup (IF c.raised THEN {b} ELSE {})
  BY DEF ShutdownClose
<1> DEFINE x == [browser[b] EXCEPT !.state = c.state]
<1>3. browser[b] \in PageBrowsers /\ dropped \subseteq Browsers
  BY DEF PageIInv, PageTypeOK
<1>4. c.state \in {"open", "left", "closed"}
  BY <1>1, <1>2 DEF CloseOf, Running
<1>5. /\ x \in PageBrowsers /\ x.state = c.state /\ browser' = [browser EXCEPT ![b] = x]
      /\ x.page = browser[b].page /\ x.who = browser[b].who
  BY <1>2, <1>3, <1>4 DEF PageBrowsers
<1> HIDE DEF x
<1>6. \A o \in InFlight \ meddled :
         PageShows(o, op[o].pc, browser[b]) => PageShows(o, op[o].pc, x)
  BY <1>5 DEF PageShows
<1> QED BY <1>1, <1>2, <1>3, <1>4, <1>5, <1>6, BrowserChanges DEF Running

\* Somebody signs in, or the site ends a session.
LEMMA PageScanKeeps ==
    ASSUME PageIInv, NEW b \in Browsers, NEW who \in {"mine", "other"}, Scan(b, who)
    PROVE  PageIInv'
<1> DEFINE x == [browser[b] EXCEPT !.who = who, !.page = Studio(who)]
<1>1. /\ browser[b].state = "open" /\ browser[b].page.at = "login"
      /\ UNCHANGED <<active, cookies, holder, expired, op, ending, clicked, meddled, dropped>>
      /\ browser' = [browser EXCEPT ![b] = x]
  BY DEF Scan, Open
<1>2. browser[b] \in PageBrowsers /\ dropped \subseteq Browsers
  BY DEF PageIInv, PageTypeOK
<1>3. Studio(who) \in Pages /\ Studio(who).note = Nobody
  BY PagesAreMade DEF Signed
<1>4. /\ x \in PageBrowsers /\ x.state = "open" /\ x.page.note = Nobody
  BY <1>1, <1>2, <1>3 DEF PageBrowsers, Signed
<1> HIDE DEF x
<1>5. \A o \in InFlight \ meddled :
         PageShows(o, op[o].pc, browser[b]) => PageShows(o, op[o].pc, x)
  BY <1>1, <1>4 DEF PageShows, InFlight, Filling
<1> QED BY <1>1, <1>2, <1>4, <1>5, BrowserChanges DEF Running

LEMMA PageSessionEndsKeeps ==
    ASSUME PageIInv, NEW b \in Browsers, SessionEnds(b) PROVE PageIInv'
<1> DEFINE x == [browser[b] EXCEPT !.who = "none"]
<1>1. /\ browser[b].state = "open"
      /\ UNCHANGED <<active, cookies, holder, expired, op, ending, clicked, meddled, dropped>>
      /\ browser' = [browser EXCEPT ![b] = x]
  BY DEF SessionEnds, Open
<1>2. browser[b] \in PageBrowsers /\ dropped \subseteq Browsers
  BY DEF PageIInv, PageTypeOK
<1>3. /\ x \in PageBrowsers /\ x.state = "open" /\ x.page = browser[b].page /\ x.who = "none"
  BY <1>1, <1>2 DEF PageBrowsers, Signed
<1> HIDE DEF x
<1>4. \A o \in InFlight \ meddled :
         PageShows(o, op[o].pc, browser[b]) => PageShows(o, op[o].pc, x)
  BY <1>3 DEF PageShows
<1> QED BY <1>1, <1>2, <1>3, <1>4, BrowserChanges DEF Running

\* Every step of the page preserves its inductive invariant.
LEMMA PageStepKeeps == PageIInv /\ [PageNext]_pageVars => PageIInv'
<1> SUFFICES ASSUME PageIInv, [PageNext]_pageVars PROVE PageIInv'
  OBVIOUS
<1>1. CASE UNCHANGED pageVars
  <2>1. PageTypes /\ holder' \in [Locks -> Texts] /\ expired' \subseteq Locks \X PageOps
    BY <1>1 DEF PageIInv, PageTypes, PageTypeOK, pageVars
  <2>2. PlacesOK' /\ HandsOK' /\ Alone'
    BY <1>1 DEF PageIInv, PlacesOK, PlaceOK, HandsOK, Hands, Alone, BrowserLeaseLapsed,
                Running, pageVars
  <2>3. OwnPages' /\ NoStrayBrowser'
    BY <1>1 DEF PageIInv, OwnPages, InFlight, Publication, PageShows, NoStrayBrowser,
                Running, pageVars
  <2> QED BY <1>1, <2>1, <2>2, <2>3, WorldKeeps DEF pageVars
<1>2. CASE \E o \in PageOps : PageStep(o)
  <2>1. PICK o \in PageOps : PageStep(o)
    BY <1>2
  <2>2. CASE Begin(o) \/ Status(o) \/ StatusLaunch(o) \/ StatusRestored(o)
    BY <2>2, PageBeginKeeps, PageStatusKeeps, PageStatusLaunchKeeps, PageStatusRestoredKeeps
  <2>3. CASE TakeSession(o) \/ OpenEditor(o) \/ WriteTitle(o) \/ WriteBody(o)
    BY <2>3, PageTakeKeeps, PageOpenKeeps, PageTitleKeeps, PageBodyKeeps
  <2>4. CASE Click(o) \/ ReadResult(o) \/ Navigate(o) \/ Raise(o)
    BY <2>4, PageClickKeeps, PageReadKeeps, PageNavigateKeeps, PageRaiseKeeps
  <2>5. CASE StartClose(o) \/ StartLaunch(o) \/ StartShow(o) \/ Logout(o) \/ LogoutClose(o)
    BY <2>5, PageStartCloseKeeps, PageStartLaunchKeeps, PageShowKeeps, PageLogoutKeeps,
       PageLogoutCloseKeeps
  <2> QED BY <2>1, <2>2, <2>3, <2>4, <2>5 DEF PageStep
<1>3. CASE \E l \in Locks : PageLeaseLapses(l)
  BY <1>3, PageLeaseLapsesKeeps
<1>4. CASE Shutdown
  BY <1>4, PageShutdownKeeps
<1>5. CASE \E b \in Browsers : ShutdownClose(b) \/ SessionEnds(b)
                               \/ \E who \in {"mine", "other"} : Scan(b, who)
  BY <1>5, PageShutdownCloseKeeps, PageSessionEndsKeeps, PageScanKeeps
<1> QED BY <1>1, <1>2, <1>3, <1>4, <1>5 DEF PageNext

\* The invariant of the page holds in every reachable state.
THEOREM PageInvariance == PageSpec => []PageIInv
<1> QED BY PageInitEstablishes, PageStepKeeps, PTL DEF PageSpec

\* What a publication clicks on is its own draft in its own account, and the note that
\* it reports is none but its own, unless another request drove the page meanwhile: one
\* that publish-account does not hold back, or, once a lease of one of the two lapsed,
\* another publication.  For any requests, browsers and number of lapses.
THEOREM PublicationsKeepToTheirOwn == PageSpec => []OwnUnlessMeddled
<1>1. PageIInv => OwnUnlessMeddled
  BY DEF PageIInv
<1> QED BY <1>1, PageInvariance, PTL

\* Whatever fails on the way, a browser that runs is the one that the next request will
\* find, or in the hands of a status call, a logout or the shutdown, unless its own
\* launch or last close raised half-way or a lapsed lease let another take its place.
\* For any requests, browsers and number of lapses.
THEOREM NoBrowserIsLost == PageSpec => []NoStrayBrowser
<1>1. PageIInv => NoStrayBrowser
  BY DEF PageIInv
<1> QED BY <1>1, PageInvariance, PTL
=============================================================================
