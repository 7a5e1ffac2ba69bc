----------------------------- MODULE MCJobQueue -----------------------------
(* Small instances of JobQueue for TLC. *)
EXTENDS JobQueue, TLC

\* Jobs and slots are interchangeable.
Symmetry == Permutations(Jobs) \cup Permutations(Slots)
=============================================================================
