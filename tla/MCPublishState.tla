--------------------------- MODULE MCPublishState ---------------------------
(* Small instances of PublishState for TLC. *)
EXTENDS PublishState, TLC

\* Schedules and workers are interchangeable in the safety runs.
Symmetry == Permutations(Schedules) \cup Permutations(Workers)
=============================================================================
