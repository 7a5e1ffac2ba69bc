------------------------------ MODULE MCOutbox ------------------------------
(* A small instance of Outbox for TLC: its run checks liveness, so it uses   *)
(* no symmetry.                                                              *)
EXTENDS Outbox, TLC
=============================================================================
