----------------------------- MODULE MCPreparation -----------------------------
(* Preparation with what TLC needs. *)
EXTENDS Preparation, TLC

Interchangeable == Permutations(Runners)
=============================================================================
