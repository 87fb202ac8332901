---------------------------- MODULE MCRunnerWork ----------------------------
(* Instances of RunnerWork that TLC can finish.                            *)
EXTENDS RunnerWork, TLC

Interchangeable == Permutations(Runners)
=============================================================================
