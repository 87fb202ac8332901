----------------------------- MODULE MCSandboxRun -----------------------------
(* SandboxRun for TLC.  Two runs meet with one trouble; one that is alone meets *)
(* as many as there are.                                                        *)
EXTENDS SandboxRun, TLC

\* A second run begins only where no more has gone wrong than it may see.
FewTroubles == faults + stops <= Allowed

Alike == Permutations(Runners) \cup Permutations(Runs)
===============================================================================
