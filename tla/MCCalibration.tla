----------------------------- MODULE MCCalibration -----------------------------
(* Two model solutions, three tests in two groups.                         *)
EXTENDS Calibration

TwoGroups == <<1, 1, 2>>
================================================================================
