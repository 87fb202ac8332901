------------------------------ MODULE Calibration ------------------------------
(***************************************************************************)
(* `measure` of calibrate.rs: each model solution is judged as a submission*)
(* is, and what its tests took becomes one row a group.                    *)
(***************************************************************************)
EXTENDS Integers, Sequences, FiniteSets

CONSTANTS
    Models,   \* how many model solutions the package declares
    Tests,    \* its tests, a sequence of the groups they are in
    MaxTime,  \* bound: what a test can take
    MaxMemory \* bound: its peak, where there is one

(* Absent is not zero.                                                     *)
Absent == -1

VARIABLES
    model,    \* the model solution being measured
    readings, \* what judging it found of each test
    next,     \* the test to be folded in
    peaks,    \* the groups met so far and their maxima
    rows,     \* what will be reported
    ended     \* "no" until it is "measured" or "refused"
vars == <<model, readings, next, peaks, rows, ended>>

Groups == {Tests[i] : i \in DOMAIN Tests}
Reading == [time : 0..MaxTime, memory : {Absent} \cup 0..MaxMemory]

Init ==
    /\ model = 0 /\ readings = <<>> /\ next = 1 /\ peaks = <<>> /\ rows = {}
    /\ ended = IF Models = 0 THEN "refused" ELSE "no"

(* The next model solution is judged, with full marks.                     *)
Evaluated ==
    /\ ended = "no" /\ readings = <<>> /\ model < Models
    /\ readings' \in [DOMAIN Tests -> Reading]
    /\ model' = model + 1 /\ next' = 1 /\ peaks' = <<>>
    /\ UNCHANGED <<rows, ended>>

(* It could not be run, or it is not a reference to measure.               *)
Refused ==
    /\ ended = "no" /\ readings = <<>> /\ model < Models
    /\ ended' = "refused"
    /\ UNCHANGED <<model, readings, next, peaks, rows>>

Larger(a, b) == IF a > b THEN a ELSE b
LargerMemory(a, b) == IF a = Absent \/ b = Absent THEN Absent ELSE Larger(a, b)

(* The larger of what the group has and what this test took.               *)
Fold ==
    LET group == Tests[next]
        entry == IF group \in DOMAIN peaks THEN peaks[group] ELSE [time |-> 0, memory |-> Absent]
        after == [time |-> Larger(entry.time, readings[next].time),
                  memory |-> LargerMemory(entry.memory, readings[next].memory)]
    IN /\ readings # <<>> /\ next <= Len(Tests)
       /\ peaks' = [g \in DOMAIN peaks \cup {group} |-> IF g = group THEN after ELSE peaks[g]]
       /\ next' = next + 1
       /\ UNCHANGED <<model, readings, rows, ended>>

(* A row a group, under the language only where there is more than one.    *)
Reported ==
    /\ readings # <<>> /\ next > Len(Tests)
    /\ rows' = rows \cup
         {[group |-> g, language |-> IF Models > 1 THEN model ELSE Absent,
           time |-> peaks[g].time, memory |-> peaks[g].memory] : g \in DOMAIN peaks}
    /\ readings' = <<>>
    /\ ended' = IF model = Models THEN "measured" ELSE ended
    /\ UNCHANGED <<model, next, peaks>>

Next == Evaluated \/ Refused \/ Fold \/ Reported
Spec == Init /\ [][Next]_vars

-----------------------------------------------------------------------------
(* "The fold: per test becomes per group, by taking the maximum"; "a group *)
(* where one test could not be measured has no honest peak": and so a group*)
(* all of whose tests were measured has one (calibrate.rs, measure).       *)
MemoryIsMeasured ==
    readings # <<>> /\ next > Len(Tests) =>
        \A g \in Groups :
            (\A i \in DOMAIN Tests : Tests[i] = g => readings[i].memory # Absent)
                => peaks[g].memory # Absent
================================================================================
