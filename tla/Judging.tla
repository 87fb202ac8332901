-------------------------------- MODULE Judging --------------------------------
(***************************************************************************)
(* What judging a submission promises: its tests are judged in the order   *)
(* they are declared, up to the first whose machinery failed, and that     *)
(* failure is the answer; with none, the answer is every test's outcome.   *)
(***************************************************************************)
EXTENDS Naturals

CONSTANT N

VARIABLES
    fate,    \* what becomes of a test that is run: "outcome" or "failure"
    judged,  \* the tests judged so far
    answer   \* 0 while there is none, then where it failed, or N + 1

Tests == 1..N

(* A test is judged after every earlier one, none of which failed.         *)
InOrder(S) == \A i \in S : \A j \in 1..i-1 : j \in S /\ fate[j] = "outcome"

Init ==
    /\ fate \in [Tests -> {"outcome", "failure"}]
    /\ judged = {}
    /\ answer = 0

Judge ==
    /\ answer = 0
    /\ judged \subseteq judged'
    /\ judged' \subseteq Tests
    /\ InOrder(judged')
    /\ UNCHANGED <<fate, answer>>

Fail ==
    /\ answer = 0
    /\ \E i \in judged : fate[i] = "failure" /\ answer' = i
    /\ UNCHANGED <<fate, judged>>

Finish ==
    /\ answer = 0
    /\ judged = Tests
    /\ \A i \in Tests : fate[i] = "outcome"
    /\ answer' = N + 1
    /\ UNCHANGED <<fate, judged>>

Next == Judge \/ Fail \/ Finish

Spec == Init /\ [][Next]_<<fate, judged, answer>>
================================================================================
