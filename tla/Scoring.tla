-------------------------------- MODULE Scoring --------------------------------
(***************************************************************************)
(* What a checker says of a test (checker.rs) and what the tests are worth *)
(* together (score.rs).  Points are counted in hundredths, where the code  *)
(* has floats that it rounds to two decimals.                              *)
(***************************************************************************)
EXTENDS Integers, Sequences, FiniteSetsExt

(* What is written in place of a percentage: nothing, or nothing usable.   *)
Absent == -1
Junk == 101

(* Absent is full credit; a rejection is worth nothing whatever it states. *)
Percentage(answer) ==
    IF answer.word # "OK" THEN 0 ELSE IF answer.stated = Absent THEN 100 ELSE answer.stated

(* A run that was stopped never reaches its judge.                         *)
Stopped == {"TimeLimit", "MemoryLimit", "OutputLimit", "RuntimeError"}

(* A test's outcome, from how its run ended and what its checker said.     *)
Outcome(test) ==
    IF test.ended \in Stopped
    THEN [group |-> test.group, passed |-> FALSE, percentage |-> 0, reason |-> test.ended]
    ELSE [group |-> test.group, passed |-> test.said.word = "OK",
          percentage |-> Percentage(test.said),
          reason |-> IF test.said.word = "OK" THEN "none" ELSE "WrongAnswer"]

(* Two decimals, halves away from zero: hundredths from a quotient of them.*)
Round(over, under) == (2 * over + under) \div (2 * under)

Mine(outcomes, g) == {i \in DOMAIN outcomes : outcomes[i].group = g}
Count(outcomes, g) == Max({1, Cardinality(Mine(outcomes, g))})

(* Points are awarded only if every test of the group passes.              *)
AllPassed(outcomes, g) ==
    Mine(outcomes, g) # {} /\ \A i \in Mine(outcomes, g) : outcomes[i].passed

TestScore(points, outcomes, i) ==
    LET g == outcomes[i].group IN
    IF AllPassed(outcomes, g)
    THEN Round(points[g] * outcomes[i].percentage, Count(outcomes, g)) ELSE 0

(* Mutant of GroupPoints: what is shown of the tests is added up.          *)
GroupPointsRounded(points, outcomes, g) ==
    MapThenSumSet(LAMBDA i : TestScore(points, outcomes, i), Mine(outcomes, g))

(* The shares are added up before anything is rounded.                     *)
GroupPoints(points, outcomes, g) ==
    IF AllPassed(outcomes, g)
    THEN Round(points[g] * MapThenSumSet(LAMBDA i : outcomes[i].percentage, Mine(outcomes, g)),
               Count(outcomes, g))
    ELSE 0

Score(points, outcomes) ==
    MapThenSumSet(LAMBDA g : GroupPoints(points, outcomes, g), DOMAIN points)
MaxScore(points) == MapThenSumSet(LAMBDA g : 100 * points[g], DOMAIN points)

(* One word for all of it: that of the first test that failed, a group at  *)
(* a time.  Groups are numbered in the order the configuration gives them, *)
(* which need not be that of the numbers it gives them.                    *)
Verdict(points, outcomes) ==
    LET failed == {i \in DOMAIN outcomes : ~outcomes[i].passed}
        first == CHOOSE i \in failed : \A j \in failed :
                    \/ outcomes[i].group < outcomes[j].group
                    \/ outcomes[i].group = outcomes[j].group /\ i <= j
    IN IF failed # {} THEN outcomes[first].reason
       ELSE IF Score(points, outcomes) >= MaxScore(points) THEN "Accepted" ELSE "Partial"

-----------------------------------------------------------------------------
(* Of a submission's tests, and of the same with one of them failed:       *)
(* nothing is worth more for failing; a group with a failed test is worth  *)
(* nothing, and so is each of its tests; what is lost of the full score    *)
(* anywhere is seen in the verdict, unless it is less than half a          *)
(* hundredth; and what the tests show adds up to what their group shows,   *)
(* give or take the rounding of each.                                      *)
Earned(points, tests) ==
    LET outcomes == [i \in DOMAIN tests |-> Outcome(tests[i])]
        failing(k) == [outcomes EXCEPT ![k].passed = FALSE, ![k].reason = "WrongAnswer"]
    IN /\ \A k \in DOMAIN tests : Score(points, failing(k)) <= Score(points, outcomes)
       /\ Score(points, outcomes) \in 0..MaxScore(points)
       /\ \A i \in DOMAIN tests :
            ~outcomes[i].passed =>
                /\ outcomes[i].percentage = 0
                /\ GroupPoints(points, outcomes, outcomes[i].group) = 0
                /\ \A j \in Mine(outcomes, outcomes[i].group) : TestScore(points, outcomes, j) = 0
       /\ (\A i \in DOMAIN tests : outcomes[i].percentage = 100)
            => Verdict(points, outcomes) = "Accepted" \/ \E g \in DOMAIN points : Mine(outcomes, g) = {}
       /\ Verdict(points, outcomes) = "Accepted" =>
            /\ \A i \in DOMAIN tests : outcomes[i].passed
            /\ \A g \in DOMAIN points :
                 2 * points[g] * MapThenSumSet(LAMBDA i : 100 - outcomes[i].percentage,
                                               Mine(outcomes, g)) <= Count(outcomes, g)
       /\ \A g \in DOMAIN points :
            LET shown == MapThenSumSet(LAMBDA i : TestScore(points, outcomes, i), Mine(outcomes, g))
                gap == shown - GroupPoints(points, outcomes, g)
            IN 2 * (IF gap < 0 THEN -gap ELSE gap) <= Count(outcomes, g) + 1
================================================================================
