--------------------------------- MODULE Lanes ---------------------------------
(***************************************************************************)
(* `attempt` of pipeline.rs: a submission is checked, built, and judged on *)
(* its tests, several at a time, each in a lane of its own.                *)
(***************************************************************************)
EXTENDS Naturals, Sequences, FiniteSets

CONSTANTS
    N,         \* how many tests the package declares
    LaneCount, \* the sandbox's measurement homes
    Flaws      \* sets of checks a submission may fail

Checks == <<"language", "allowed", "name", "size", "policy", "build", "judge">>

ASSUME LanesAssumption ==
    /\ N \in Nat
    /\ LaneCount \in Nat \ {0}
    /\ Flaws \subseteq SUBSET {Checks[k] : k \in DOMAIN Checks}

VARIABLES
    flaws,       \* the checks this submission fails
    fate,        \* what becomes of each test
    width,       \* how many tests may be in hand at once
    stage,       \* the check it is at; past the last, its tests
    test,        \* [tests -> "listed", "queued", "running", "ended", "skipped"]
    lane,        \* the lane of a running test
    idle,        \* the lanes nobody holds, the next one to take last
    scheduling,  \* whether a test may still begin
    early,       \* the answer that came before any test, or "none"
    answer       \* 0 while there is none; the test that failed; N + 1 when judged
vars == <<flaws, fate, width, stage, test, lane, idle, scheduling, early, answer>>
input == <<flaws, fate, width>>

Tests == 1..N
LaneSet == 0..LaneCount-1

(* The answers that come before any test.                                  *)
Early == {"Failed", "PolicyViolation", "CompilationError"}

Testing == stage = Len(Checks) + 1 /\ answer = 0

Init ==
    /\ flaws \in Flaws
    /\ fate \in [Tests -> {"outcome", "failure"}]
    /\ width \in {1, LaneCount}
    /\ stage = 1
    /\ test = [i \in Tests |-> "listed"]
    /\ lane = [i \in Tests |-> 0]
    /\ idle = [k \in 1..LaneCount |-> LaneCount - k]
    /\ scheduling = TRUE
    /\ early = "none"
    /\ answer = 0

-------------------------------------------------------------------------------
(* Before the tests.                                                       *)

(* What a failed check is answered with.                                   *)
Refusal(check) ==
    IF check \in {"language", "judge"} THEN "Failed"
    ELSE IF check \in {"allowed", "size", "policy"} THEN "PolicyViolation"
    ELSE "CompilationError"

Check ==
    /\ stage \in DOMAIN Checks
    /\ early = "none"
    /\ IF Checks[stage] \in flaws
       THEN early' = Refusal(Checks[stage]) /\ UNCHANGED stage
       ELSE stage' = stage + 1 /\ UNCHANGED early
    /\ UNCHANGED <<input, test, lane, idle, scheduling, answer>>

(* The source could not be written down, the daemon could not run the      *)
(* build, or what it made could not be read.                               *)
Lost ==
    /\ stage \in DOMAIN Checks /\ Checks[stage] \in {"policy", "build"}
    /\ early = "none"
    /\ early' = "Failed"
    /\ UNCHANGED <<input, stage, test, lane, idle, scheduling, answer>>

-------------------------------------------------------------------------------
(* `buffer_unordered` over the tests.                                      *)

InHand == {i \in Tests : test[i] \in {"queued", "running"}}

(* The next test's future is made, while fewer than `width` are in hand.   *)
Pull(i) ==
    /\ Testing
    /\ test[i] = "listed"
    /\ \A j \in 1..i-1 : test[j] # "listed"
    /\ Cardinality(InHand) < width
    /\ test' = [test EXCEPT ![i] = "queued"]
    /\ UNCHANGED <<input, early, stage, lane, idle, scheduling, answer>>

(* New futures are first polled in the order they were made.               *)
FirstPoll(i) ==
    /\ Testing
    /\ test[i] = "queued"
    /\ \A j \in 1..i-1 : test[j] # "queued"

(* Mutant of Begin: a test begins wherever there is room.                  *)
BeginAnywhere(i) ==
    /\ Testing
    /\ test[i] = "queued"
    /\ scheduling
    /\ Len(idle) > 0
    /\ test' = [test EXCEPT ![i] = "running"]
    /\ lane' = [lane EXCEPT ![i] = idle[Len(idle)]]
    /\ idle' = SubSeq(idle, 1, Len(idle) - 1)
    /\ UNCHANGED <<input, early, stage, scheduling, answer>>

(* Mutant of Begin: the lane is looked at and not taken.                   *)
BeginBeside(i) ==
    /\ FirstPoll(i)
    /\ scheduling
    /\ Len(idle) > 0
    /\ test' = [test EXCEPT ![i] = "running"]
    /\ lane' = [lane EXCEPT ![i] = idle[Len(idle)]]
    /\ UNCHANGED <<input, early, stage, idle, scheduling, answer>>

(* `Lanes::take`, and the test is under way.                               *)
Begin(i) ==
    /\ FirstPoll(i)
    /\ scheduling
    /\ Len(idle) > 0
    /\ test' = [test EXCEPT ![i] = "running"]
    /\ lane' = [lane EXCEPT ![i] = idle[Len(idle)]]
    /\ idle' = SubSeq(idle, 1, Len(idle) - 1)
    /\ UNCHANGED <<input, early, stage, scheduling, answer>>

(* Mutant of Skip: the tests after a failure are forgotten in the list.    *)
SkipForgets(i) ==
    /\ FirstPoll(i)
    /\ ~scheduling
    /\ test' = [test EXCEPT ![i] = "listed"]
    /\ UNCHANGED <<input, early, stage, lane, idle, scheduling, answer>>

(* A test that has not begun when the machinery failed another.            *)
Skip(i) ==
    /\ FirstPoll(i)
    /\ ~scheduling
    /\ test' = [test EXCEPT ![i] = "skipped"]
    /\ UNCHANGED <<input, early, stage, lane, idle, scheduling, answer>>

(* Mutant of End: a test whose machinery failed keeps its lane.            *)
EndKeepsLane(i) ==
    /\ Testing
    /\ test[i] = "running"
    /\ test' = [test EXCEPT ![i] = "ended"]
    /\ idle' = IF fate[i] = "outcome" THEN Append(idle, lane[i]) ELSE idle
    /\ scheduling' = (scheduling /\ fate[i] = "outcome")
    /\ UNCHANGED <<input, early, stage, lane, answer>>

(* A failure stops the scheduling and nothing else; the lane goes back.    *)
End(i) ==
    /\ Testing
    /\ test[i] = "running"
    /\ test' = [test EXCEPT ![i] = "ended"]
    /\ idle' = Append(idle, lane[i])
    /\ scheduling' = (scheduling /\ fate[i] = "outcome")
    /\ UNCHANGED <<input, early, stage, lane, answer>>

Failures == {i \in Tests : test[i] = "ended" /\ fate[i] = "failure"}

(* The first failure in the order of the tests, not the first to happen.   *)
Settle ==
    \/ Failures = {} /\ answer' = N + 1
    \/ \E i \in Failures : (\A j \in Failures : i <= j) /\ answer' = i

(* `in_test_order`, once every test has come back.                         *)
Collect ==
    /\ Testing
    /\ \A i \in Tests : test[i] \in {"ended", "skipped"}
    /\ Settle
    /\ UNCHANGED <<input, early, stage, test, lane, idle, scheduling>>

TestStep(i) == Pull(i) \/ Begin(i) \/ Skip(i) \/ End(i)

Next == Check \/ Lost \/ (\E i \in Tests : TestStep(i)) \/ Collect

Spec == Init /\ [][Next]_vars

(* The task that drives the stream is polled, and a test that is under way *)
(* ends: JudgedTest bounds it.                                             *)
FairSpec == Spec /\ WF_vars(Check) /\ WF_vars(Collect) /\ \A i \in Tests : WF_vars(TestStep(i))

-------------------------------------------------------------------------------
(* Properties.                                                             *)

TypeOK ==
    /\ flaws \in Flaws
    /\ fate \in [Tests -> {"outcome", "failure"}]
    /\ width \in 1..LaneCount
    /\ stage \in 1..Len(Checks)+1
    /\ test \in [Tests -> {"listed", "queued", "running", "ended", "skipped"}]
    /\ lane \in [Tests -> LaneSet]
    /\ idle \in Seq(LaneSet)
    /\ scheduling \in BOOLEAN
    /\ early \in Early \cup {"none"}
    /\ answer \in 0..N+1
    /\ early # "none" => answer = 0 /\ stage <= Len(Checks)

Running == {i \in Tests : test[i] = "running"}

(* Two tests under way are never measured in one lane, and no lane is both *)
(* held and idle: a reading is of one run.  A trial's are measured in lane *)
(* zero, so one at a time: the limits it derives carry no contention of    *)
(* the Runner's own.                                                       *)
OneTestPerLane ==
    /\ \A i, j \in Running : i # j => lane[i] # lane[j]
    /\ \A i \in Running, k \in DOMAIN idle : idle[k] # lane[i]
    /\ \A k, m \in DOMAIN idle : k # m => idle[k] # idle[m]
    /\ width = 1 => \A i \in Running : lane[i] = 0

(* The lanes outlive the submission.  None is ever lost: each is idle or   *)
(* held by a test under way, through failures and skipped tests; and by    *)
(* the time there is an answer all are idle, so that whatever failed the   *)
(* next submission finds the width this one had.                           *)
NoLaneIsLost ==
    \A l \in LaneSet :
        \/ \E k \in DOMAIN idle : idle[k] = l
        \/ answer = 0 /\ \E i \in Running : lane[i] = l

(* Judging several tests at once gives the answer that judging one after   *)
(* another gives, whatever order they finish in and whichever fails.       *)
Judged ==
    {i \in Tests : \A j \in 1..i : test[j] = "ended" /\ (j < i => fate[j] = "outcome")}

InTurn == INSTANCE Judging WITH judged <- Judged
JudgedInTurn == InTurn!Spec

(* Every submission is answered.                                           *)
Answered == <>(answer # 0 \/ early # "none")

================================================================================
