------------------------------ MODULE Lanes_proofs ------------------------------
(***************************************************************************)
(* For any number of tests and of lanes: a lane measures one test, no lane *)
(* is lost, and judging several tests at once is judging them in turn.     *)
(***************************************************************************)
EXTENDS Lanes, FiniteSetTheorems, SequenceTheorems, TLAPS

-----------------------------------------------------------------------------
(* The inductive invariant, in named parts.                                *)

\* The lanes, held and idle, are all different.
Separate ==
  /\ \A i, j \in Running : i # j => lane[i] # lane[j]
  /\ \A i \in Running, k \in DOMAIN idle : idle[k] # lane[i]
  /\ \A k, m \in DOMAIN idle : k # m => idle[k] # idle[m]

\* Every lane is idle or held.
Kept ==
  \A l \in LaneSet : \/ \E k \in DOMAIN idle : idle[k] = l
                     \/ \E i \in Running : lane[i] = l

\* A trial has one test in hand, and the first lane is its own.
Alone ==
  width = 1 =>
    /\ \A i, j \in InHand : i = j
    /\ Running = {} => Len(idle) > 0 /\ idle[Len(idle)] = 0
    /\ \A i \in Running : lane[i] = 0

\* Tests leave the list, and are first polled, in their order.
Ordered ==
  \A i, j \in Tests : i < j =>
    /\ test[i] = "listed" => test[j] = "listed"
    /\ test[i] = "queued" => test[j] \in {"listed", "queued"}

\* Why nothing is scheduled any more, and why a test was skipped.
Stopped ==
  /\ ~scheduling => Failures # {}
  /\ \A i \in Tests : test[i] = "skipped" => \E j \in Failures : j < i

\* An answer comes when every test has come back.
Settled ==
  answer # 0 => /\ stage = Len(Checks) + 1
                /\ \A i \in Tests : test[i] \in {"ended", "skipped"}

LInv == TypeOK /\ Separate /\ Kept /\ Alone /\ Ordered /\ Stopped /\ Settled

-----------------------------------------------------------------------------
(* Facts about the data.                                                   *)

\* There are seven checks.
LEMMA SevenChecks == Len(Checks) = 7 /\ DOMAIN Checks = 1..7
BY DEF Checks

\* The order of the tests.
LEMMA TestOrder ==
  \A i, j \in Tests : /\ i = j \/ i < j \/ j < i
                      /\ ~(i < j /\ j < i)
                      /\ i < j => i # j /\ i \in 1..j-1
BY LanesAssumption DEF Tests

\* What is left of a sequence when its last element is taken.
LEMMA WithoutLast ==
  ASSUME NEW S, NEW q \in Seq(S), Len(q) > 0
  PROVE  /\ SubSeq(q, 1, Len(q) - 1) \in Seq(S)
         /\ Len(SubSeq(q, 1, Len(q) - 1)) = Len(q) - 1
         /\ \A k \in 1..Len(q) - 1 : SubSeq(q, 1, Len(q) - 1)[k] = q[k]
         /\ q[Len(q)] \in S
<1>1. Len(q) \in Nat /\ \A k \in 1..Len(q) : q[k] \in S
  BY LenProperties
<1> DEFINE n == Len(q) - 1
<1>2. n \in Int /\ 1 \in Int /\ \A k \in 1..n : q[k] \in S
  BY <1>1
<1>3. /\ SubSeq(q, 1, n) \in Seq(S)
      /\ Len(SubSeq(q, 1, n)) = IF 1 <= n THEN n - 1 + 1 ELSE 0
      /\ \A k \in 1 .. n - 1 + 1 : SubSeq(q, 1, n)[k] = q[1 + k - 1]
  <2> HIDE DEF n
  <2>1. QED
    BY <1>2, SubSeqProperties
<1>4. Len(SubSeq(q, 1, n)) = n
  <2>1. n \in Nat
    BY <1>1
  <2> HIDE DEF n
  <2>2. CASE 1 <= n
    BY <1>3, <2>1, <2>2
  <2>3. CASE ~(1 <= n)
    BY <1>3, <2>1, <2>3
  <2>4. QED
    BY <2>2, <2>3
<1>5. \A k \in 1..n : SubSeq(q, 1, n)[k] = q[k]
  <2>1. \A k \in 1..n : k \in 1 .. n - 1 + 1 /\ 1 + k - 1 = k
    BY <1>1
  <2>2. QED
    BY <1>3, <2>1
<1>6. q[Len(q)] \in S
  BY <1>1
<1>7. SubSeq(q, 1, n) \in Seq(S)
  BY <1>3
<1>8. QED
  BY <1>4, <1>5, <1>6, <1>7

\* What a sequence is when an element is added at its end.
LEMMA WithLast ==
  ASSUME NEW S, NEW q \in Seq(S), NEW e \in S
  PROVE  /\ Append(q, e) \in Seq(S)
         /\ Len(Append(q, e)) = Len(q) + 1
         /\ \A k \in 1..Len(q) : Append(q, e)[k] = q[k]
         /\ Append(q, e)[Len(q) + 1] = e
OBVIOUS

\* Fewer than one in hand is none in hand.
LEMMA NoneInHand ==
  ASSUME Cardinality(InHand) < 1
  PROVE  InHand = {}
<1>1. IsFiniteSet(Tests)
  BY LanesAssumption, FS_Interval DEF Tests
<1>2. IsFiniteSet(InHand)
  BY <1>1, FS_Subset DEF InHand
<1>3. Cardinality(InHand) \in Nat
  BY <1>2, FS_CardinalityType
<1>4. QED
  BY <1>2, <1>3, FS_EmptySet

-----------------------------------------------------------------------------
(* The invariant holds at the start.                                       *)

LEMMA InitLInv == Init => LInv
<1> SUFFICES ASSUME Init PROVE LInv
  OBVIOUS
<1> USE LanesAssumption
<1>1. idle \in Seq(LaneSet) /\ Len(idle) = LaneCount /\ DOMAIN idle = 1..LaneCount
  <2>1. \A k \in 1..LaneCount : LaneCount - k \in LaneSet
    BY DEF LaneSet
  <2>2. [k \in 1..LaneCount |-> LaneCount - k] \in Seq(LaneSet)
    BY <2>1, IsASeq
  <2>3. QED
    BY <2>2, LenProperties DEF Init
<1>2. Running = {} /\ InHand = {}
  BY DEF Running, InHand, Init
<1>3. \A k \in 1..LaneCount : idle[k] = LaneCount - k
  BY DEF Init
<1>4. TypeOK
  BY <1>1, SevenChecks DEF TypeOK, Init, LaneSet, Early
<1>5. Separate
  BY <1>1, <1>2, <1>3 DEF Separate
<1>6. Kept
  <2>1. ASSUME NEW l \in LaneSet
        PROVE  \E k \in DOMAIN idle : idle[k] = l
    <3>1. l \in Nat /\ l < LaneCount
      BY DEF LaneSet
    <3>2. LaneCount - l \in 1..LaneCount /\ LaneCount - (LaneCount - l) = l
      BY <3>1
    <3>3. idle[LaneCount - l] = LaneCount - (LaneCount - l)
      BY <1>3, <3>2
    <3>4. QED
      BY <1>1, <3>2, <3>3
  <2>2. QED
    BY <2>1 DEF Kept
<1>7. Alone
  BY <1>1, <1>2, <1>3 DEF Alone
<1>8. Ordered /\ Stopped /\ Settled
  BY DEF Ordered, Stopped, Settled, Init
<1>9. QED
  BY <1>4, <1>5, <1>6, <1>7, <1>8 DEF LInv

-----------------------------------------------------------------------------
(* One lemma for each step.                                                *)

\* A step before the tests, or the answer, touches neither tests nor lanes.
LEMMA CheckLInv == LInv /\ (Check \/ Lost) => LInv'
<1> SUFFICES ASSUME LInv, Check \/ Lost PROVE LInv'
  OBVIOUS
<1>1. UNCHANGED <<flaws, fate, width, test, lane, idle, scheduling, answer>>
  BY DEF Check, Lost, input
<1>2. answer = 0 /\ (Separate /\ Kept /\ Alone /\ Ordered /\ Stopped)'
  <2>1. Running' = Running /\ InHand' = InHand /\ Failures' = Failures
    BY <1>1 DEF Running, InHand, Failures
  <2>2. answer = 0
    BY SevenChecks DEF LInv, Settled, TypeOK, Check, Lost
  <2>3. QED
    BY <1>1, <2>1, <2>2 DEF LInv, Separate, Kept, Alone, Ordered, Stopped
<1>3. TypeOK'
  BY <1>1, <1>2, SevenChecks DEF LInv, TypeOK, Check, Lost, Refusal, Early
<1>4. QED
  BY <1>1, <1>2, <1>3 DEF LInv, Settled

LEMMA CollectLInv == LInv /\ Collect => LInv'
<1> SUFFICES ASSUME LInv, Collect PROVE LInv'
  OBVIOUS
<1>1. UNCHANGED <<flaws, fate, width, stage, test, lane, idle, scheduling, early>>
  BY DEF Collect, input
<1>2. Running' = Running /\ InHand' = InHand /\ Failures' = Failures
  BY <1>1 DEF Running, InHand, Failures
<1>3. TypeOK'
  <2>1. Failures \subseteq 1..N /\ N \in Nat
    BY LanesAssumption DEF Failures, Tests
  <2>2. answer' \in 0..N+1
    BY <2>1 DEF Collect, Settle
  <2>3. early = "none"
    BY SevenChecks DEF LInv, TypeOK, Collect, Testing
  <2>4. QED
    BY <1>1, <2>2, <2>3 DEF LInv, TypeOK
<1>4. Settled'
  BY <1>1 DEF Settled, Collect, Testing
<1>5. QED
  BY <1>1, <1>2, <1>3, <1>4 DEF LInv, Separate, Kept, Alone, Ordered, Stopped

LEMMA PullLInv ==
  ASSUME LInv, NEW i \in Tests, Pull(i)
  PROVE  LInv'
<1>1. /\ UNCHANGED <<flaws, fate, width, stage, lane, idle, scheduling, early, answer>>
      /\ test[i] = "listed" /\ test' = [test EXCEPT ![i] = "queued"]
      /\ answer = 0
  BY DEF Pull, input, Testing
<1>2. TypeOK'
  BY <1>1 DEF LInv, TypeOK
<1>3. Running' = Running /\ Failures' = Failures /\ InHand' = InHand \cup {i}
  BY <1>1 DEF Running, Failures, InHand, LInv, TypeOK
<1>4. Separate' /\ Kept'
  BY <1>1, <1>3 DEF LInv, Separate, Kept
<1>5. Alone'
  <2>1. width = 1 => InHand = {}
    BY NoneInHand DEF Pull
  <2>2. QED
    BY <1>1, <1>3, <2>1 DEF LInv, Alone
<1>6. Ordered'
  <2>1. /\ test'[i] = "queued"
        /\ \A j \in Tests : j # i => test'[j] = test[j]
        /\ \A j \in Tests : j < i => test[j] # "listed"
    BY <1>1, TestOrder DEF LInv, TypeOK, Pull
  <2>2. QED
    BY <1>1, <2>1, TestOrder DEF LInv, Ordered
<1>7. Stopped'
  BY <1>1, <1>3 DEF LInv, TypeOK, Stopped
<1>8. Settled'
  BY <1>1 DEF Settled
<1>9. QED
  BY <1>2, <1>4, <1>5, <1>6, <1>7, <1>8 DEF LInv

\* What is polled first keeps the order, whatever comes of it.
LEMMA PolledInOrder ==
  ASSUME LInv, NEW i \in Tests, FirstPoll(i), NEW to \in {"running", "skipped"},
         test' = [test EXCEPT ![i] = to]
  PROVE  Ordered'
<1>1. /\ test'[i] = to
      /\ \A j \in Tests : j # i => test'[j] = test[j]
      /\ \A j \in Tests : j < i => test[j] # "queued"
  BY TestOrder DEF LInv, TypeOK, FirstPoll
<1>2. QED
  BY <1>1, TestOrder DEF LInv, FirstPoll, Ordered

LEMMA BeginLInv ==
  ASSUME LInv, NEW i \in Tests, Begin(i)
  PROVE  LInv'
<1> DEFINE home == idle[Len(idle)]
<1>1. /\ UNCHANGED <<flaws, fate, width, stage, scheduling, early, answer>>
      /\ test[i] = "queued" /\ test' = [test EXCEPT ![i] = "running"]
      /\ lane' = [lane EXCEPT ![i] = home]
      /\ idle' = SubSeq(idle, 1, Len(idle) - 1)
      /\ answer = 0 /\ Len(idle) > 0
  BY DEF Begin, FirstPoll, input, Testing
<1>2. /\ idle \in Seq(LaneSet) /\ Len(idle) \in Nat /\ DOMAIN idle = 1..Len(idle)
      /\ idle' \in Seq(LaneSet) /\ Len(idle') = Len(idle) - 1
      /\ \A k \in 1..Len(idle) - 1 : idle'[k] = idle[k]
      /\ home \in LaneSet
  BY <1>1, WithoutLast, LenProperties DEF LInv, TypeOK
<1>3. DOMAIN idle' = 1..Len(idle) - 1
  BY <1>2, LenProperties
<1> HIDE DEF home
<1>4. TypeOK'
  BY <1>1, <1>2 DEF LInv, TypeOK
<1>5. Running' = Running \cup {i} /\ i \notin Running
  BY <1>1 DEF Running, LInv, TypeOK
<1>6. /\ lane'[i] = home
      /\ \A j \in Tests : j # i => lane'[j] = lane[j]
  BY <1>1 DEF LInv, TypeOK
<1>7. Separate'
  <2>1. \A j \in Running : j \in Tests /\ j # i /\ lane[j] # home
    BY <1>1, <1>2, <1>5 DEF LInv, Separate, Running, home
  <2>2. \A k \in DOMAIN idle' : k \in DOMAIN idle /\ idle'[k] = idle[k] /\ idle[k] # home
    BY <1>1, <1>2, <1>3 DEF LInv, Separate, home
  <2>3. QED
    BY <1>5, <1>6, <2>1, <2>2 DEF LInv, Separate
<1>8. Alone'
  <2>1. SUFFICES ASSUME width = 1
                 PROVE  /\ InHand' = InHand /\ Running' = {i} /\ lane'[i] = 0
    BY <1>1, <2>1 DEF LInv, Alone
  <2>2. InHand' = InHand /\ i \in InHand /\ Running \subseteq InHand
    BY <1>1 DEF InHand, Running, LInv, TypeOK
  <2>3. Running = {}
    BY <1>5, <2>1, <2>2 DEF LInv, Alone
  <2>4. QED
    BY <1>5, <1>6, <2>1, <2>2, <2>3 DEF LInv, Alone, home
<1>9. Ordered'
  BY <1>1, PolledInOrder DEF Begin
<1>10. Stopped'
  <2>1. Failures' = Failures
    BY <1>1 DEF Failures, LInv, TypeOK
  <2>2. QED
    BY <1>1, <2>1 DEF LInv, TypeOK, Stopped
<1>11. Settled'
  BY <1>1 DEF Settled
<1>12. Kept'
  <2>1. ASSUME NEW l \in LaneSet, NEW k \in DOMAIN idle, idle[k] = l
        PROVE  l = home \/ (k \in DOMAIN idle' /\ idle'[k] = l)
    BY <1>2, <1>3, <2>1 DEF home
  <2>2. \A j \in Running : j \in Running' /\ lane'[j] = lane[j]
    BY <1>5, <1>6 DEF Running
  <2>3. i \in Running' /\ lane'[i] = home
    BY <1>5, <1>6
  <2>4. QED
    BY <2>1, <2>2, <2>3 DEF LInv, Kept
<1>13. QED
  BY <1>4, <1>7, <1>8, <1>9, <1>10, <1>11, <1>12 DEF LInv

LEMMA SkipLInv ==
  ASSUME LInv, NEW i \in Tests, Skip(i)
  PROVE  LInv'
<1>1. /\ UNCHANGED <<flaws, fate, width, stage, lane, idle, scheduling, early, answer>>
      /\ test[i] = "queued" /\ test' = [test EXCEPT ![i] = "skipped"]
      /\ answer = 0 /\ ~scheduling
  BY DEF Skip, FirstPoll, input, Testing
<1>2. TypeOK'
  BY <1>1 DEF LInv, TypeOK
<1>3. Running' = Running /\ Failures' = Failures /\ InHand' \subseteq InHand
  BY <1>1 DEF Running, Failures, InHand, LInv, TypeOK
<1>4. Separate' /\ Kept'
  BY <1>1, <1>3 DEF LInv, Separate, Kept
<1>5. Alone'
  BY <1>1, <1>3 DEF LInv, Alone
<1>6. Ordered'
  BY <1>1, PolledInOrder DEF Skip
<1>7. Stopped'
  <2>1. PICK j \in Failures : TRUE
    BY <1>1 DEF LInv, Stopped
  <2>2. j \in Tests /\ test[j] = "ended" /\ j # i
    BY <1>1, <2>1 DEF Failures
  <2>3. j < i
    BY <1>1, <2>2, TestOrder DEF LInv, Ordered
  <2>4. QED
    BY <1>1, <1>3, <2>1, <2>3 DEF LInv, TypeOK, Stopped
<1>8. Settled'
  BY <1>1 DEF Settled
<1>9. QED
  BY <1>2, <1>4, <1>5, <1>6, <1>7, <1>8 DEF LInv

LEMMA EndLInv ==
  ASSUME LInv, NEW i \in Tests, End(i)
  PROVE  LInv'
<1>1. /\ UNCHANGED <<flaws, fate, width, stage, lane, early, answer>>
      /\ test[i] = "running" /\ test' = [test EXCEPT ![i] = "ended"]
      /\ idle' = Append(idle, lane[i])
      /\ scheduling' = (scheduling /\ fate[i] = "outcome")
      /\ answer = 0
  BY DEF End, input, Testing
<1>2. /\ idle \in Seq(LaneSet) /\ Len(idle) \in Nat /\ DOMAIN idle = 1..Len(idle)
      /\ idle' \in Seq(LaneSet) /\ Len(idle') = Len(idle) + 1
      /\ \A k \in 1..Len(idle) : idle'[k] = idle[k]
      /\ idle'[Len(idle) + 1] = lane[i]
  <2>1. idle \in Seq(LaneSet) /\ lane[i] \in LaneSet
    BY DEF LInv, TypeOK
  <2>2. QED
    BY <1>1, <2>1, WithLast, LenProperties
<1>3. DOMAIN idle' = 1..Len(idle) + 1
  BY <1>2, LenProperties
<1>4. TypeOK'
  BY <1>1, <1>2 DEF LInv, TypeOK
<1>5. Running' = Running \ {i} /\ i \in Running /\ InHand' \subseteq InHand
  BY <1>1 DEF Running, InHand, LInv, TypeOK
<1>6. Separate'
  <2>1. \A j \in Running' : j \in Running /\ lane[j] # lane[i]
    BY <1>5 DEF LInv, Separate
  <2>2. \A k \in DOMAIN idle' :
          \/ k \in DOMAIN idle /\ idle'[k] = idle[k] /\ idle[k] # lane[i]
          \/ k = Len(idle) + 1 /\ idle'[k] = lane[i]
    BY <1>2, <1>3, <1>5 DEF LInv, Separate
  <2>3. QED
    BY <1>1, <2>1, <2>2 DEF LInv, Separate
<1>7. Alone'
  <2>1. width = 1 => Running' = {} /\ lane[i] = 0
    <3>1. Running \subseteq InHand
      BY DEF Running, InHand
    <3>2. QED
      BY <1>5, <3>1 DEF LInv, Alone
  <2>2. QED
    BY <1>1, <1>2, <1>5, <2>1 DEF LInv, Alone
<1>8. Ordered'
  BY <1>1, LanesAssumption DEF LInv, TypeOK, Ordered, Tests
<1>9. Failures' = Failures \cup {j \in {i} : fate[j] = "failure"}
  BY <1>1 DEF Failures, LInv, TypeOK
<1>10. Stopped'
  <2>1. fate[i] \in {"outcome", "failure"}
    BY DEF LInv, TypeOK
  <2>2. ~scheduling' => Failures' # {}
    BY <1>1, <1>9, <2>1 DEF LInv, TypeOK, Stopped
  <2>3. \A j \in Tests : test'[j] = "skipped" => test[j] = "skipped"
    BY <1>1 DEF LInv, TypeOK
  <2>4. QED
    BY <1>9, <2>2, <2>3 DEF LInv, Stopped
<1>11. Settled'
  BY <1>1 DEF Settled
<1>12. Kept'
  <2>1. \A k \in DOMAIN idle : k \in DOMAIN idle' /\ idle'[k] = idle[k]
    BY <1>2, <1>3
  <2>2. Len(idle) + 1 \in DOMAIN idle' /\ idle'[Len(idle) + 1] = lane[i]
    BY <1>2, <1>3
  <2>3. \A j \in Running : j = i \/ j \in Running'
    BY <1>5
  <2>4. QED
    BY <1>1, <2>1, <2>2, <2>3 DEF LInv, Kept
<1>13. QED
  BY <1>4, <1>6, <1>7, <1>8, <1>10, <1>11, <1>12 DEF LInv

LEMMA StepLInv == LInv /\ [Next]_vars => LInv'
<1> SUFFICES ASSUME LInv, [Next]_vars PROVE LInv'
  OBVIOUS
<1>1. CASE Check \/ Lost
  BY <1>1, CheckLInv
<1>2. ASSUME NEW i \in Tests, TestStep(i) PROVE LInv'
  BY <1>2, PullLInv, BeginLInv, SkipLInv, EndLInv DEF TestStep
<1>3. CASE Collect
  BY <1>3, CollectLInv
<1>4. CASE UNCHANGED vars
  BY <1>4 DEF vars, LInv, TypeOK, Separate, Kept, Alone, Ordered, Stopped, Settled,
     Running, InHand, Failures
<1>5. QED
  BY <1>1, <1>2, <1>3, <1>4 DEF Next

LEMMA Invariance == Spec => []LInv
BY InitLInv, StepLInv, PTL DEF Spec

-----------------------------------------------------------------------------
(* The theorems.                                                           *)

\* Every state of a submission's judging has its type (pipeline.rs, attempt).
THEOREM LanesTypes == Spec => []TypeOK
<1>1. LInv => TypeOK
  BY DEF LInv
<1>2. QED
  BY <1>1, Invariance, PTL

\* However many lanes there are and whichever tests fail, two tests under way
\* are in different lanes, no idle lane is held, and a trial's tests are all
\* measured in the first lane (Lanes::take and Lane::drop of pipeline.rs).
THEOREM LanesAreSeparate == Spec => []OneTestPerLane
<1>1. LInv => OneTestPerLane
  BY DEF LInv, Separate, Alone, OneTestPerLane
<1>2. QED
  BY <1>1, Invariance, PTL

\* However many lanes and tests and whichever tests fail or are skipped, no
\* lane is lost, and every lane is idle again by the time there is an answer
\* (attempt, `scheduling`, and Lane::drop).
THEOREM LanesComeBack == Spec => []NoLaneIsLost
<1>1. LInv => NoLaneIsLost
  BY DEF LInv, Settled, Kept, NoLaneIsLost, Running
<1>2. QED
  BY <1>1, Invariance, PTL

-----------------------------------------------------------------------------
(* Judging at once is judging in turn.                                     *)

\* What is judged is judged in order, by its definition.
LEMMA JudgedPrefix == InTurn!InOrder(Judged) /\ Judged \subseteq Tests
<1>1. \A i \in Judged : \A j \in 1..i-1 : j \in Tests /\ j \in Judged /\ fate[j] = "outcome"
  BY LanesAssumption DEF Judged, Tests
<1>2. QED
  BY <1>1 DEF InTurn!InOrder, Judged

\* A step that ends no test twice and answers nothing judges on, or stutters.
LEMMA JudgesOn ==
  ASSUME LInv, answer = 0, answer' = 0, fate' = fate,
         \A j \in Tests : test[j] = "ended" => test'[j] = "ended"
  PROVE  InTurn!Judge
<1>1. Judged \subseteq Judged'
  BY LanesAssumption DEF Judged, Tests
<1>2. (InTurn!InOrder(Judged) /\ Judged \subseteq Tests)'
  BY JudgedPrefix, PTL
<1>3. InTurn!InOrder(Judged') /\ Judged' \subseteq InTurn!Tests
  BY <1>2 DEF InTurn!InOrder, InTurn!Tests, Tests
<1>4. QED
  BY <1>1, <1>3 DEF InTurn!Judge

\* The answer is the first failure of what was judged in turn, or none.
LEMMA CollectsInTurn ==
  ASSUME LInv, Collect
  PROVE  InTurn!Fail \/ InTurn!Finish
<1>1. /\ answer = 0 /\ UNCHANGED <<fate, test>>
      /\ \A i \in Tests : test[i] \in {"ended", "skipped"}
  BY DEF Collect, Testing, input
<1>2. Judged' = Judged
  BY <1>1 DEF Judged
<1>3. \A i \in Tests : fate[i] \in {"outcome", "failure"}
  BY DEF LInv, TypeOK
<1>4. CASE Failures = {} /\ answer' = N + 1
  <2>1. \A i \in Tests : test[i] = "ended" /\ fate[i] = "outcome"
    BY <1>1, <1>3, <1>4 DEF LInv, Stopped, Failures
  <2>2. Judged = Tests
    BY <2>1, LanesAssumption DEF Judged, Tests
  <2>3. QED
    BY <1>1, <1>2, <1>4, <2>1, <2>2 DEF InTurn!Finish, InTurn!Tests, Tests
<1>5. ASSUME NEW i \in Failures, \A j \in Failures : i <= j, answer' = i
      PROVE  InTurn!Fail
  <2>1. i \in Tests /\ test[i] = "ended" /\ fate[i] = "failure" /\ i \in Nat
    BY LanesAssumption DEF Failures, Tests
  <2>2. \A j \in 1..i : j \in Tests /\ (j < i => j \notin Failures)
    BY <1>5, <2>1, LanesAssumption DEF Tests, Failures
  <2>3. \A j \in 1..i : test[j] # "skipped"
    <3>1. SUFFICES ASSUME NEW j \in 1..i, test[j] = "skipped" PROVE FALSE
      OBVIOUS
    <3>2. PICK k \in Failures : k < j
      BY <2>2, <3>1 DEF LInv, Stopped
    <3>3. k \in Nat
      BY LanesAssumption DEF Failures, Tests
    <3>4. QED
      BY <1>5, <2>1, <3>1, <3>2, <3>3
  <2>4. \A j \in 1..i : test[j] = "ended" /\ (j < i => fate[j] = "outcome")
    BY <1>1, <1>3, <2>2, <2>3 DEF Failures
  <2>5. i \in Judged
    BY <2>1, <2>4 DEF Judged
  <2>6. QED
    BY <1>1, <1>2, <1>5, <2>1, <2>5 DEF InTurn!Fail
<1>6. QED
  BY <1>4, <1>5 DEF Collect, Settle

LEMMA StepInTurn ==
  LInv /\ [Next]_vars => [InTurn!Next]_<<fate, Judged, answer>>
<1> SUFFICES ASSUME LInv, [Next]_vars
             PROVE  InTurn!Next \/ UNCHANGED <<fate, Judged, answer>>
  OBVIOUS
<1>1. CASE Check \/ Lost
  BY <1>1 DEF Check, Lost, input, Judged
<1>2. ASSUME NEW i \in Tests, TestStep(i) PROVE InTurn!Judge
  <2>1. answer = 0 /\ answer' = 0 /\ fate' = fate
    BY <1>2 DEF TestStep, Pull, Begin, Skip, End, FirstPoll, Testing, input
  <2>2. test[i] # "ended" /\ \A j \in Tests : j # i => test'[j] = test[j]
    BY <1>2 DEF TestStep, Pull, Begin, Skip, End, FirstPoll, LInv, TypeOK
  <2>3. QED
    BY <2>1, <2>2, JudgesOn
<1>3. CASE Collect
  BY <1>3, CollectsInTurn DEF InTurn!Next
<1>4. CASE UNCHANGED vars
  BY <1>4 DEF vars, Judged
<1>5. QED
  BY <1>1, <1>2, <1>3, <1>4 DEF Next, InTurn!Next

\* With any number of tests in any number of lanes, ending in any order, the
\* answer is what judging the tests one after another answers: the failure of
\* the first test that fails, or every outcome (attempt and in_test_order).
THEOREM LanesImplementJudging == Spec => JudgedInTurn
<1>1. Init => InTurn!Init
  BY LanesAssumption DEF Init, InTurn!Init, InTurn!Tests, Tests, Judged
<1>2. QED
  BY <1>1, StepInTurn, Invariance, PTL DEF Spec, JudgedInTurn, InTurn!Spec

=============================================================================
