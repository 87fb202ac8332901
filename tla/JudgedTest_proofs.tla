--------------------------- MODULE JudgedTest_proofs ---------------------------
(***************************************************************************)
(* Theorems about JudgedTest, for every set of problems, every grain of    *)
(* the clock and every horizon.  The clock only moves when nothing of the  *)
(* Runner's can, and never past a deadline: what is due is done in time.   *)
(***************************************************************************)
EXTENDS JudgedTest, Integers, TLAPS

-----------------------------------------------------------------------------
(* The inductive invariant, in parts.                                      *)

\* What is read has been printed, and what is asked for has been read.
Streamed ==
  /\ read = "wrong" => sent \in {"wrong", "flood"}
  /\ read = "flood" => sent = "flood"
  /\ capped <=> read = "flood"
  /\ asked = "Output" => read = "flood"
  /\ asked = "Decided" => aside = "none" /\ read \in {"wrong", "flood"}
  /\ relay = "ended" => neverOpened \/ (Gone /\ read = sent)
  /\ sent # "none" => shim = "program"

\* How the judged container got where it is.
Ended ==
  /\ run = "over" <=> stop # "none"
  /\ run = "over" => prog = "over"
  /\ prog # "working" /\ run # "over" => shim = "program"
  /\ run # "over" => exit # "killed" /\ (prog = "over" <=> exit # "none")
  /\ run = "over" => exit # "none"
  /\ exit \in {"zero", "nonzero", "memory"} \/ slow => shim = "program"
  /\ stop \in {"OnItsOwn", "TimeLimit", "Memory"} => shim = "program"
  /\ stop = "Memory" => exit = "memory"
  /\ stop = "OnItsOwn" => exit \in {"zero", "nonzero"}
  /\ stop = "Output" => read = "flood"
  /\ stop = "Decided" => aside = "none" /\ read \in {"wrong", "flood"}

\* Who judges, and what was said.
Judged ==
  /\ aside = "none" <=> judge = "none"
  /\ judge = "exited" <=> word # "none"
  /\ verdict = "opening" => aside = "interactor"

\* What is over when.
Closed ==
  /\ test # "running" => Gone /\ ~Judging /\ verdict # "opening"
  /\ test = "running" => result = "none"
  /\ feed = "none" <=> aside # "interactor"
  /\ test # "running" => feed # "from"
  /\ test = "feeding" => feed # "none"
  /\ test \in {"relaying", "done"} => feed \in {"none", "ended"}
  /\ test = "done" => relay = "ended"

Longest == IF Cap > Wall THEN Cap ELSE Wall

\* What each wait is bounded by.
Timed ==
  /\ run = "starting" => now = 0
  /\ run = "running" => now <= Cap
  /\ Judging => now <= Wall
  /\ test = "running" => now <= Longest
  /\ relay = "far" => relayBy = Wall /\ now <= Wall /\ far = "none"
  /\ relay = "output" => now <= relayBy /\ relayBy <= 2 * Wall
  /\ feed = "from" => feedBy = Wall
  /\ feed \in {"from", "to"} => now <= feedBy /\ Wall <= feedBy /\ feedBy <= Longest + Wall
  /\ now <= Longest + Wall

\* A judge that opens its channels does so at once, or never.
Opened ==
  /\ judge \in {"starting", "opening"} =>
       now = 0 /\ relay = "far" /\ (aside = "interactor" => feed = "from")
  /\ judge = "replying" => now = 0 /\ feed = "from" /\ aside = "interactor"
  /\ judge \in {"replying", "reading"} => relay # "far"
  /\ relay = "far" /\ problem.reads /\ judge = "exited" => word = "broken"
  /\ relay = "far" => aside # "none"

Broken == judge \in {"failed", "killed", "outlasted", "hung"} \/ word = "broken" \/ neverOpened

\* A program that could not be started was kept from it by its judge or by
\* a channel nobody opened.
Begun ==
  /\ shim # "program" => lively = 0 /\ (run = "running" => now <= Window)
  /\ shim = "output" => relay # "reading" \/ Gone
  /\ relay = "ended" /\ ~Gone => neverOpened
  /\ run = "running" /\ shim = "output" /\ relay = "output" => now < Window
  /\ run = "running" /\ shim = "input" /\ aside # "interactor" => now < Window
  /\ aside = "interactor" /\ relay # "far" /\ ~Gone /\ shim # "program" =>
       \/ now = 0 /\ feed \in {"from", "to"} /\ (feed = "from" => judge = "replying")
       \/ Broken
  /\ run = "over" /\ shim = "input" => Broken
  /\ run = "over" /\ shim = "output" =>
       \/ Broken
       \/ relay \in {"far", "output"} /\ test # "running"
       \/ relay = "far" /\ now \in 1..(Wall - 1)

\* An answer was earned, and so was its blame.
Settled ==
  /\ AcceptedIsEarned
  /\ BlameIsEarned

IInv ==
  /\ TypeOK /\ Streamed /\ Ended /\ Judged /\ Closed
  /\ Timed /\ Opened /\ Begun /\ Settled

-----------------------------------------------------------------------------
(* What a step is.                                                         *)

\* What the properties need of a problem.
LEMMA ProblemFacts ==
  ASSUME problem \in Problems
  PROVE  /\ limit \in Nat /\ limit >= 1
         /\ aside \in {"none", "checker", "interactor"}
         /\ problem.reads \in BOOLEAN
         /\ aside = "interactor" => problem.reads
         /\ Window = 4 * limit + 4 /\ Cap = 5 * limit + 10
<1>1. /\ problem \in [limit : Nat \ {0}, aside : {"none", "checker", "interactor"},
                       reads : BOOLEAN]
      /\ problem.aside = "interactor" => problem.reads
  BY JudgedAssumption
<1>2. limit \in Nat /\ limit >= 1
  BY <1>1 DEF limit
<1>3. QED
  BY <1>1, <1>2 DEF aside, Window, Cap, Ceiling

\* No step changes the problem, nor what is derived from it.
LEMMA ProblemStays ==
  ASSUME Next
  PROVE  /\ problem' = problem /\ limit' = limit /\ aside' = aside
         /\ Window' = Window /\ Cap' = Cap /\ Longest' = Longest
<1>1. problem' = problem
  BY  DEF Next, Urgent, Leisure, Start, ShimOpensOutput, ShimOpensInput, Exited,
      Enough, Reaped, JudgeStarts, JudgeSkips, JudgeKilled, Released,
      VerdictGivenUp, FarOpened, FarGivenUp, OutputGivenUp, Reads, RelayEnds,
      FeedHears, FeedGivesUp, FeedEnds, Joined, FeedAwaited, Settle, Prints,
      Turns, Ends, RunFails, JudgeFails, JudgeBreaks, JudgeAnswers, JudgeHangs,
      JudgeSpeaks, Tick, EndRun, JudgeExits
<1>2. QED
  BY <1>1 DEF limit, aside, Window, Cap, Ceiling, Longest

\* What the clock's step passes: no deadline that is still ahead.
LEMMA TickMoves ==
  ASSUME TypeOK, Tick
  PROVE  /\ now' \in Nat /\ now' > now /\ ~Ready /\ test # "done"
         /\ \A e \in {Wall, lively + Window, spun + Ceiling, Cap, relayBy, feedBy} :
              e > now => now' <= e
<1>1. PICK d \in Deadlines : /\ d > now
                            /\ \A e \in Deadlines : e > now => d <= e
                            /\ now' = d
  BY DEF Tick
<1>2. limit \in Nat
  BY ProblemFacts DEF TypeOK
<1>3. (now \div Grain) + 1 \in Int /\ Grain \in Int
  BY JudgedAssumption DEF TypeOK
<1>4. ((now \div Grain) + 1) * Grain \in Int
  BY <1>3
<1>5. d \in Int
  BY <1>1, <1>2, <1>4 DEF Deadlines, TypeOK, Wall, Window, Ceiling, Cap
<1>6. now' \in Nat /\ now' > now
  BY <1>1, <1>5 DEF TypeOK
<1>7. QED
  BY <1>1, <1>6 DEF Tick, Deadlines

-----------------------------------------------------------------------------
(* The invariant, part by part.                                            *)

\* Every variable keeps its type.
LEMMA TypeSteps ==
  ASSUME TypeOK, Next
  PROVE  TypeOK'
<1>same. UNCHANGED problem
  BY ProblemStays
<1>1. CASE Start
  BY <1>1, <1>same DEF Start, judgeVars, relayVars, feedVars, testVars, TypeOK
<1>2. CASE ShimOpensOutput
  BY <1>2, <1>same
  DEF ShimOpensOutput, progVars, judgeVars, feedVars, testVars, TypeOK
<1>3. CASE ShimOpensInput
  BY <1>3, <1>same DEF ShimOpensInput, judgeVars, relayVars, testVars, TypeOK
<1>4. CASE Exited
  BY <1>4, <1>same
  DEF Exited, Program, EndRun, judgeVars, relayVars, feedVars, testVars, TypeOK
<1>5. CASE Enough
  BY <1>5, <1>same
  DEF Enough, EndRun, judgeVars, relayVars, feedVars, testVars, TypeOK
<1>6. CASE Reaped
  BY <1>6, <1>same
  DEF Reaped, Idle, EndRun, judgeVars, relayVars, feedVars, testVars, TypeOK
<1>7. CASE JudgeStarts
  BY <1>7, <1>same
  DEF JudgeStarts, runVars, progVars, relayVars, feedVars, testVars, TypeOK
<1>8. CASE JudgeSkips
  BY <1>8, <1>same
  DEF JudgeSkips, JudgeExits, runVars, progVars, relayVars, feedVars, testVars,
      TypeOK
<1>9. CASE JudgeKilled
  BY <1>9, <1>same
  DEF JudgeKilled, JudgeLate, runVars, progVars, relayVars, feedVars, testVars,
      TypeOK
<1>10. CASE Released
  BY <1>10, <1>same
  DEF Released, Judging, runVars, progVars, relayVars, feedVars, testVars,
      TypeOK
<1>11. CASE VerdictGivenUp
  BY <1>11, <1>same
  DEF VerdictGivenUp, runVars, progVars, relayVars, feedVars, testVars, TypeOK
<1>12. CASE FarOpened
  BY <1>12, <1>same
  DEF FarOpened, Wall, runVars, progVars, feedVars, testVars, TypeOK
<1>13. CASE FarGivenUp
  BY <1>13, <1>same
  DEF FarGivenUp, Wall, runVars, progVars, judgeVars, feedVars, testVars,
      TypeOK
<1>14. CASE OutputGivenUp
  BY <1>14, <1>same
  DEF OutputGivenUp, runVars, progVars, judgeVars, feedVars, testVars, TypeOK
<1>15. CASE Reads
  BY <1>15, <1>same
  DEF Reads, Judging, runVars, progVars, judgeVars, feedVars, testVars, TypeOK
<1>16. CASE RelayEnds
  BY <1>16, <1>same
  DEF RelayEnds, runVars, progVars, judgeVars, feedVars, testVars, TypeOK
<1>17. CASE FeedHears
  BY <1>17, <1>same
  DEF FeedHears, Wall, runVars, progVars, relayVars, testVars, TypeOK
<1>18. CASE FeedGivesUp
  BY <1>18, <1>same
  DEF FeedGivesUp, runVars, progVars, judgeVars, relayVars, testVars, TypeOK
<1>19. CASE FeedEnds
  BY <1>19, <1>same
  DEF FeedEnds, Judging, runVars, judgeVars, relayVars, testVars, TypeOK
<1>20. CASE Joined
  BY <1>20, <1>same
  DEF Joined, JudgeOver, Judging, Wall, runVars, progVars, judgeVars, TypeOK
<1>21. CASE FeedAwaited
  BY <1>21, <1>same
  DEF FeedAwaited, runVars, progVars, judgeVars, relayVars, feedVars, TypeOK
<1>22. CASE Settle
  <2>1. Outcome \in {"error", "accepted", "WA", "TLE", "MLE", "OLE", "RE"}
    BY DEF Outcome, StopNote, Answer
  <2>2. result' \in {"error", "accepted", "WA", "TLE", "MLE", "OLE", "RE"}
    BY <1>22, <2>1 DEF Settle
  <2>3. test' = "done" /\ trouble' \in BOOLEAN
    BY <1>22 DEF Settle, TypeOK
  <2>4. QED
    BY <1>22, <1>same, <2>2, <2>3
    DEF Settle, runVars, progVars, judgeVars, relayVars, feedVars, TypeOK
<1>23. CASE Prints
  BY <1>23, <1>same
  DEF Prints, Program, runVars, judgeVars, relayVars, feedVars, testVars,
      TypeOK
<1>24. CASE Turns
  BY <1>24, <1>same
  DEF Turns, Program, runVars, judgeVars, relayVars, feedVars, testVars, TypeOK
<1>25. CASE Ends
  <2>1. /\ prog' = "over" /\ exit' \in {"zero", "nonzero", "memory"}
        /\ UNCHANGED <<now, run, stop, shim, lively, spun, sent, asked, judge, word, verdict,
                       relay, relayBy, far, read, capped, neverOpened, feed, feedBy, test,
                       result, trouble>>
    BY <1>25 DEF Ends, runVars, judgeVars, relayVars, feedVars, testVars
  <2>2. slow' \in BOOLEAN
    BY <1>25 DEF Ends, TypeOK
  <2>3. QED
    BY <2>1, <2>2, <1>same DEF TypeOK
<1>26. CASE RunFails
  BY <1>26, <1>same
  DEF RunFails, progVars, judgeVars, relayVars, feedVars, testVars, TypeOK
<1>27. CASE JudgeFails
  BY <1>27, <1>same
  DEF JudgeFails, runVars, progVars, relayVars, feedVars, testVars, TypeOK
<1>28. CASE JudgeBreaks
  BY <1>28, <1>same
  DEF JudgeBreaks, JudgeExits, runVars, progVars, relayVars, feedVars,
      testVars, TypeOK
<1>29. CASE JudgeAnswers
  BY <1>29, <1>same
  DEF JudgeAnswers, JudgeExits, runVars, progVars, relayVars, feedVars,
      testVars, TypeOK
<1>30. CASE JudgeHangs
  BY <1>30, <1>same
  DEF JudgeHangs, runVars, progVars, relayVars, feedVars, testVars, TypeOK
<1>31. CASE JudgeSpeaks
  BY <1>31, <1>same
  DEF JudgeSpeaks, runVars, judgeVars, relayVars, feedVars, testVars, TypeOK
<1>32. CASE Tick
  BY <1>32, <1>same, TickMoves
  DEF Tick, runVars, progVars, judgeVars, relayVars, feedVars, testVars, TypeOK
<1>33. QED
  BY <1>1, <1>2, <1>3, <1>4, <1>5, <1>6, <1>7, <1>8, <1>9, <1>10, <1>11, <1>12,
     <1>13, <1>14, <1>15, <1>16, <1>17, <1>18, <1>19, <1>20, <1>21, <1>22,
     <1>23, <1>24, <1>25, <1>26, <1>27, <1>28, <1>29, <1>30, <1>31, <1>32
  DEF Next, Urgent, Leisure

\* What is printed only gets worse.
LEMMA BadnessOrder ==
  /\ Badness("none") = 1 /\ Badness("right") = 2
  /\ Badness("wrong") = 3 /\ Badness("flood") = 4
<1>1. DOMAIN Streams = 1..4
  BY DEF Streams
<1>2. /\ Streams[1] = "none" /\ Streams[2] = "right"
      /\ Streams[3] = "wrong" /\ Streams[4] = "flood"
  BY DEF Streams
<1>3. \A s : Badness(s) = CHOOSE i \in 1..4 : Streams[i] = s
  BY <1>1 DEF Badness
<1>4. \A i \in 1..4 : i = 1 \/ i = 2 \/ i = 3 \/ i = 4
  OBVIOUS
<1>5. QED
  BY <1>2, <1>3, <1>4

\* What is read was printed, whoever reads it and when.
LEMMA StreamedSteps ==
  ASSUME TypeOK, Streamed, Ended, Next
  PROVE  Streamed'
<1>same. /\ problem' = problem /\ limit' = limit /\ aside' = aside
         /\ Window' = Window /\ Cap' = Cap /\ Longest' = Longest
  BY ProblemStays
<1>fits. /\ limit \in Nat /\ limit >= 1
         /\ aside \in {"none", "checker", "interactor"}
         /\ problem.reads \in BOOLEAN
         /\ aside = "interactor" => problem.reads
         /\ Window = 4 * limit + 4 /\ Cap = 5 * limit + 10
  BY ProblemFacts DEF TypeOK
<1>1. CASE Start
  BY <1>1, <1>same, <1>fits
  DEF Start, judgeVars, relayVars, feedVars, testVars, TypeOK, Streamed, Gone
<1>2. CASE ShimOpensOutput
  BY <1>2, <1>same, <1>fits
  DEF ShimOpensOutput, progVars, judgeVars, feedVars, testVars, TypeOK,
      Streamed, Gone
<1>3. CASE ShimOpensInput
  BY <1>3, <1>same, <1>fits
  DEF ShimOpensInput, judgeVars, relayVars, testVars, TypeOK, Streamed, Gone
<1>4. CASE Exited
  BY <1>4, <1>same, <1>fits
  DEF Exited, Program, EndRun, judgeVars, relayVars, feedVars, testVars,
      TypeOK, Streamed, Gone
<1>5. CASE Enough
  BY <1>5, <1>same, <1>fits
  DEF Enough, EndRun, judgeVars, relayVars, feedVars, testVars, TypeOK,
      Streamed, Gone
<1>6. CASE Reaped
  BY <1>6, <1>same, <1>fits
  DEF Reaped, Idle, EndRun, judgeVars, relayVars, feedVars, testVars, TypeOK,
      Streamed, Gone
<1>7. CASE FarOpened
  BY <1>7, <1>same, <1>fits
  DEF FarOpened, runVars, progVars, feedVars, testVars, TypeOK, Streamed, Gone
<1>8. CASE FarGivenUp
  BY <1>8, <1>same, <1>fits
  DEF FarGivenUp, runVars, progVars, judgeVars, feedVars, testVars, TypeOK,
      Streamed, Gone
<1>9. CASE OutputGivenUp
  BY <1>9, <1>same, <1>fits
  DEF OutputGivenUp, runVars, progVars, judgeVars, feedVars, testVars, TypeOK,
      Streamed, Gone
<1>10. CASE Reads
  BY <1>10, <1>same, <1>fits
  DEF Reads, Judging, runVars, progVars, judgeVars, feedVars, testVars, TypeOK,
      Streamed, Gone
<1>11. CASE RelayEnds
  BY <1>11, <1>same, <1>fits
  DEF RelayEnds, runVars, progVars, judgeVars, feedVars, testVars, TypeOK,
      Streamed, Gone
<1>12. CASE Joined
  BY <1>12, <1>same, <1>fits
  DEF Joined, JudgeOver, Judging, runVars, progVars, judgeVars, TypeOK,
      Streamed, Gone
<1>13. CASE Prints
  BY <1>13, <1>same, <1>fits, BadnessOrder
  DEF Prints, Program, runVars, judgeVars, relayVars, feedVars, testVars,
      TypeOK, Streamed, Gone
<1>14. CASE RunFails
  BY <1>14, <1>same, <1>fits
  DEF RunFails, progVars, judgeVars, relayVars, feedVars, testVars, TypeOK,
      Streamed, Gone
<1>15. CASE \/ JudgeStarts \/ JudgeSkips \/ JudgeKilled \/ Released
            \/ VerdictGivenUp \/ FeedHears \/ FeedGivesUp \/ FeedEnds
            \/ FeedAwaited \/ Settle \/ Turns \/ Ends \/ JudgeFails
            \/ JudgeBreaks \/ JudgeAnswers \/ JudgeHangs \/ JudgeSpeaks \/ Tick
  <2>1. UNCHANGED <<problem, run, shim, sent, asked, relay, neverOpened, read, capped>>
    BY <1>15, <1>same
    DEF JudgeStarts, JudgeSkips, JudgeKilled, Released, VerdictGivenUp,
        FeedHears, FeedGivesUp, FeedEnds, FeedAwaited, Settle, Turns, Ends,
        JudgeFails, JudgeBreaks, JudgeAnswers, JudgeHangs, JudgeSpeaks, Tick,
        JudgeExits, runVars, progVars, judgeVars, relayVars, feedVars, testVars
  <2>2. QED
    BY <2>1, <1>same, <1>fits DEF TypeOK, Streamed, Gone
<1>16. QED
  BY <1>1, <1>2, <1>3, <1>4, <1>5, <1>6, <1>7, <1>8, <1>9, <1>10, <1>11, <1>12,
     <1>13, <1>14, <1>15
  DEF Next, Urgent, Leisure

\* The container's end has its reason.
LEMMA EndedSteps ==
  ASSUME TypeOK, Streamed, Ended, Next
  PROVE  Ended'
<1>same. /\ problem' = problem /\ limit' = limit /\ aside' = aside
         /\ Window' = Window /\ Cap' = Cap /\ Longest' = Longest
  BY ProblemStays
<1>fits. /\ limit \in Nat /\ limit >= 1
         /\ aside \in {"none", "checker", "interactor"}
         /\ problem.reads \in BOOLEAN
         /\ aside = "interactor" => problem.reads
         /\ Window = 4 * limit + 4 /\ Cap = 5 * limit + 10
  BY ProblemFacts DEF TypeOK
<1>1. CASE Start
  BY <1>1, <1>same, <1>fits
  DEF Start, judgeVars, relayVars, feedVars, testVars, TypeOK, Streamed, Ended
<1>2. CASE ShimOpensOutput
  BY <1>2, <1>same, <1>fits
  DEF ShimOpensOutput, progVars, judgeVars, feedVars, testVars, TypeOK,
      Streamed, Ended
<1>3. CASE ShimOpensInput
  BY <1>3, <1>same, <1>fits
  DEF ShimOpensInput, judgeVars, relayVars, testVars, TypeOK, Streamed, Ended
<1>4. CASE Exited
  BY <1>4, <1>same, <1>fits
  DEF Exited, Program, EndRun, judgeVars, relayVars, feedVars, testVars,
      TypeOK, Streamed, Ended
<1>5. CASE Enough
  BY <1>5, <1>same, <1>fits
  DEF Enough, EndRun, judgeVars, relayVars, feedVars, testVars, TypeOK,
      Streamed, Ended
<1>6. CASE Reaped
  BY <1>6, <1>same, <1>fits
  DEF Reaped, Idle, EndRun, Program, judgeVars, relayVars, feedVars, testVars,
      TypeOK, Streamed, Ended
<1>7. CASE Reads
  BY <1>7, <1>same, <1>fits
  DEF Reads, Judging, runVars, progVars, judgeVars, feedVars, testVars, TypeOK,
      Streamed, Ended
<1>8. CASE FeedEnds
  BY <1>8, <1>same, <1>fits
  DEF FeedEnds, Judging, runVars, judgeVars, relayVars, testVars, TypeOK,
      Streamed, Ended
<1>9. CASE Turns
  BY <1>9, <1>same, <1>fits
  DEF Turns, Program, runVars, judgeVars, relayVars, feedVars, testVars,
      TypeOK, Streamed, Ended
<1>10. CASE Ends
  BY <1>10, <1>same, <1>fits
  DEF Ends, Program, runVars, judgeVars, relayVars, feedVars, testVars, TypeOK,
      Streamed, Ended
<1>11. CASE RunFails
  BY <1>11, <1>same, <1>fits
  DEF RunFails, progVars, judgeVars, relayVars, feedVars, testVars, TypeOK,
      Streamed, Ended
<1>12. CASE JudgeSpeaks
  BY <1>12, <1>same, <1>fits
  DEF JudgeSpeaks, runVars, judgeVars, relayVars, feedVars, testVars, TypeOK,
      Streamed, Ended
<1>13. CASE \/ JudgeStarts \/ JudgeSkips \/ JudgeKilled \/ Released
            \/ VerdictGivenUp \/ FarOpened \/ FarGivenUp \/ OutputGivenUp
            \/ RelayEnds \/ FeedHears \/ FeedGivesUp \/ Joined \/ FeedAwaited
            \/ Settle \/ Prints \/ JudgeFails \/ JudgeBreaks \/ JudgeAnswers
            \/ JudgeHangs \/ Tick
  <2>1. UNCHANGED <<problem, run, stop, shim, prog, exit, slow, asked, read>>
    BY <1>13, <1>same
    DEF JudgeStarts, JudgeSkips, JudgeKilled, Released, VerdictGivenUp,
        FarOpened, FarGivenUp, OutputGivenUp, RelayEnds, FeedHears,
        FeedGivesUp, Joined, FeedAwaited, Settle, Prints, JudgeFails,
        JudgeBreaks, JudgeAnswers, JudgeHangs, Tick, JudgeExits, runVars,
        progVars, judgeVars, relayVars, feedVars, testVars
  <2>2. QED
    BY <2>1, <1>same, <1>fits DEF TypeOK, Streamed, Ended
<1>14. QED
  BY <1>1, <1>2, <1>3, <1>4, <1>5, <1>6, <1>7, <1>8, <1>9, <1>10, <1>11, <1>12,
     <1>13
  DEF Next, Urgent, Leisure

\* The judge's word is heard from a judge that exited.
LEMMA JudgedSteps ==
  ASSUME TypeOK, Judged, Next
  PROVE  Judged'
<1>same. /\ problem' = problem /\ limit' = limit /\ aside' = aside
         /\ Window' = Window /\ Cap' = Cap /\ Longest' = Longest
  BY ProblemStays
<1>fits. /\ limit \in Nat /\ limit >= 1
         /\ aside \in {"none", "checker", "interactor"}
         /\ problem.reads \in BOOLEAN
         /\ aside = "interactor" => problem.reads
         /\ Window = 4 * limit + 4 /\ Cap = 5 * limit + 10
  BY ProblemFacts DEF TypeOK
<1>1. CASE JudgeStarts
  BY <1>1, <1>same, <1>fits
  DEF JudgeStarts, runVars, progVars, relayVars, feedVars, testVars, TypeOK,
      Judged
<1>2. CASE JudgeSkips
  BY <1>2, <1>same, <1>fits
  DEF JudgeSkips, JudgeExits, runVars, progVars, relayVars, feedVars, testVars,
      TypeOK, Judged
<1>3. CASE JudgeKilled
  BY <1>3, <1>same, <1>fits
  DEF JudgeKilled, JudgeLate, runVars, progVars, relayVars, feedVars, testVars,
      TypeOK, Judged
<1>4. CASE Released
  BY <1>4, <1>same, <1>fits
  DEF Released, Judging, runVars, progVars, relayVars, feedVars, testVars,
      TypeOK, Judged
<1>5. CASE VerdictGivenUp
  BY <1>5, <1>same, <1>fits
  DEF VerdictGivenUp, runVars, progVars, relayVars, feedVars, testVars, TypeOK,
      Judged
<1>6. CASE FarOpened
  BY <1>6, <1>same, <1>fits
  DEF FarOpened, runVars, progVars, feedVars, testVars, TypeOK, Judged
<1>7. CASE FeedHears
  BY <1>7, <1>same, <1>fits
  DEF FeedHears, runVars, progVars, relayVars, testVars, TypeOK, Judged
<1>8. CASE JudgeFails
  BY <1>8, <1>same, <1>fits
  DEF JudgeFails, runVars, progVars, relayVars, feedVars, testVars, TypeOK,
      Judged
<1>9. CASE JudgeBreaks
  BY <1>9, <1>same, <1>fits
  DEF JudgeBreaks, JudgeExits, runVars, progVars, relayVars, feedVars,
      testVars, TypeOK, Judged
<1>10. CASE JudgeAnswers
  BY <1>10, <1>same, <1>fits
  DEF JudgeAnswers, JudgeExits, runVars, progVars, relayVars, feedVars,
      testVars, TypeOK, Judged
<1>11. CASE JudgeHangs
  BY <1>11, <1>same, <1>fits
  DEF JudgeHangs, runVars, progVars, relayVars, feedVars, testVars, TypeOK,
      Judged
<1>12. CASE \/ Start \/ ShimOpensOutput \/ ShimOpensInput \/ Exited \/ Enough
            \/ Reaped \/ FarGivenUp \/ OutputGivenUp \/ Reads \/ RelayEnds
            \/ FeedGivesUp \/ FeedEnds \/ Joined \/ FeedAwaited \/ Settle
            \/ Prints \/ Turns \/ Ends \/ RunFails \/ JudgeSpeaks \/ Tick
  <2>1. UNCHANGED <<problem, judge, word, verdict>>
    BY <1>12, <1>same
    DEF Start, ShimOpensOutput, ShimOpensInput, Exited, Enough, Reaped,
        FarGivenUp, OutputGivenUp, Reads, RelayEnds, FeedGivesUp, FeedEnds,
        Joined, FeedAwaited, Settle, Prints, Turns, Ends, RunFails,
        JudgeSpeaks, Tick, EndRun, runVars, progVars, judgeVars, relayVars,
        feedVars, testVars
  <2>2. QED
    BY <2>1, <1>same, <1>fits DEF TypeOK, Judged
<1>13. QED
  BY <1>1, <1>2, <1>3, <1>4, <1>5, <1>6, <1>7, <1>8, <1>9, <1>10, <1>11, <1>12
  DEF Next, Urgent, Leisure

\* What a test waits for is over when it goes on.
LEMMA ClosedSteps ==
  ASSUME TypeOK, Judged, Closed, Next
  PROVE  Closed'
<1>same. /\ problem' = problem /\ limit' = limit /\ aside' = aside
         /\ Window' = Window /\ Cap' = Cap /\ Longest' = Longest
  BY ProblemStays
<1>fits. /\ limit \in Nat /\ limit >= 1
         /\ aside \in {"none", "checker", "interactor"}
         /\ problem.reads \in BOOLEAN
         /\ aside = "interactor" => problem.reads
         /\ Window = 4 * limit + 4 /\ Cap = 5 * limit + 10
  BY ProblemFacts DEF TypeOK
<1>1. CASE Start
  BY <1>1, <1>same, <1>fits
  DEF Start, judgeVars, relayVars, feedVars, testVars, TypeOK, Judged, Closed,
      Gone, Judging
<1>2. CASE ShimOpensOutput
  BY <1>2, <1>same, <1>fits
  DEF ShimOpensOutput, progVars, judgeVars, feedVars, testVars, TypeOK, Judged,
      Closed, Gone, Judging
<1>3. CASE ShimOpensInput
  BY <1>3, <1>same, <1>fits
  DEF ShimOpensInput, judgeVars, relayVars, testVars, TypeOK, Judged, Closed,
      Gone, Judging
<1>4. CASE Exited
  BY <1>4, <1>same, <1>fits
  DEF Exited, Program, EndRun, judgeVars, relayVars, feedVars, testVars,
      TypeOK, Judged, Closed, Gone, Judging
<1>5. CASE Enough
  BY <1>5, <1>same, <1>fits
  DEF Enough, EndRun, judgeVars, relayVars, feedVars, testVars, TypeOK, Judged,
      Closed, Gone, Judging
<1>6. CASE Reaped
  BY <1>6, <1>same, <1>fits
  DEF Reaped, Idle, EndRun, judgeVars, relayVars, feedVars, testVars, TypeOK,
      Judged, Closed, Gone, Judging
<1>7. CASE JudgeStarts
  BY <1>7, <1>same, <1>fits
  DEF JudgeStarts, runVars, progVars, relayVars, feedVars, testVars, TypeOK,
      Judged, Closed, Gone, Judging
<1>8. CASE JudgeSkips
  BY <1>8, <1>same, <1>fits
  DEF JudgeSkips, JudgeExits, runVars, progVars, relayVars, feedVars, testVars,
      TypeOK, Judged, Closed, Gone, Judging
<1>9. CASE JudgeKilled
  BY <1>9, <1>same, <1>fits
  DEF JudgeKilled, JudgeLate, runVars, progVars, relayVars, feedVars, testVars,
      TypeOK, Judged, Closed, Gone, Judging
<1>10. CASE Released
  BY <1>10, <1>same, <1>fits
  DEF Released, Judging, runVars, progVars, relayVars, feedVars, testVars,
      TypeOK, Judged, Closed, Gone
<1>11. CASE VerdictGivenUp
  BY <1>11, <1>same, <1>fits
  DEF VerdictGivenUp, runVars, progVars, relayVars, feedVars, testVars, TypeOK,
      Judged, Closed, Gone, Judging
<1>12. CASE FarOpened
  BY <1>12, <1>same, <1>fits
  DEF FarOpened, runVars, progVars, feedVars, testVars, TypeOK, Judged, Closed,
      Gone, Judging
<1>13. CASE FarGivenUp
  BY <1>13, <1>same, <1>fits
  DEF FarGivenUp, runVars, progVars, judgeVars, feedVars, testVars, TypeOK,
      Judged, Closed, Gone, Judging
<1>14. CASE OutputGivenUp
  BY <1>14, <1>same, <1>fits
  DEF OutputGivenUp, runVars, progVars, judgeVars, feedVars, testVars, TypeOK,
      Judged, Closed, Gone, Judging
<1>15. CASE RelayEnds
  BY <1>15, <1>same, <1>fits
  DEF RelayEnds, runVars, progVars, judgeVars, feedVars, testVars, TypeOK,
      Judged, Closed, Gone, Judging
<1>16. CASE FeedHears
  BY <1>16, <1>same, <1>fits
  DEF FeedHears, runVars, progVars, relayVars, testVars, TypeOK, Judged,
      Closed, Gone, Judging
<1>17. CASE FeedGivesUp
  BY <1>17, <1>same, <1>fits
  DEF FeedGivesUp, runVars, progVars, judgeVars, relayVars, testVars, TypeOK,
      Judged, Closed, Gone, Judging
<1>18. CASE FeedEnds
  BY <1>18, <1>same, <1>fits
  DEF FeedEnds, Judging, runVars, judgeVars, relayVars, testVars, TypeOK,
      Judged, Closed, Gone
<1>19. CASE Joined
  BY <1>19, <1>same, <1>fits
  DEF Joined, JudgeOver, Judging, runVars, progVars, judgeVars, TypeOK, Judged,
      Closed, Gone
<1>20. CASE FeedAwaited
  BY <1>20, <1>same, <1>fits
  DEF FeedAwaited, runVars, progVars, judgeVars, relayVars, feedVars, TypeOK,
      Judged, Closed, Gone, Judging
<1>21. CASE Settle
  BY <1>21, <1>same, <1>fits
  DEF Settle, runVars, progVars, judgeVars, relayVars, feedVars, TypeOK,
      Judged, Closed, Gone, Judging
<1>22. CASE RunFails
  BY <1>22, <1>same, <1>fits
  DEF RunFails, progVars, judgeVars, relayVars, feedVars, testVars, TypeOK,
      Judged, Closed, Gone, Judging
<1>23. CASE JudgeFails
  BY <1>23, <1>same, <1>fits
  DEF JudgeFails, runVars, progVars, relayVars, feedVars, testVars, TypeOK,
      Judged, Closed, Gone, Judging
<1>24. CASE JudgeBreaks
  BY <1>24, <1>same, <1>fits
  DEF JudgeBreaks, JudgeExits, runVars, progVars, relayVars, feedVars,
      testVars, TypeOK, Judged, Closed, Gone, Judging
<1>25. CASE JudgeAnswers
  BY <1>25, <1>same, <1>fits
  DEF JudgeAnswers, JudgeExits, runVars, progVars, relayVars, feedVars,
      testVars, TypeOK, Judged, Closed, Gone, Judging
<1>26. CASE JudgeHangs
  BY <1>26, <1>same, <1>fits
  DEF JudgeHangs, runVars, progVars, relayVars, feedVars, testVars, TypeOK,
      Judged, Closed, Gone, Judging
<1>27. CASE Reads \/ Prints \/ Turns \/ Ends \/ JudgeSpeaks \/ Tick
  <2>1. UNCHANGED <<problem, test, run, judge, verdict, result, feed, relay>>
    BY <1>27, <1>same
    DEF Reads, Prints, Turns, Ends, JudgeSpeaks, Tick, runVars, progVars,
        judgeVars, relayVars, feedVars, testVars
  <2>2. QED
    BY <2>1, <1>same, <1>fits DEF TypeOK, Judged, Closed, Gone, Judging
<1>28. QED
  BY <1>1, <1>2, <1>3, <1>4, <1>5, <1>6, <1>7, <1>8, <1>9, <1>10, <1>11, <1>12,
     <1>13, <1>14, <1>15, <1>16, <1>17, <1>18, <1>19, <1>20, <1>21, <1>22,
     <1>23, <1>24, <1>25, <1>26, <1>27
  DEF Next, Urgent, Leisure

\* A judge opens its channels before the clock moves.
LEMMA OpenedSteps ==
  ASSUME TypeOK, Judged, Closed, Timed, Opened, Next
  PROVE  Opened'
<1>same. /\ problem' = problem /\ limit' = limit /\ aside' = aside
         /\ Window' = Window /\ Cap' = Cap /\ Longest' = Longest
  BY ProblemStays
<1>fits. /\ limit \in Nat /\ limit >= 1
         /\ aside \in {"none", "checker", "interactor"}
         /\ problem.reads \in BOOLEAN
         /\ aside = "interactor" => problem.reads
         /\ Window = 4 * limit + 4 /\ Cap = 5 * limit + 10
  BY ProblemFacts DEF TypeOK
<1>1. CASE ShimOpensOutput
  BY <1>1, <1>same, <1>fits
  DEF ShimOpensOutput, progVars, judgeVars, feedVars, testVars, TypeOK, Judged,
      Closed, Timed, Opened, Judging, Wall, Gone
<1>2. CASE ShimOpensInput
  BY <1>2, <1>same, <1>fits
  DEF ShimOpensInput, judgeVars, relayVars, testVars, TypeOK, Judged, Closed,
      Timed, Opened, Judging, Wall, Gone
<1>3. CASE JudgeStarts
  BY <1>3, <1>same, <1>fits
  DEF JudgeStarts, runVars, progVars, relayVars, feedVars, testVars, TypeOK,
      Judged, Closed, Timed, Opened, Judging, Wall, Gone
<1>4. CASE JudgeSkips
  BY <1>4, <1>same, <1>fits
  DEF JudgeSkips, JudgeExits, runVars, progVars, relayVars, feedVars, testVars,
      TypeOK, Judged, Closed, Timed, Opened, Judging, Wall, Gone
<1>5. CASE JudgeKilled
  BY <1>5, <1>same, <1>fits
  DEF JudgeKilled, JudgeLate, runVars, progVars, relayVars, feedVars, testVars,
      TypeOK, Judged, Closed, Timed, Opened, Judging, Wall, Gone
<1>6. CASE FarOpened
  BY <1>6, <1>same, <1>fits
  DEF FarOpened, runVars, progVars, feedVars, testVars, TypeOK, Judged, Closed,
      Timed, Opened, Judging, Wall, Gone
<1>7. CASE FarGivenUp
  BY <1>7, <1>same, <1>fits
  DEF FarGivenUp, runVars, progVars, judgeVars, feedVars, testVars, TypeOK,
      Judged, Closed, Timed, Opened, Judging, Wall, Gone
<1>8. CASE OutputGivenUp
  BY <1>8, <1>same, <1>fits
  DEF OutputGivenUp, runVars, progVars, judgeVars, feedVars, testVars, TypeOK,
      Judged, Closed, Timed, Opened, Judging, Wall, Gone
<1>9. CASE RelayEnds
  BY <1>9, <1>same, <1>fits
  DEF RelayEnds, runVars, progVars, judgeVars, feedVars, testVars, TypeOK,
      Judged, Closed, Timed, Opened, Judging, Wall, Gone
<1>10. CASE FeedHears
  BY <1>10, <1>same, <1>fits
  DEF FeedHears, runVars, progVars, relayVars, testVars, TypeOK, Judged,
      Closed, Timed, Opened, Judging, Wall, Gone
<1>11. CASE FeedGivesUp
  BY <1>11, <1>same, <1>fits
  DEF FeedGivesUp, runVars, progVars, judgeVars, relayVars, testVars, TypeOK,
      Judged, Closed, Timed, Opened, Judging, Wall, Gone
<1>12. CASE FeedEnds
  BY <1>12, <1>same, <1>fits
  DEF FeedEnds, Judging, runVars, judgeVars, relayVars, testVars, TypeOK,
      Judged, Closed, Timed, Opened, Wall, Gone
<1>13. CASE Joined
  BY <1>13, <1>same, <1>fits
  DEF Joined, JudgeOver, Judging, runVars, progVars, judgeVars, TypeOK, Judged,
      Closed, Timed, Opened, Wall, Gone
<1>14. CASE JudgeFails
  BY <1>14, <1>same, <1>fits
  DEF JudgeFails, runVars, progVars, relayVars, feedVars, testVars, TypeOK,
      Judged, Closed, Timed, Opened, Judging, Wall, Gone
<1>15. CASE JudgeBreaks
  BY <1>15, <1>same, <1>fits
  DEF JudgeBreaks, JudgeExits, runVars, progVars, relayVars, feedVars,
      testVars, TypeOK, Judged, Closed, Timed, Opened, Judging, Wall, Gone
<1>16. CASE JudgeAnswers
  BY <1>16, <1>same, <1>fits
  DEF JudgeAnswers, JudgeExits, runVars, progVars, relayVars, feedVars,
      testVars, TypeOK, Judged, Closed, Timed, Opened, Judging, Wall, Gone
<1>17. CASE JudgeHangs
  BY <1>17, <1>same, <1>fits
  DEF JudgeHangs, runVars, progVars, relayVars, feedVars, testVars, TypeOK,
      Judged, Closed, Timed, Opened, Judging, Wall, Gone
<1>18. CASE Tick
  BY <1>18, <1>same, <1>fits, TickMoves
  DEF Tick, Ready, Alongside, runVars, progVars, judgeVars, relayVars,
      feedVars, testVars, TypeOK, Judged, Closed, Timed, Opened, Judging, Wall,
      Gone
<1>19. CASE \/ Start \/ Exited \/ Enough \/ Reaped \/ Released
            \/ VerdictGivenUp \/ Reads \/ FeedAwaited \/ Settle \/ Prints
            \/ Turns \/ Ends \/ RunFails \/ JudgeSpeaks
  <2>1. UNCHANGED <<problem, judge, now, relay, feed, word>>
    BY <1>19, <1>same
    DEF Start, Exited, Enough, Reaped, Released, VerdictGivenUp, Reads,
        FeedAwaited, Settle, Prints, Turns, Ends, RunFails, JudgeSpeaks,
        EndRun, runVars, progVars, judgeVars, relayVars, feedVars, testVars
  <2>2. QED
    BY <2>1, <1>same, <1>fits
    DEF TypeOK, Judged, Closed, Timed, Opened, Judging, Wall, Gone
<1>20. QED
  BY <1>1, <1>2, <1>3, <1>4, <1>5, <1>6, <1>7, <1>8, <1>9, <1>10, <1>11, <1>12,
     <1>13, <1>14, <1>15, <1>16, <1>17, <1>18, <1>19
  DEF Next, Urgent, Leisure

\* Nothing waits beyond its deadline.
LEMMA TimedSteps ==
  ASSUME IInv, Next
  PROVE  Timed'
<1>same. /\ problem' = problem /\ limit' = limit /\ aside' = aside
         /\ Window' = Window /\ Cap' = Cap /\ Longest' = Longest
  BY ProblemStays
<1>fits. /\ limit \in Nat /\ limit >= 1
         /\ aside \in {"none", "checker", "interactor"}
         /\ problem.reads \in BOOLEAN
         /\ aside = "interactor" => problem.reads
         /\ Window = 4 * limit + 4 /\ Cap = 5 * limit + 10
  BY ProblemFacts DEF IInv, TypeOK
<1>long. Longest \in Nat /\ Cap <= Longest /\ Wall <= Longest
  BY <1>fits DEF Longest, Wall
<1>1. CASE Start
  <2>1. /\ run = "starting" /\ run' = "running" /\ now = 0
        /\ UNCHANGED <<now, judge, test, relay, relayBy, far, feed, feedBy>>
    BY <1>1 DEF Start, judgeVars, testVars, relayVars, feedVars, IInv, Timed
  <2>2. QED
    BY <2>1, <1>same, <1>fits DEF IInv, Timed, Judging
<1>2. CASE ShimOpensOutput
  BY <1>2, <1>same, <1>fits, <1>long
  DEF ShimOpensOutput, progVars, judgeVars, feedVars, testVars, IInv, TypeOK,
      Judged, Closed, Timed, Opened, Judging, Wall
<1>3. CASE ShimOpensInput
  BY <1>3, <1>same, <1>fits, <1>long
  DEF ShimOpensInput, judgeVars, relayVars, testVars, IInv, TypeOK, Judged,
      Closed, Timed, Opened, Judging, Wall
<1>4. CASE Exited
  BY <1>4, <1>same, <1>fits, <1>long
  DEF Exited, Program, EndRun, judgeVars, relayVars, feedVars, testVars, IInv,
      TypeOK, Judged, Closed, Timed, Opened, Judging, Wall
<1>5. CASE Enough
  BY <1>5, <1>same, <1>fits, <1>long
  DEF Enough, EndRun, judgeVars, relayVars, feedVars, testVars, IInv, TypeOK,
      Judged, Closed, Timed, Opened, Judging, Wall
<1>6. CASE Reaped
  BY <1>6, <1>same, <1>fits, <1>long
  DEF Reaped, Idle, EndRun, judgeVars, relayVars, feedVars, testVars, IInv,
      TypeOK, Judged, Closed, Timed, Opened, Judging, Wall
<1>7. CASE JudgeStarts
  BY <1>7, <1>same, <1>fits, <1>long
  DEF JudgeStarts, runVars, progVars, relayVars, feedVars, testVars, IInv,
      TypeOK, Judged, Closed, Timed, Opened, Judging, Wall
<1>8. CASE JudgeSkips
  BY <1>8, <1>same, <1>fits, <1>long
  DEF JudgeSkips, JudgeExits, runVars, progVars, relayVars, feedVars, testVars,
      IInv, TypeOK, Judged, Closed, Timed, Opened, Judging, Wall
<1>9. CASE JudgeKilled
  BY <1>9, <1>same, <1>fits, <1>long
  DEF JudgeKilled, JudgeLate, runVars, progVars, relayVars, feedVars, testVars,
      IInv, TypeOK, Judged, Closed, Timed, Opened, Judging, Wall
<1>10. CASE FarOpened
  BY <1>10, <1>same, <1>fits, <1>long
  DEF FarOpened, runVars, progVars, feedVars, testVars, IInv, TypeOK, Judged,
      Closed, Timed, Opened, Judging, Wall
<1>11. CASE FarGivenUp
  BY <1>11, <1>same, <1>fits, <1>long
  DEF FarGivenUp, runVars, progVars, judgeVars, feedVars, testVars, IInv,
      TypeOK, Judged, Closed, Timed, Opened, Judging, Wall
<1>12. CASE OutputGivenUp
  BY <1>12, <1>same, <1>fits, <1>long
  DEF OutputGivenUp, runVars, progVars, judgeVars, feedVars, testVars, IInv,
      TypeOK, Judged, Closed, Timed, Opened, Judging, Wall
<1>13. CASE Reads
  BY <1>13, <1>same, <1>fits, <1>long
  DEF Reads, Judging, runVars, progVars, judgeVars, feedVars, testVars, IInv,
      TypeOK, Judged, Closed, Timed, Opened, Wall
<1>14. CASE RelayEnds
  BY <1>14, <1>same, <1>fits, <1>long
  DEF RelayEnds, runVars, progVars, judgeVars, feedVars, testVars, IInv,
      TypeOK, Judged, Closed, Timed, Opened, Judging, Wall
<1>15. CASE FeedHears
  BY <1>15, <1>same, <1>fits, <1>long
  DEF FeedHears, runVars, progVars, relayVars, testVars, IInv, TypeOK, Judged,
      Closed, Timed, Opened, Judging, Wall
<1>16. CASE FeedGivesUp
  BY <1>16, <1>same, <1>fits, <1>long
  DEF FeedGivesUp, runVars, progVars, judgeVars, relayVars, testVars, IInv,
      TypeOK, Judged, Closed, Timed, Opened, Judging, Wall
<1>17. CASE FeedEnds
  BY <1>17, <1>same, <1>fits, <1>long
  DEF FeedEnds, Judging, runVars, judgeVars, relayVars, testVars, IInv, TypeOK,
      Judged, Closed, Timed, Opened, Wall
<1>18. CASE Joined
  BY <1>18, <1>same, <1>fits, <1>long
  DEF Joined, JudgeOver, Judging, runVars, progVars, judgeVars, IInv, TypeOK,
      Judged, Closed, Timed, Opened, Wall
<1>19. CASE FeedAwaited
  BY <1>19, <1>same, <1>fits, <1>long
  DEF FeedAwaited, runVars, progVars, judgeVars, relayVars, feedVars, IInv,
      TypeOK, Judged, Closed, Timed, Opened, Judging, Wall
<1>20. CASE Settle
  BY <1>20, <1>same, <1>fits, <1>long
  DEF Settle, runVars, progVars, judgeVars, relayVars, feedVars, IInv, TypeOK,
      Judged, Closed, Timed, Opened, Judging, Wall
<1>21. CASE RunFails
  BY <1>21, <1>same, <1>fits, <1>long
  DEF RunFails, progVars, judgeVars, relayVars, feedVars, testVars, IInv,
      TypeOK, Judged, Closed, Timed, Opened, Judging, Wall
<1>22. CASE JudgeFails
  BY <1>22, <1>same, <1>fits, <1>long
  DEF JudgeFails, runVars, progVars, relayVars, feedVars, testVars, IInv,
      TypeOK, Judged, Closed, Timed, Opened, Judging, Wall
<1>23. CASE JudgeBreaks
  BY <1>23, <1>same, <1>fits, <1>long
  DEF JudgeBreaks, JudgeExits, runVars, progVars, relayVars, feedVars,
      testVars, IInv, TypeOK, Judged, Closed, Timed, Opened, Judging, Wall
<1>24. CASE JudgeAnswers
  BY <1>24, <1>same, <1>fits, <1>long
  DEF JudgeAnswers, JudgeExits, runVars, progVars, relayVars, feedVars,
      testVars, IInv, TypeOK, Judged, Closed, Timed, Opened, Judging, Wall
<1>25. CASE JudgeHangs
  BY <1>25, <1>same, <1>fits, <1>long
  DEF JudgeHangs, runVars, progVars, relayVars, feedVars, testVars, IInv,
      TypeOK, Judged, Closed, Timed, Opened, Judging, Wall
<1>26. CASE Tick
  <2>1. /\ now' \in Nat /\ now' > now /\ test # "done"
        /\ UNCHANGED <<run, judge, test, relay, relayBy, far, feed, feedBy>>
        /\ \A e \in {Wall, Cap, relayBy, feedBy} : e > now => now' <= e
    BY <1>26, TickMoves
    DEF IInv, Tick, runVars, judgeVars, testVars, relayVars, feedVars
  <2>2. run # "starting" /\ (run = "running" => now < Cap)
    BY <1>26, <1>fits DEF Tick, Ready, IInv, TypeOK
  <2>3. Judging => now < Wall
    BY <1>26 DEF Tick, Ready, JudgeLate, Alongside, Judging, IInv, TypeOK, Wall
  <2>4. relay \in {"far", "output"} => now < relayBy
    BY <1>26 DEF Tick, Ready, IInv, TypeOK
  <2>5. feed \in {"from", "to"} => now < feedBy
    BY <1>26 DEF Tick, Ready, IInv, TypeOK
  <2>6. test = "running" => run = "running" \/ Judging
    BY <1>26, <2>2 DEF Tick, Ready, JudgeOver, IInv, TypeOK, Gone
  <2>7. /\ test = "feeding" => feed = "to"
        /\ test = "relaying" => relay \in {"far", "output"}
    BY <1>26 DEF Tick, Ready, IInv, TypeOK, Closed
  <2>8. now' <= Longest + Wall
    <3>1. CASE test = "running"
      BY <2>1, <2>2, <2>3, <2>6, <3>1, <1>fits, <1>long DEF Wall
    <3>2. CASE test = "feeding"
      BY <2>1, <2>5, <2>7, <3>2, <1>long DEF IInv, TypeOK, Timed, Wall
    <3>3. CASE test = "relaying"
      BY <2>1, <2>4, <2>7, <3>3, <1>long DEF IInv, TypeOK, Timed, Wall
    <3>4. QED
      BY <2>1, <3>1, <3>2, <3>3 DEF IInv, TypeOK
  <2>9. QED
    BY <2>1, <2>2, <2>3, <2>4, <2>5, <2>6, <2>8, <1>same, <1>fits, <1>long
    DEF IInv, TypeOK, Timed, Judging, Wall
<1>27. CASE \/ Released \/ VerdictGivenUp \/ Prints \/ Turns \/ Ends
            \/ JudgeSpeaks
  <2>1. UNCHANGED <<problem, run, now, judge, test, relay, relayBy, far, feed,
                    feedBy>>
    BY <1>27, <1>same
    DEF Released, VerdictGivenUp, Prints, Turns, Ends, JudgeSpeaks, runVars,
        progVars, judgeVars, relayVars, feedVars, testVars
  <2>2. QED
    BY <2>1, <1>same, <1>fits, <1>long
    DEF IInv, TypeOK, Judged, Closed, Timed, Opened, Judging, Wall
<1>28. QED
  BY <1>1, <1>2, <1>3, <1>4, <1>5, <1>6, <1>7, <1>8, <1>9, <1>10, <1>11, <1>12,
     <1>13, <1>14, <1>15, <1>16, <1>17, <1>18, <1>19, <1>20, <1>21, <1>22,
     <1>23, <1>24, <1>25, <1>26, <1>27
  DEF Next, Urgent, Leisure

\* A program that did not start was kept from it.
LEMMA BegunSteps ==
  ASSUME IInv, Next
  PROVE  Begun'
<1>same. /\ problem' = problem /\ limit' = limit /\ aside' = aside
         /\ Window' = Window /\ Cap' = Cap /\ Longest' = Longest
  BY ProblemStays
<1>fits. /\ limit \in Nat /\ limit >= 1
         /\ aside \in {"none", "checker", "interactor"}
         /\ problem.reads \in BOOLEAN
         /\ aside = "interactor" => problem.reads
         /\ Window = 4 * limit + 4 /\ Cap = 5 * limit + 10
  BY ProblemFacts DEF IInv, TypeOK
<1>1. CASE Start
  <2>1. /\ run = "starting" /\ run' = "running" /\ now = 0 /\ lively' = 0
        /\ UNCHANGED <<now, shim, relay, neverOpened, feed, judge, word, test>>
    BY <1>1 DEF Start, judgeVars, testVars, relayVars, feedVars, IInv, Timed
  <2>2. QED
    BY <2>1, <1>same, <1>fits DEF IInv, Begun, Broken, Gone
<1>2. CASE ShimOpensOutput
  BY <1>2, <1>same, <1>fits
  DEF ShimOpensOutput, progVars, judgeVars, feedVars, testVars, IInv, TypeOK,
      Streamed, Ended, Judged, Closed, Timed, Opened, Begun, Broken, Gone,
      Judging, Wall
<1>3. CASE ShimOpensInput
  BY <1>3, <1>same, <1>fits
  DEF ShimOpensInput, judgeVars, relayVars, testVars, IInv, TypeOK, Streamed,
      Ended, Judged, Closed, Timed, Opened, Begun, Broken, Gone, Judging, Wall
<1>4. CASE Exited
  BY <1>4, <1>same, <1>fits
  DEF Exited, Program, EndRun, judgeVars, relayVars, feedVars, testVars, IInv,
      TypeOK, Streamed, Ended, Judged, Closed, Timed, Opened, Begun, Broken,
      Gone, Judging, Wall
<1>5. CASE Enough
  BY <1>5, <1>same, <1>fits
  DEF Enough, EndRun, judgeVars, relayVars, feedVars, testVars, IInv, TypeOK,
      Streamed, Ended, Judged, Closed, Timed, Opened, Begun, Broken, Gone,
      Judging, Wall
<1>6. CASE Reaped
  BY <1>6, <1>same, <1>fits
  DEF Reaped, Idle, EndRun, judgeVars, relayVars, feedVars, testVars, IInv,
      TypeOK, Streamed, Ended, Judged, Closed, Timed, Opened, Begun, Broken,
      Gone, Judging, Wall
<1>7. CASE JudgeStarts
  BY <1>7, <1>same, <1>fits
  DEF JudgeStarts, runVars, progVars, relayVars, feedVars, testVars, IInv,
      TypeOK, Streamed, Ended, Judged, Closed, Timed, Opened, Begun, Broken,
      Gone, Judging, Wall
<1>8. CASE JudgeSkips
  BY <1>8, <1>same, <1>fits
  DEF JudgeSkips, JudgeExits, runVars, progVars, relayVars, feedVars, testVars,
      IInv, TypeOK, Streamed, Ended, Judged, Closed, Timed, Opened, Begun,
      Broken, Gone, Judging, Wall
<1>9. CASE JudgeKilled
  BY <1>9, <1>same, <1>fits
  DEF JudgeKilled, JudgeLate, runVars, progVars, relayVars, feedVars, testVars,
      IInv, TypeOK, Streamed, Ended, Judged, Closed, Timed, Opened, Begun,
      Broken, Gone, Judging, Wall
<1>10. CASE FarOpened
  BY <1>10, <1>same, <1>fits
  DEF FarOpened, runVars, progVars, feedVars, testVars, IInv, TypeOK, Streamed,
      Ended, Judged, Closed, Timed, Opened, Begun, Broken, Gone, Judging, Wall
<1>11. CASE FarGivenUp
  BY <1>11, <1>same, <1>fits
  DEF FarGivenUp, runVars, progVars, judgeVars, feedVars, testVars, IInv,
      TypeOK, Streamed, Ended, Judged, Closed, Timed, Opened, Begun, Broken,
      Gone, Judging, Wall
<1>12. CASE OutputGivenUp
  BY <1>12, <1>same, <1>fits
  DEF OutputGivenUp, runVars, progVars, judgeVars, feedVars, testVars, IInv,
      TypeOK, Streamed, Ended, Judged, Closed, Timed, Opened, Begun, Broken,
      Gone, Judging, Wall
<1>13. CASE RelayEnds
  BY <1>13, <1>same, <1>fits
  DEF RelayEnds, runVars, progVars, judgeVars, feedVars, testVars, IInv,
      TypeOK, Streamed, Ended, Judged, Closed, Timed, Opened, Begun, Broken,
      Gone, Judging, Wall
<1>14. CASE FeedHears
  BY <1>14, <1>same, <1>fits
  DEF FeedHears, runVars, progVars, relayVars, testVars, IInv, TypeOK,
      Streamed, Ended, Judged, Closed, Timed, Opened, Begun, Broken, Gone,
      Judging, Wall
<1>15. CASE FeedGivesUp
  BY <1>15, <1>same, <1>fits
  DEF FeedGivesUp, runVars, progVars, judgeVars, relayVars, testVars, IInv,
      TypeOK, Streamed, Ended, Judged, Closed, Timed, Opened, Begun, Broken,
      Gone, Judging, Wall
<1>16. CASE FeedEnds
  BY <1>16, <1>same, <1>fits
  DEF FeedEnds, Judging, runVars, judgeVars, relayVars, testVars, IInv, TypeOK,
      Streamed, Ended, Judged, Closed, Timed, Opened, Begun, Broken, Gone, Wall
<1>17. CASE Joined
  BY <1>17, <1>same, <1>fits
  DEF Joined, JudgeOver, Judging, runVars, progVars, judgeVars, IInv, TypeOK,
      Streamed, Ended, Judged, Closed, Timed, Opened, Begun, Broken, Gone, Wall
<1>18. CASE FeedAwaited
  BY <1>18, <1>same, <1>fits
  DEF FeedAwaited, runVars, progVars, judgeVars, relayVars, feedVars, IInv,
      TypeOK, Streamed, Ended, Judged, Closed, Timed, Opened, Begun, Broken,
      Gone, Judging, Wall
<1>19. CASE Settle
  BY <1>19, <1>same, <1>fits
  DEF Settle, runVars, progVars, judgeVars, relayVars, feedVars, IInv, TypeOK,
      Streamed, Ended, Judged, Closed, Timed, Opened, Begun, Broken, Gone,
      Judging, Wall
<1>20. CASE Prints
  BY <1>20, <1>same, <1>fits
  DEF Prints, Program, runVars, judgeVars, relayVars, feedVars, testVars, IInv,
      TypeOK, Streamed, Ended, Judged, Closed, Timed, Opened, Begun, Broken,
      Gone, Judging, Wall
<1>21. CASE Turns
  BY <1>21, <1>same, <1>fits
  DEF Turns, Program, runVars, judgeVars, relayVars, feedVars, testVars, IInv,
      TypeOK, Streamed, Ended, Judged, Closed, Timed, Opened, Begun, Broken,
      Gone, Judging, Wall
<1>22. CASE RunFails
  BY <1>22, <1>same, <1>fits
  DEF RunFails, progVars, judgeVars, relayVars, feedVars, testVars, IInv,
      TypeOK, Streamed, Ended, Judged, Closed, Timed, Opened, Begun, Broken,
      Gone, Judging, Wall
<1>23. CASE JudgeFails
  BY <1>23, <1>same, <1>fits
  DEF JudgeFails, runVars, progVars, relayVars, feedVars, testVars, IInv,
      TypeOK, Streamed, Ended, Judged, Closed, Timed, Opened, Begun, Broken,
      Gone, Judging, Wall
<1>24. CASE JudgeBreaks
  BY <1>24, <1>same, <1>fits
  DEF JudgeBreaks, JudgeExits, runVars, progVars, relayVars, feedVars,
      testVars, IInv, TypeOK, Streamed, Ended, Judged, Closed, Timed, Opened,
      Begun, Broken, Gone, Judging, Wall
<1>25. CASE JudgeAnswers
  BY <1>25, <1>same, <1>fits
  DEF JudgeAnswers, JudgeExits, runVars, progVars, relayVars, feedVars,
      testVars, IInv, TypeOK, Streamed, Ended, Judged, Closed, Timed, Opened,
      Begun, Broken, Gone, Judging, Wall
<1>26. CASE JudgeHangs
  BY <1>26, <1>same, <1>fits
  DEF JudgeHangs, runVars, progVars, relayVars, feedVars, testVars, IInv,
      TypeOK, Streamed, Ended, Judged, Closed, Timed, Opened, Begun, Broken,
      Gone, Judging, Wall
<1>27. CASE JudgeSpeaks
  BY <1>27, <1>same, <1>fits
  DEF JudgeSpeaks, runVars, judgeVars, relayVars, feedVars, testVars, IInv,
      TypeOK, Streamed, Ended, Judged, Closed, Timed, Opened, Begun, Broken,
      Gone, Judging, Wall
<1>28. CASE Tick
  <2>1. /\ now' \in Nat /\ now' > now
        /\ UNCHANGED <<run, shim, lively, relay, neverOpened, feed, judge, word, test>>
        /\ lively + Window > now => now' <= lively + Window
    BY <1>28, TickMoves
    DEF IInv, Tick, runVars, progVars, judgeVars, testVars, relayVars, feedVars
  <2>2. run = "running" /\ shim # "program" => now' <= Window
    <3>1. run = "running" /\ shim # "program" => lively = 0 /\ now < lively + Window
      BY <1>28, <1>fits DEF Tick, Ready, Idle, IInv, TypeOK, Begun
    <3>2. QED
      BY <2>1, <3>1, <1>fits
  <2>3. /\ ~(run = "running" /\ shim = "output" /\ relay = "output")
        /\ ~(run = "running" /\ shim = "input" /\ aside # "interactor")
    BY <1>28 DEF Tick, Ready
  <2>4. aside = "interactor" /\ relay # "far" /\ ~Gone /\ shim # "program" => Broken
    <3>1. SUFFICES ASSUME aside = "interactor", relay # "far", ~Gone, shim # "program", ~Broken
                   PROVE  FALSE
      OBVIOUS
    <3>2. feed \in {"from", "to"} /\ (feed = "from" => judge = "replying")
      BY <3>1 DEF IInv, Begun
    <3>3. run = "running"
      BY <1>28, <3>1 DEF Tick, Ready, Gone, IInv, TypeOK
    <3>4. feed = "to"
      BY <1>28, <3>2 DEF Tick, Ready
    <3>5. shim = "output"
      BY <1>28, <3>1, <3>3, <3>4 DEF Tick, Ready, IInv, TypeOK
    <3>6. relay = "output"
      BY <3>1, <3>3, <3>5 DEF IInv, TypeOK, Begun, Broken, Gone
    <3>7. QED
      BY <2>3, <3>3, <3>5, <3>6
  <2>5. run = "over" /\ shim = "output" =>
          Broken \/ (relay \in {"far", "output"} /\ test # "running")
    <3>1. SUFFICES ASSUME run = "over", shim = "output", ~Broken, test = "running",
                          relay = "far", now > 0
                   PROVE  FALSE
      BY DEF IInv, TypeOK, Begun
    <3>2. ~Judging
      BY <3>1 DEF IInv, Opened, Judging, Broken
    <3>3. verdict # "opening"
      BY <1>28, <3>2 DEF Tick, Ready
    <3>4. QED
      BY <1>28, <3>1, <3>2, <3>3 DEF Tick, Ready, Gone, JudgeOver
  <2>6. QED
    BY <2>1, <2>2, <2>3, <2>4, <2>5, <1>same DEF IInv, Begun, Broken, Gone
<1>29. CASE Released \/ VerdictGivenUp \/ Reads \/ Ends
  <2>1. UNCHANGED <<problem, run, shim, lively, now, relay, neverOpened, feed, judge,
                    word, test>>
    BY <1>29, <1>same
    DEF Released, VerdictGivenUp, Reads, Ends, runVars, progVars, judgeVars,
        relayVars, feedVars, testVars
  <2>2. QED
    BY <2>1, <1>same, <1>fits
    DEF IInv, TypeOK, Streamed, Ended, Judged, Closed, Timed, Opened, Begun,
        Broken, Gone, Judging, Wall
<1>30. QED
  BY <1>1, <1>2, <1>3, <1>4, <1>5, <1>6, <1>7, <1>8, <1>9, <1>10, <1>11, <1>12,
     <1>13, <1>14, <1>15, <1>16, <1>17, <1>18, <1>19, <1>20, <1>21, <1>22,
     <1>23, <1>24, <1>25, <1>26, <1>27, <1>28, <1>29
  DEF Next, Urgent, Leisure

\* Whatever is answered was earned.
LEMMA SettledSteps ==
  ASSUME IInv, Next
  PROVE  Settled'
<1>same. /\ problem' = problem /\ limit' = limit /\ aside' = aside
         /\ Window' = Window /\ Cap' = Cap /\ Longest' = Longest
  BY ProblemStays
<1>fits. /\ limit \in Nat /\ limit >= 1
         /\ aside \in {"none", "checker", "interactor"}
         /\ problem.reads \in BOOLEAN
         /\ aside = "interactor" => problem.reads
         /\ Window = 4 * limit + 4 /\ Cap = 5 * limit + 10
  BY ProblemFacts DEF IInv, TypeOK
<1>1. CASE ShimOpensOutput
  <2>1. /\ run = "running" /\ result = "none"
        /\ UNCHANGED <<result, stop, exit, sent, slow, word>>
    BY <1>1
    DEF ShimOpensOutput, progVars, judgeVars, testVars, IInv, TypeOK, Closed, Gone
  <2>2. QED
    BY <2>1 DEF Settled, AcceptedIsEarned, BlameIsEarned
<1>2. CASE ShimOpensInput
  <2>1. /\ run = "running" /\ result = "none"
        /\ UNCHANGED <<result, stop, exit, sent, slow, word>>
    BY <1>2
    DEF ShimOpensInput, progVars, judgeVars, testVars, IInv, TypeOK, Closed, Gone
  <2>2. QED
    BY <2>1 DEF Settled, AcceptedIsEarned, BlameIsEarned
<1>3. CASE Exited
  BY <1>3, <1>same, <1>fits
  DEF Exited, Program, EndRun, judgeVars, relayVars, feedVars, testVars, IInv,
      TypeOK, Streamed, Ended, Judged, Closed, Begun, Broken, Gone, Judging,
      Settled, AcceptedIsEarned, BlameIsEarned, Earned
<1>4. CASE Enough
  BY <1>4, <1>same, <1>fits
  DEF Enough, EndRun, judgeVars, relayVars, feedVars, testVars, IInv, TypeOK,
      Streamed, Ended, Judged, Closed, Begun, Broken, Gone, Judging, Settled,
      AcceptedIsEarned, BlameIsEarned, Earned
<1>5. CASE Reaped
  BY <1>5, <1>same, <1>fits
  DEF Reaped, Idle, EndRun, judgeVars, relayVars, feedVars, testVars, IInv,
      TypeOK, Streamed, Ended, Judged, Closed, Begun, Broken, Gone, Judging,
      Settled, AcceptedIsEarned, BlameIsEarned, Earned
<1>6. CASE JudgeSkips
  BY <1>6, <1>same, <1>fits
  DEF JudgeSkips, JudgeExits, runVars, progVars, relayVars, feedVars, testVars,
      IInv, TypeOK, Streamed, Ended, Judged, Closed, Begun, Broken, Gone,
      Judging, Settled, AcceptedIsEarned, BlameIsEarned, Earned
<1>7. CASE Settle
  BY <1>7, <1>same, <1>fits
  DEF Settle, Outcome, StopNote, Answer, Fault, Refused, runVars, progVars,
      judgeVars, relayVars, feedVars, IInv, TypeOK, Streamed, Ended, Judged,
      Closed, Begun, Broken, Gone, Judging, Settled, AcceptedIsEarned,
      BlameIsEarned, Earned
<1>8. CASE Prints
  BY <1>8, <1>same, <1>fits
  DEF Prints, Program, runVars, judgeVars, relayVars, feedVars, testVars, IInv,
      TypeOK, Streamed, Ended, Judged, Closed, Begun, Broken, Gone, Judging,
      Settled, AcceptedIsEarned, BlameIsEarned, Earned
<1>9. CASE Ends
  BY <1>9, <1>same, <1>fits
  DEF Ends, Program, runVars, judgeVars, relayVars, feedVars, testVars, IInv,
      TypeOK, Streamed, Ended, Judged, Closed, Begun, Broken, Gone, Judging,
      Settled, AcceptedIsEarned, BlameIsEarned, Earned
<1>10. CASE JudgeBreaks
  BY <1>10, <1>same, <1>fits
  DEF JudgeBreaks, JudgeExits, runVars, progVars, relayVars, feedVars,
      testVars, IInv, TypeOK, Streamed, Ended, Judged, Closed, Begun, Broken,
      Gone, Judging, Settled, AcceptedIsEarned, BlameIsEarned, Earned
<1>11. CASE JudgeAnswers
  BY <1>11, <1>same, <1>fits
  DEF JudgeAnswers, JudgeExits, runVars, progVars, relayVars, feedVars,
      testVars, IInv, TypeOK, Streamed, Ended, Judged, Closed, Begun, Broken,
      Gone, Judging, Settled, AcceptedIsEarned, BlameIsEarned, Earned
<1>12. CASE \/ Start \/ JudgeStarts \/ JudgeKilled \/ Released
            \/ VerdictGivenUp \/ FarOpened \/ FarGivenUp \/ OutputGivenUp
            \/ Reads \/ RelayEnds \/ FeedHears \/ FeedGivesUp \/ FeedEnds
            \/ Joined \/ FeedAwaited \/ Turns \/ RunFails \/ JudgeFails
            \/ JudgeHangs \/ JudgeSpeaks \/ Tick
  <2>1. UNCHANGED <<problem, result, stop, shim, exit, sent, slow, word>>
    BY <1>12, <1>same
    DEF Start, JudgeStarts, JudgeKilled, Released, VerdictGivenUp, FarOpened,
        FarGivenUp, OutputGivenUp, Reads, RelayEnds, FeedHears, FeedGivesUp,
        FeedEnds, Joined, FeedAwaited, Turns, RunFails, JudgeFails, JudgeHangs,
        JudgeSpeaks, Tick, runVars, progVars, judgeVars, relayVars, feedVars,
        testVars
  <2>2. QED
    BY <2>1, <1>same, <1>fits
    DEF IInv, TypeOK, Streamed, Ended, Judged, Closed, Begun, Broken, Gone,
        Judging, Settled, AcceptedIsEarned, BlameIsEarned, Earned
<1>13. QED
  BY <1>1, <1>2, <1>3, <1>4, <1>5, <1>6, <1>7, <1>8, <1>9, <1>10, <1>11, <1>12
  DEF Next, Urgent, Leisure

-------------------------------------------------------------------------------
(* Every state.                                                            *)

\* The invariant holds at first.
LEMMA InitInvariant == Init => IInv
<1>1. SUFFICES ASSUME Init
               PROVE  IInv
  OBVIOUS
<1>2. problem \in Problems
  BY <1>1 DEF Init
<1>3. /\ limit \in Nat /\ aside \in {"none", "checker", "interactor"}
      /\ Window = 4 * limit + 4 /\ Cap = 5 * limit + 10
  BY <1>2, ProblemFacts
<1>4. TypeOK
  <2>1. /\ judge \in {"none", "starting"} /\ verdict \in {"none", "opening"}
        /\ relay \in {"far", "output"} /\ feed \in {"none", "from"}
    BY <1>1 DEF Init
  <2>2. now = 0 /\ lively = 0 /\ spun = 0 /\ relayBy = 30 /\ feedBy = 30
    BY <1>1 DEF Init, Wall
  <2>3. /\ slow = FALSE /\ capped = FALSE /\ neverOpened = FALSE /\ trouble = FALSE
        /\ test = "running" /\ result = "none" /\ sent = "none" /\ read = "none"
        /\ run = "starting" /\ stop = "none" /\ shim = "output" /\ prog = "working"
        /\ exit = "none" /\ asked = "none" /\ word = "none" /\ far = "none"
    BY <1>1 DEF Init
  <2>4. /\ slow \in BOOLEAN /\ capped \in BOOLEAN /\ neverOpened \in BOOLEAN
        /\ trouble \in BOOLEAN
    BY <2>3
  <2>5. (test = "done") = (result # "none")
    BY <2>3
  <2>6. QED
    BY <1>2, <2>1, <2>2, <2>3, <2>4, <2>5 DEF TypeOK
<1>5. Streamed /\ Ended /\ Judged /\ Closed /\ Settled
  BY <1>1, <1>3
  DEF Init, Streamed, Ended, Judged, Closed, Settled, AcceptedIsEarned, BlameIsEarned,
      Gone, Judging
<1>6. Longest \in Nat
  BY <1>3 DEF Longest, Wall
<1>7. Timed
  BY <1>1, <1>3, <1>6 DEF Init, Timed, Wall, Judging
<1>8. Opened /\ Begun
  BY <1>1, <1>3 DEF Init, Opened, Begun, Broken, Gone
<1>9. QED
  BY <1>4, <1>5, <1>7, <1>8 DEF IInv

\* Every step keeps it.
LEMMA NextInvariant == IInv /\ [Next]_vars => IInv'
<1>1. SUFFICES ASSUME IInv, [Next]_vars
               PROVE  IInv'
  OBVIOUS
<1>2. TypeOK /\ Streamed /\ Ended /\ Judged /\ Closed /\ Timed /\ Opened
  BY <1>1 DEF IInv
<1>3. CASE Next
  <2>1. TypeOK' /\ Streamed' /\ Ended' /\ Judged' /\ Closed'
    BY <1>2, <1>3, TypeSteps, StreamedSteps, EndedSteps, JudgedSteps, ClosedSteps
  <2>2. Timed' /\ Opened' /\ Begun' /\ Settled'
    BY <1>1, <1>2, <1>3, TimedSteps, OpenedSteps, BegunSteps, SettledSteps
  <2>3. QED
    BY <2>1, <2>2 DEF IInv
<1>4. CASE UNCHANGED vars
  <2>1. UNCHANGED <<now, problem, run, stop, shim, prog, exit, slow, lively, spun, sent,
                    asked, judge, word, verdict, relay, relayBy, far, read, capped,
                    neverOpened, feed, feedBy, test, result, trouble>>
    BY <1>4 DEF vars, runVars, progVars, judgeVars, relayVars, feedVars, testVars
  <2>2. TypeOK' /\ Streamed' /\ Ended' /\ Judged' /\ Closed'
    BY <1>2, <2>1 DEF TypeOK, Streamed, Ended, Judged, Closed, Gone, Judging, aside
  <2>3. Timed' /\ Opened'
    BY <1>2, <2>1 DEF Timed, Opened, Judging, Longest, Cap, Ceiling, limit, aside
  <2>4. Begun' /\ Settled'
    BY <1>1, <2>1
    DEF IInv, Begun, Settled, AcceptedIsEarned, BlameIsEarned, Earned, Broken, Gone,
        Window, limit, aside
  <2>5. QED
    BY <2>2, <2>3, <2>4 DEF IInv
<1>5. QED
  BY <1>1, <1>3, <1>4

\* The invariant holds of every state.
THEOREM JudgedInvariant == Spec => []IInv
<1>1. QED
  BY InitInvariant, NextInvariant, PTL DEF Spec

\* A test is accepted exactly when the program earned it, whatever the
\* threads that watched it did first.
THEOREM AcceptedOnlyIfEarned == Spec => []AcceptedIsEarned
<1>1. IInv => AcceptedIsEarned
  BY DEF IInv, Settled
<1>2. QED
  BY <1>1, JudgedInvariant, PTL

\* No submission is blamed for what its judge, a channel or the machinery did.
THEOREM BlameOnlyIfEarned == Spec => []BlameIsEarned
<1>1. IInv => BlameIsEarned
  BY DEF IInv, Settled
<1>2. QED
  BY <1>1, JudgedInvariant, PTL

\* A test that is done has left no container, no judge and no thread.
THEOREM NothingIsLeftWaiting == Spec => []NothingOutlives
<1>1. IInv => NothingOutlives
  BY DEF IInv, TypeOK, Closed, NothingOutlives, Gone
<1>2. QED
  BY <1>1, JudgedInvariant, PTL

\* A test is over within its bound, whatever the time limit.
THEOREM TestsAreBounded == Spec => []TestIsBounded
<1>1. IInv => TestIsBounded
  BY DEF IInv, Timed, TestIsBounded, Longest
<1>2. QED
  BY <1>1, JudgedInvariant, PTL

-----------------------------------------------------------------------------
(* Errors.  What follows holds of problems whose limit suits their judge.  *)

\* A judge that reads outlives every run it reads, and a checker that does
\* not has been given up on before its run is reaped.
Suited(p) ==
  \/ p.aside = "none"
  \/ p.reads /\ 5 * (p.limit + 2) < Wall
  \/ p.aside = "checker" /\ ~p.reads /\ 4 * p.limit + 4 > Wall

Caused == trouble \/ word = "broken" \/ judge = "killed"

\* Where an error comes from.
Explained ==
  /\ run = "failed" \/ judge \in {"failed", "outlasted"} => trouble
  /\ shim # "output" => relay \notin {"far", "output"}
  /\ relay \in {"far", "output"} => Wall <= relayBy
  /\ run = "running" /\ relay = "output" => now < relayBy
  /\ judge \in {"replying", "reading"} => problem.reads
  /\ neverOpened => Caused \/ judge = "hung"
  /\ run = "over" /\ shim = "output" => Caused \/ judge = "hung"
  /\ judge = "reading" => trouble \/ now <= Cap
  /\ result = "error" => Caused

\* An error of a suited problem has its cause.
LEMMA ExplainedSteps ==
  ASSUME Suited(problem), IInv, Explained, Next
  PROVE  Explained'
<1>same. /\ problem' = problem /\ limit' = limit /\ aside' = aside
         /\ Window' = Window /\ Cap' = Cap /\ Longest' = Longest
  BY ProblemStays
<1>fits. /\ limit \in Nat /\ limit >= 1
         /\ aside \in {"none", "checker", "interactor"}
         /\ problem.reads \in BOOLEAN
         /\ aside = "interactor" => problem.reads
         /\ Window = 4 * limit + 4 /\ Cap = 5 * limit + 10
  BY ProblemFacts DEF IInv, TypeOK
<1>suits. \/ aside = "none"
          \/ problem.reads /\ Cap < Wall
          \/ aside = "checker" /\ ~problem.reads /\ Window > Wall
  BY <1>fits DEF Suited, limit, aside
<1>1. CASE Start
  BY <1>1, <1>same, <1>fits, <1>suits
  DEF Start, judgeVars, relayVars, feedVars, testVars, IInv, TypeOK, Ended,
      Judged, Closed, Timed, Opened, Explained, Caused, Gone, Judging, Wall
<1>2. CASE ShimOpensOutput
  BY <1>2, <1>same, <1>fits, <1>suits
  DEF ShimOpensOutput, progVars, judgeVars, feedVars, testVars, IInv, TypeOK,
      Ended, Judged, Closed, Timed, Opened, Explained, Caused, Gone, Judging,
      Wall
<1>3. CASE ShimOpensInput
  BY <1>3, <1>same, <1>fits, <1>suits
  DEF ShimOpensInput, judgeVars, relayVars, testVars, IInv, TypeOK, Ended,
      Judged, Closed, Timed, Opened, Explained, Caused, Gone, Judging, Wall
<1>4. CASE Exited
  BY <1>4, <1>same, <1>fits, <1>suits
  DEF Exited, Program, EndRun, judgeVars, relayVars, feedVars, testVars, IInv,
      TypeOK, Ended, Judged, Closed, Timed, Opened, Explained, Caused, Gone,
      Judging, Wall
<1>5. CASE Enough
  BY <1>5, <1>same, <1>fits, <1>suits
  DEF Enough, EndRun, Streamed, judgeVars, relayVars, feedVars, testVars, IInv,
      TypeOK, Ended, Judged, Closed, Timed, Opened, Explained, Caused, Gone,
      Judging, Wall
<1>6. CASE Reaped
  <2>1. /\ run = "running" /\ run' = "over"
        /\ UNCHANGED <<judge, trouble, shim, relay, relayBy, now, word, neverOpened, result>>
    BY <1>6 DEF Reaped, EndRun, judgeVars, relayVars, feedVars, testVars
  <2>2. shim = "output" => now >= Window /\ now > 0
    BY <1>6, <1>fits DEF Reaped, Idle, IInv, TypeOK, Ended, Begun
  <2>3. shim = "output" /\ ~neverOpened => relay = "far" /\ now <= Wall
    BY <2>1, <2>2, <1>fits DEF IInv, TypeOK, Begun, Gone, Timed
  <2>4. shim = "output" => Caused \/ judge = "hung"
    <3>1. SUFFICES ASSUME shim = "output", ~neverOpened, ~Caused, judge # "hung"
                   PROVE  FALSE
      BY DEF Explained
    <3>2. judge \notin {"starting", "opening", "replying", "reading"} /\ aside # "none"
      BY <2>2, <2>3, <3>1 DEF IInv, Opened
    <3>3. judge = "exited"
      BY <3>1, <3>2 DEF IInv, TypeOK, Judged, Explained, Caused
    <3>4. ~problem.reads
      BY <2>3, <3>1, <3>3 DEF IInv, Opened, Caused
    <3>5. QED
      BY <2>2, <2>3, <3>1, <3>2, <3>4, <1>suits, <1>fits DEF IInv, TypeOK, Wall
  <2>5. QED
    BY <2>1, <2>4, <1>same DEF Explained, Caused
<1>7. CASE JudgeStarts
  BY <1>7, <1>same, <1>fits, <1>suits
  DEF JudgeStarts, runVars, progVars, relayVars, feedVars, testVars, IInv,
      TypeOK, Ended, Judged, Closed, Timed, Opened, Explained, Caused, Gone,
      Judging, Wall
<1>8. CASE JudgeSkips
  BY <1>8, <1>same, <1>fits, <1>suits
  DEF JudgeSkips, JudgeExits, runVars, progVars, relayVars, feedVars, testVars,
      IInv, TypeOK, Ended, Judged, Closed, Timed, Opened, Explained, Caused,
      Gone, Judging, Wall
<1>9. CASE JudgeKilled
  BY <1>9, <1>same, <1>fits, <1>suits
  DEF JudgeKilled, JudgeLate, runVars, progVars, relayVars, feedVars, testVars,
      IInv, TypeOK, Ended, Judged, Closed, Timed, Opened, Explained, Caused,
      Gone, Judging, Wall
<1>10. CASE FarOpened
  BY <1>10, <1>same, <1>fits, <1>suits
  DEF FarOpened, runVars, progVars, feedVars, testVars, IInv, TypeOK, Ended,
      Judged, Closed, Timed, Opened, Explained, Caused, Gone, Judging, Wall
<1>11. CASE FarGivenUp
  BY <1>11, <1>same, <1>fits, <1>suits
  DEF FarGivenUp, runVars, progVars, judgeVars, feedVars, testVars, IInv,
      TypeOK, Ended, Judged, Closed, Timed, Opened, Explained, Caused, Gone,
      Judging, Wall
<1>12. CASE OutputGivenUp
  BY <1>12, <1>same, <1>fits, <1>suits
  DEF OutputGivenUp, runVars, progVars, judgeVars, feedVars, testVars, IInv,
      TypeOK, Ended, Judged, Closed, Timed, Opened, Explained, Caused, Gone,
      Judging, Wall
<1>13. CASE RelayEnds
  BY <1>13, <1>same, <1>fits, <1>suits
  DEF RelayEnds, runVars, progVars, judgeVars, feedVars, testVars, IInv,
      TypeOK, Ended, Judged, Closed, Timed, Opened, Explained, Caused, Gone,
      Judging, Wall
<1>14. CASE FeedHears
  BY <1>14, <1>same, <1>fits, <1>suits
  DEF FeedHears, runVars, progVars, relayVars, testVars, IInv, TypeOK, Ended,
      Judged, Closed, Timed, Opened, Explained, Caused, Gone, Judging, Wall
<1>15. CASE Joined
  BY <1>15, <1>same, <1>fits, <1>suits
  DEF Joined, JudgeOver, Judging, runVars, progVars, judgeVars, IInv, TypeOK,
      Ended, Judged, Closed, Timed, Opened, Explained, Caused, Gone, Wall
<1>16. CASE Settle
  BY <1>16, <1>same, <1>fits, <1>suits
  DEF Settle, Outcome, Fault, StopNote, Answer, runVars, progVars, judgeVars,
      relayVars, feedVars, IInv, TypeOK, Ended, Judged, Closed, Timed, Opened,
      Explained, Caused, Gone, Judging, Wall
<1>17. CASE RunFails
  BY <1>17, <1>same, <1>fits, <1>suits
  DEF RunFails, progVars, judgeVars, relayVars, feedVars, testVars, IInv,
      TypeOK, Ended, Judged, Closed, Timed, Opened, Explained, Caused, Gone,
      Judging, Wall
<1>18. CASE JudgeFails
  BY <1>18, <1>same, <1>fits, <1>suits
  DEF JudgeFails, runVars, progVars, relayVars, feedVars, testVars, IInv,
      TypeOK, Ended, Judged, Closed, Timed, Opened, Explained, Caused, Gone,
      Judging, Wall
<1>19. CASE JudgeBreaks
  BY <1>19, <1>same, <1>fits, <1>suits
  DEF JudgeBreaks, JudgeExits, runVars, progVars, relayVars, feedVars,
      testVars, IInv, TypeOK, Ended, Judged, Closed, Timed, Opened, Explained,
      Caused, Gone, Judging, Wall
<1>20. CASE JudgeAnswers
  BY <1>20, <1>same, <1>fits, <1>suits
  DEF JudgeAnswers, JudgeExits, runVars, progVars, relayVars, feedVars,
      testVars, IInv, TypeOK, Ended, Judged, Closed, Timed, Opened, Explained,
      Caused, Gone, Judging, Wall
<1>21. CASE JudgeHangs
  BY <1>21, <1>same, <1>fits, <1>suits
  DEF JudgeHangs, runVars, progVars, relayVars, feedVars, testVars, IInv,
      TypeOK, Ended, Judged, Closed, Timed, Opened, Explained, Caused, Gone,
      Judging, Wall
<1>22. CASE Tick
  <2>1. /\ now' \in Nat /\ now' > now /\ test # "done"
        /\ UNCHANGED <<run, judge, trouble, shim, relay, relayBy, word, neverOpened, result>>
        /\ \A e \in {Cap, relayBy} : e > now => now' <= e
    BY <1>22, TickMoves
    DEF IInv, Tick, runVars, judgeVars, testVars, relayVars
  <2>2. /\ run # "starting" /\ (run = "running" => now < Cap)
        /\ ~(run = "running" /\ relay = "output")
    BY <1>22, <1>fits DEF Tick, Ready, IInv, TypeOK, Explained
  <2>3. judge = "reading" => trouble \/ now' <= Cap
    <3>1. SUFFICES ASSUME judge = "reading", ~trouble
                   PROVE  now' <= Cap
      OBVIOUS
    <3>2. CASE run = "running"
      BY <2>1, <2>2, <3>2, <1>fits DEF IInv, TypeOK
    <3>3. CASE run = "over"
      <4>1. relay = "output"
        BY <1>22, <3>1, <3>3 DEF Tick, Ready, ToldAll, Gone, IInv, TypeOK, Opened
      <4>2. shim = "output"
        BY <4>1 DEF Explained
      <4>3. word = "broken"
        BY <3>1, <3>3, <4>2 DEF Explained, Caused
      <4>4. QED
        BY <3>1, <4>3 DEF IInv, Judged
    <3>4. QED
      BY <2>2, <3>1, <3>2, <3>3 DEF IInv, TypeOK, Explained
  <2>4. QED
    BY <2>1, <2>2, <2>3, <1>same DEF Explained, Caused
<1>23. CASE \/ Released \/ VerdictGivenUp \/ Reads \/ FeedGivesUp \/ FeedEnds
            \/ FeedAwaited \/ Prints \/ Turns \/ Ends \/ JudgeSpeaks
  <2>1. UNCHANGED <<problem, run, judge, trouble, shim, relay, relayBy, now, word,
                    neverOpened, result>>
    BY <1>23, <1>same
    DEF Released, VerdictGivenUp, Reads, FeedGivesUp, FeedEnds, FeedAwaited,
        Prints, Turns, Ends, JudgeSpeaks, runVars, progVars, judgeVars,
        relayVars, feedVars, testVars
  <2>2. QED
    BY <2>1, <1>same, <1>fits, <1>suits
    DEF IInv, TypeOK, Ended, Judged, Closed, Timed, Opened, Explained, Caused,
        Gone, Judging, Wall
<1>24. QED
  BY <1>1, <1>2, <1>3, <1>4, <1>5, <1>6, <1>7, <1>8, <1>9, <1>10, <1>11, <1>12,
     <1>13, <1>14, <1>15, <1>16, <1>17, <1>18, <1>19, <1>20, <1>21, <1>22,
     <1>23
  DEF Next, Urgent, Leisure

\* Where the limit suits the judge, an error is the daemon's, or that of a
\* judge that broke its contract or hung.
THEOREM ErrorsAreCaused ==
  ASSUME \A p \in Problems : Suited(p)
  PROVE  Spec => []ErrorsHaveCauses
<1>1. Init => Explained
  BY DEF Init, Explained, Wall
<1>2. IInv /\ Explained /\ [Next]_vars => Explained'
  <2>1. SUFFICES ASSUME IInv, Explained, [Next]_vars
                 PROVE  Explained'
    OBVIOUS
  <2>2. Suited(problem)
    BY <2>1 DEF IInv, TypeOK
  <2>3. CASE Next
    BY <2>1, <2>2, <2>3, ExplainedSteps
  <2>4. CASE UNCHANGED vars
    BY <2>1, <2>4
    DEF vars, runVars, judgeVars, relayVars, testVars, Explained, Caused, Cap, Ceiling, limit
  <2>5. QED
    BY <2>1, <2>3, <2>4
<1>3. Explained => ErrorsHaveCauses
  BY DEF Explained, Caused, ErrorsHaveCauses
<1>4. QED
  BY <1>1, <1>2, <1>3, JudgedInvariant, PTL DEF Spec

===============================================================================
