------------------------------ MODULE JudgedTest ------------------------------
(***************************************************************************)
(* One test, from its channels to its outcome: `one_test`, `check`,        *)
(* `interact`, `relay`, `feed` and `read_channel` of pipeline.rs, over the *)
(* pipes of pipes.rs and the order in which the shim opens its channels.   *)
(*                                                                         *)
(* Time is in seconds.  What a program does takes no time unless it says   *)
(* so, and the clock moves only when nothing of the Runner's can: then to  *)
(* the next deadline, or to the next multiple of Grain.                    *)
(***************************************************************************)
EXTENDS Naturals, FiniteSets

CONSTANTS
    Problems,  \* records: the time limit, who decides ("none", "checker",
               \* "interactor"), and whether a judge reads what it is given; an
               \* interactor does, its shell opens both channels before it
    Grain,     \* how often a program may act between two deadlines
    Horizon    \* where the clock stops, far beyond any test's end

ASSUME JudgedAssumption ==
    /\ Problems \subseteq [limit : Nat \ {0}, aside : {"none", "checker", "interactor"},
                           reads : BOOLEAN]
    /\ \A p \in Problems : p.aside = "interactor" => p.reads
    /\ Grain \in Nat \ {0}
    /\ Horizon \in Nat

(* CHECKER_WALL_CLOCK and CHANNEL_WALL_CLOCK.                              *)
Wall == 30

VARIABLES
    now,
    problem,    \* one of Problems
    run,        \* the judged container: "starting", "running", "over", "failed"
    stop,       \* why it ended
    shim,       \* how far it got: "output", "input", "program"
    prog,       \* "working", "spinning", "waiting", "hung", "over"
    exit,       \* "none", "zero", "nonzero", "memory", "killed"
    slow,       \* it spent more processor time than its limit
    lively,     \* when the reaper last saw progress
    spun,       \* when it began to compute without end
    sent,       \* the worst it has printed
    asked,      \* what `Beside` was told first
    judge,      \* "none", "starting", "opening", "replying", "reading", "hung",
                \* "exited", "failed"; "killed" once it hung, or "outlasted" at work
    word,       \* what the judge answered: "none", "OK", "WRONG", "broken"
    verdict,    \* the thread that reads an interactor's answer
    relay,      \* the thread that reads the output: "far", "output", "reading", "ended"
    relayBy,    \* the deadline of its present open
    far,        \* its end of the judge's channel: "none", "open", "closed"
    read,       \* the worst it has read
    capped, neverOpened,
    feed,       \* the thread behind the input: "none", "from", "to", "carrying", "ended"
    feedBy,
    test,       \* "running", "feeding", "relaying", "done"
    result,
    trouble     \* the daemon failed a container, or the host its measurement

runVars == <<run, stop, shim>>
progVars == <<prog, exit, slow, lively, spun, sent>>
judgeVars == <<judge, word, verdict>>
relayVars == <<relay, relayBy, far, read, capped, neverOpened>>
feedVars == <<feed, feedBy>>
testVars == <<test, result>>
vars == <<now, problem, runVars, progVars, asked, judgeVars, relayVars, feedVars,
          testVars, trouble>>

limit == problem.limit
aside == problem.aside

(* What a stream can be found to hold, worst last.                         *)
Streams == <<"none", "right", "wrong", "flood">>
Badness(s) == CHOOSE i \in DOMAIN Streams : Streams[i] = s

(* The reaper's three deadlines.                                           *)
Window == 4 * limit + 4
Ceiling == limit + 2
Cap == 5 * Ceiling

Init ==
    /\ now = 0
    /\ problem \in Problems
    /\ run = "starting" /\ stop = "none" /\ shim = "output"
    /\ prog = "working" /\ exit = "none" /\ slow = FALSE
    /\ lively = 0 /\ spun = 0 /\ sent = "none"
    /\ asked = "none"
    /\ judge = IF aside = "none" THEN "none" ELSE "starting"
    /\ word = "none"
    /\ verdict = IF aside = "interactor" THEN "opening" ELSE "none"
    /\ relay = IF aside = "none" THEN "output" ELSE "far"
    /\ relayBy = Wall
    /\ far = "none" /\ read = "none" /\ capped = FALSE /\ neverOpened = FALSE
    /\ feed = IF aside = "interactor" THEN "from" ELSE "none"
    /\ feedBy = Wall
    /\ test = "running" /\ result = "none"
    /\ trouble = FALSE

-------------------------------------------------------------------------------
(* The judged container.                                                   *)

Start ==
    /\ run = "starting"
    /\ run' = "running"
    /\ lively' = now
    /\ UNCHANGED <<now, problem, stop, shim, prog, exit, slow, spun, sent, asked, judgeVars,
                   relayVars, feedVars, testVars, trouble>>

(* The daemon would not start it, or the shim could not start the program. *)
RunFails ==
    /\ run \in {"starting", "running"}
    /\ shim \in {"output", "input"}
    /\ run' = "failed"
    /\ trouble' = TRUE
    /\ UNCHANGED <<now, problem, stop, shim, progVars, asked, judgeVars, relayVars, feedVars, testVars>>

Program == run = "running" /\ shim = "program"

(* The shim opens the output for writing, and waits for its reader.        *)
ShimOpensOutput ==
    /\ run = "running"
    /\ shim = "output"
    /\ relay = "output"
    /\ shim' = "input"
    /\ relay' = "reading"
    /\ UNCHANGED <<now, problem, run, stop, progVars, asked, judgeVars, relayBy, far, read,
                   capped, neverOpened, feedVars, testVars, trouble>>

(* The input is a socket somebody is listening on, or a pipe whose writer  *)
(* is `feed`.  The program starts once it is open.                         *)
ShimOpensInput ==
    /\ run = "running"
    /\ shim = "input"
    /\ \/ aside # "interactor" /\ UNCHANGED feed
       \/ feed = "to" /\ feed' = "carrying"
    /\ shim' = "program"
    /\ lively' = now
    /\ UNCHANGED <<now, problem, run, stop, prog, exit, slow, spun, sent, asked, judgeVars,
                   relayVars, feedBy, testVars, trouble>>

(* What the program may do, at any time it is scheduled.  Printing is a    *)
(* move the reaper sees; a program that waits or hangs shows it nothing.   *)
Prints ==
    /\ Program /\ prog = "working"
    /\ read = sent
    /\ \E s \in {"right", "wrong", "flood"} :
          /\ Badness(s) > Badness(sent)
          /\ sent' = s
    /\ lively' = now
    /\ UNCHANGED <<now, problem, runVars, prog, exit, slow, spun, asked, judgeVars, relayVars,
                   feedVars, testVars, trouble>>

Turns ==
    /\ Program /\ prog = "working"
    /\ \/ prog' \in {"spinning", "hung"}
       \/ prog' = "waiting" /\ feed = "carrying"
    /\ spun' = IF prog' = "spinning" THEN now ELSE 0
    /\ lively' = now
    /\ UNCHANGED <<now, problem, runVars, exit, slow, sent, asked, judgeVars, relayVars,
                   feedVars, testVars, trouble>>

(* A program that computed for a while may be over its limit and not yet   *)
(* past the reaper's ceiling.                                              *)
Ends ==
    /\ Program /\ prog \in {"working", "spinning"}
    /\ prog' = "over"
    /\ exit' \in {"zero", "nonzero", "memory"}
    /\ \/ UNCHANGED slow
       \/ prog = "spinning" /\ now > spun /\ slow' = TRUE
    /\ UNCHANGED <<now, problem, runVars, lively, spun, sent, asked, judgeVars, relayVars,
                   feedVars, testVars, trouble>>

(* `supervise` returns.  The kernel's word on memory outranks the reason.  *)
EndRun(why) ==
    /\ run' = "over"
    /\ prog' = "over"
    /\ exit' = IF exit = "none" THEN "killed" ELSE exit
    /\ stop' = IF exit = "memory" THEN "Memory" ELSE why
    /\ UNCHANGED <<now, problem, shim, slow, lively, spun, sent, asked, judgeVars, relayVars, feedVars,
                   testVars, trouble>>

Exited == Program /\ prog = "over" /\ EndRun("OnItsOwn")

Enough == run = "running" /\ asked # "none" /\ EndRun(asked)

(* Whether the reaper sees nothing move: the shim waits for a channel, or  *)
(* the program waits.                                                      *)
Idle == shim # "program" \/ prog \in {"waiting", "hung"}

Reaped ==
    /\ run = "running"
    /\ \/ Idle /\ now >= lively + Window /\ EndRun("WallClock")
       \/ prog = "spinning" /\ now >= spun + Ceiling /\ EndRun("TimeLimit")
       \/ now >= Cap /\ ~(Idle /\ now >= lively + Window) /\ EndRun("Overall")

-------------------------------------------------------------------------------
(* Whoever decides, in a container of its own.                             *)

Judging == judge \in {"starting", "opening", "replying", "reading", "hung"}

(* Mutant of Alongside: a judge asks for a measurement gate of its own.    *)
NotAlongside == FALSE

(* `Profile::alongside`: it opens no measurement, so it need not wait for  *)
(* the run it is beside to let go of one.                                  *)
Alongside == TRUE

JudgeStarts ==
    /\ judge = "starting"
    /\ Alongside \/ run \in {"over", "failed"}
    /\ judge' = "opening"
    /\ UNCHANGED <<now, problem, runVars, progVars, asked, word, verdict, relayVars, feedVars,
                   testVars, trouble>>

JudgeFails ==
    /\ judge = "starting"
    /\ judge' = "failed"
    /\ trouble' = TRUE
    /\ UNCHANGED <<now, problem, runVars, progVars, asked, word, verdict, relayVars, feedVars,
                   testVars>>

(* The judge exits.  A non-zero code or words nobody can read are both     *)
(* "broken".  An interactor's words go through a channel of their own.     *)
JudgeExits(w) ==
    /\ judge' = "exited"
    /\ word' = w
    /\ UNCHANGED <<now, problem, runVars, progVars, asked, verdict, relayVars, feedVars, testVars,
                   trouble>>

JudgeBreaks == judge = "opening" /\ JudgeExits("broken")

(* A checker that decides on the input alone.                              *)
JudgeSkips ==
    /\ judge = "opening"
    /\ ~problem.reads
    /\ \E w \in {"OK", "WRONG"} : JudgeExits(w)

JudgeAnswers ==
    /\ judge = "reading"
    /\ \/ JudgeExits("broken")
       \/ /\ aside = "checker" \/ verdict = "opening"
          /\ \E w \in {"OK", "WRONG"} : JudgeExits(w)

JudgeHangs ==
    /\ judge \in {"opening", "reading"}
    /\ judge' = "hung"
    /\ UNCHANGED <<now, problem, runVars, progVars, asked, word, verdict, relayVars, feedVars,
                   testVars, trouble>>

(* An interactor's line reaches the program that waits for it.             *)
JudgeSpeaks ==
    /\ judge = "reading"
    /\ feed = "carrying"
    /\ prog = "waiting"
    /\ prog' = "working"
    /\ lively' = now
    /\ UNCHANGED <<now, problem, runVars, exit, slow, spun, sent, asked, judgeVars, relayVars,
                   feedVars, testVars, trouble>>

(* Mutant of JudgeLate: what keeps moving is let be.                       *)
JudgeLateSilent == judge = "hung" /\ read = "none" /\ now >= Wall

(* Its wall clock, which nothing it does can hold open.                    *)
JudgeLate == judge \in {"opening", "replying", "reading", "hung"} /\ now >= Wall

JudgeKilled ==
    /\ JudgeLate
    /\ judge' = IF judge = "hung" THEN "killed" ELSE "outlasted"
    /\ UNCHANGED <<now, problem, runVars, progVars, asked, word, verdict, relayVars, feedVars,
                   testVars, trouble>>

(* `interact` lets go of its reader before it looks at how the run ended.  *)
(* The reader opens first thing, so this always lands.                     *)
Released ==
    /\ verdict = "opening"
    /\ ~Judging
    /\ verdict' = "ended"
    /\ UNCHANGED <<now, problem, runVars, progVars, asked, judge, word, relayVars, feedVars,
                   testVars, trouble>>

VerdictGivenUp ==
    /\ verdict = "opening"
    /\ now >= Wall
    /\ verdict' = "ended"
    /\ UNCHANGED <<now, problem, runVars, progVars, asked, judge, word, relayVars, feedVars,
                   testVars, trouble>>

-------------------------------------------------------------------------------
(* `relay`, on its own thread.                                             *)

(* A judge blocked on its open is a reader, so the open for writing lands. *)
(* An interactor opens its reply next.                                     *)
FarOpened ==
    /\ relay = "far"
    /\ judge = "opening" /\ problem.reads
    /\ relay' = "output"
    /\ relayBy' = now + Wall
    /\ far' = "open"
    /\ judge' = IF aside = "interactor" THEN "replying" ELSE "reading"
    /\ UNCHANGED <<now, problem, runVars, progVars, asked, word, verdict, read, capped,
                   neverOpened, feedVars, testVars, trouble>>

(* Nobody came: the run is drained and discarded.                          *)
FarGivenUp ==
    /\ relay = "far"
    /\ now >= relayBy
    /\ relay' = "output"
    /\ relayBy' = now + Wall
    /\ UNCHANGED <<now, problem, runVars, progVars, asked, judgeVars, far, read, capped,
                   neverOpened, feedVars, testVars, trouble>>

(* Mutant of OutputGivenUp: the deadline starts again.                     *)
OutputWaitsAgain ==
    /\ relay = "output"
    /\ now >= relayBy
    /\ relayBy' = now + Wall
    /\ UNCHANGED <<now, problem, runVars, progVars, asked, judgeVars, relay, far, read, capped,
                   neverOpened, feedVars, testVars, trouble>>

OutputGivenUp ==
    /\ relay = "output"
    /\ now >= relayBy
    /\ relay' = "ended"
    /\ neverOpened' = TRUE
    /\ far' = IF far = "open" THEN "closed" ELSE far
    /\ UNCHANGED <<now, problem, runVars, progVars, asked, judgeVars, relayBy, read, capped,
                   feedVars, testVars, trouble>>

(* Mutant of Reads: a judge that stopped reading stops the run.            *)
ReadsAndStops ==
    /\ relay = "reading"
    /\ read # sent
    /\ read' = sent
    /\ capped' = (sent = "flood")
    /\ far' = IF far = "open" /\ (sent = "flood" \/ ~Judging) THEN "closed" ELSE far
    /\ asked' = IF asked # "none" THEN asked
                ELSE IF sent = "flood" THEN "Output"
                ELSE IF (aside = "none" /\ sent = "wrong") \/ (far = "open" /\ ~Judging)
                     THEN "Decided"
                ELSE asked
    /\ UNCHANGED <<now, problem, runVars, progVars, judgeVars, relay, relayBy, neverOpened,
                   feedVars, testVars, trouble>>

(* A chunk, counted and then compared or passed on.  The chunk that passes *)
(* the cap is not compared.                                                *)
Reads ==
    /\ relay = "reading"
    /\ read # sent
    /\ read' = sent
    /\ capped' = (sent = "flood")
    /\ far' = IF far = "open" /\ (sent = "flood" \/ ~Judging) THEN "closed" ELSE far
    /\ asked' = IF asked # "none" THEN asked
                ELSE IF sent = "flood" THEN "Output"
                ELSE IF aside = "none" /\ sent = "wrong" THEN "Decided"
                ELSE asked
    /\ UNCHANGED <<now, problem, runVars, progVars, judgeVars, relay, relayBy, neverOpened,
                   feedVars, testVars, trouble>>

(* The end of the stream: everything written has been read, and whoever    *)
(* held the writing end is gone.                                           *)
RelayEnds ==
    /\ relay = "reading"
    /\ read = sent
    /\ run \in {"over", "failed"}
    /\ relay' = "ended"
    /\ far' = IF far = "open" THEN "closed" ELSE far
    /\ UNCHANGED <<now, problem, runVars, progVars, asked, judgeVars, relayBy, read, capped,
                   neverOpened, feedVars, testVars, trouble>>

-------------------------------------------------------------------------------
(* `feed`, on its own thread.                                              *)

FeedHears ==
    /\ feed = "from"
    /\ judge = "replying"
    /\ feed' = "to"
    /\ feedBy' = now + Wall
    /\ judge' = "reading"
    /\ UNCHANGED <<now, problem, runVars, progVars, asked, word, verdict, relayVars, testVars,
                   trouble>>

FeedGivesUp ==
    /\ feed \in {"from", "to"}
    /\ now >= feedBy
    /\ feed' = "ended"
    /\ UNCHANGED <<now, problem, runVars, progVars, asked, judgeVars, relayVars, feedBy, testVars,
                   trouble>>

(* The program is gone, and its reading end with it; or the interactor is, *)
(* and the program comes to the end of its input.                          *)
FeedEnds ==
    /\ feed = "carrying"
    /\ run \in {"over", "failed"} \/ ~Judging
    /\ feed' = "ended"
    /\ prog' = IF prog = "waiting" THEN "working" ELSE prog
    /\ lively' = IF prog = "waiting" THEN now ELSE lively
    /\ UNCHANGED <<now, problem, runVars, exit, slow, spun, sent, asked, judgeVars, relayVars,
                   feedBy, testVars, trouble>>

-------------------------------------------------------------------------------
(* The test, once both containers are gone.                                *)

(* Mutant of JudgeOver: a run that failed is looked at before the thread   *)
(* that reads the verdict is let go of.                                    *)
JudgeOverUnheard == ~Judging /\ (verdict = "opening" => judge # "exited")

(* `check` or `interact` has returned.                                     *)
JudgeOver == ~Judging /\ verdict # "opening"

(* Both arms of the `join!` have returned.  A relay already waiting on the *)
(* output is let go of and finds an empty stream; one still waiting for    *)
(* the judge is not there to hear it.  `feed`, let go of the same way,     *)
(* goes on to wait for a reader of the input.                              *)
Joined ==
    /\ test = "running"
    /\ run \in {"over", "failed"}
    /\ JudgeOver
    /\ test' = IF feed = "none" THEN "relaying" ELSE "feeding"
    /\ relay' = IF relay = "output" THEN "reading" ELSE relay
    /\ feed' = IF feed = "from" THEN "to" ELSE feed
    /\ feedBy' = IF feed = "from" THEN now + Wall ELSE feedBy
    /\ UNCHANGED <<now, problem, runVars, progVars, asked, judgeVars, relayBy, far, read, capped,
                   neverOpened, result, trouble>>

FeedAwaited ==
    /\ test = "feeding"
    /\ feed = "ended"
    /\ test' = "relaying"
    /\ UNCHANGED <<now, problem, runVars, progVars, asked, judgeVars, relayVars, feedVars, result,
                   trouble>>

(* A refusal outranks what stopped the run, but for the two that know more *)
(* than the judge.                                                         *)
Refused == word = "WRONG" /\ stop \notin {"WallClock", "Memory"}

(* What is nobody's verdict: a container that could not be run, a judge    *)
(* that was stopped or broke its contract, an output nobody opened.        *)
Fault == run = "failed" \/ judge \in {"failed", "killed", "outlasted"} \/ neverOpened \/ word = "broken"

(* What the sandbox found, as a verdict.                                   *)
StopNote ==
    IF stop \in {"TimeLimit", "WallClock", "Overall"} \/ (stop = "OnItsOwn" /\ slow) THEN "TLE"
    ELSE IF stop = "Memory" THEN "MLE"
    ELSE IF stop = "Output" THEN "OLE"
    ELSE "none"

Answer ==
    IF aside # "none" THEN IF word = "OK" THEN "accepted" ELSE "WA"
    ELSE IF read = "right" THEN "accepted" ELSE "WA"

(* Mutant of Outcome: a program that was cut off for flooding is judged on *)
(* the exit code it was given for it.                                      *)
OutcomeByExit ==
    IF Fault THEN "error"
    ELSE IF StopNote # "none" /\ ~Refused THEN StopNote
    ELSE IF exit # "zero" THEN "RE"
    ELSE IF capped /\ ~Refused THEN "OLE"
    ELSE Answer

(* The order in which `one_test` asks.                                     *)
Outcome ==
    IF Fault THEN "error"
    ELSE IF StopNote # "none" /\ ~Refused THEN StopNote
    ELSE IF capped /\ ~Refused THEN "OLE"
    ELSE IF stop = "OnItsOwn" /\ exit # "zero" THEN "RE"
    ELSE Answer

(* Or the run is no measurement: its cgroup could not be read, or it had   *)
(* recorded no processor time at all by the reaper's deadline.             *)
Settle ==
    /\ test = "relaying"
    /\ relay = "ended"
    /\ test' = "done"
    /\ \/ result' = Outcome /\ UNCHANGED trouble
       \/ result' = "error" /\ trouble' = TRUE
    /\ UNCHANGED <<now, problem, runVars, progVars, asked, judgeVars, relayVars, feedVars>>

-------------------------------------------------------------------------------
(* What moves at once, and what may take its time.  A judge that has read  *)
(* to the end of its channel has what it needs to answer, or hangs.        *)
ToldAll == far = "closed" \/ relay = "ended"

Urgent ==
    \/ Start \/ ShimOpensOutput \/ ShimOpensInput \/ Exited \/ Enough \/ Reaped
    \/ JudgeStarts \/ JudgeSkips \/ JudgeKilled \/ Released \/ VerdictGivenUp
    \/ FarOpened \/ FarGivenUp \/ OutputGivenUp \/ Reads \/ RelayEnds
    \/ FeedHears \/ FeedGivesUp \/ FeedEnds
    \/ Joined \/ FeedAwaited \/ Settle
    \/ ToldAll /\ JudgeAnswers

Leisure ==
    \/ Prints \/ Turns \/ Ends \/ RunFails
    \/ JudgeFails \/ JudgeBreaks \/ JudgeAnswers \/ JudgeHangs \/ JudgeSpeaks

(* Nothing of the judged container is left to wait for.                    *)
Gone == run \in {"over", "failed"}

(* Whether anything urgent can move: a line for each guard of Urgent, in   *)
(* its order.                                                              *)
Ready ==
    \/ run = "starting"
    \/ run = "running" /\ shim = "output" /\ relay = "output"
    \/ run = "running" /\ shim = "input" /\ (aside # "interactor" \/ feed = "to")
    \/ Program /\ prog = "over"
    \/ run = "running" /\ asked # "none"
    \/ run = "running" /\ Idle /\ now >= lively + Window
    \/ run = "running" /\ prog = "spinning" /\ now >= spun + Ceiling
    \/ run = "running" /\ now >= Cap
    \/ judge = "starting" /\ (Alongside \/ Gone)
    \/ judge = "opening" /\ ~problem.reads
    \/ JudgeLate
    \/ verdict = "opening" /\ (~Judging \/ now >= Wall)
    \/ relay = "far" /\ judge = "opening" /\ problem.reads
    \/ relay \in {"far", "output"} /\ now >= relayBy
    \/ relay = "reading" /\ (read # sent \/ Gone)
    \/ feed = "from" /\ judge = "replying"
    \/ feed \in {"from", "to"} /\ now >= feedBy
    \/ feed = "carrying" /\ (Gone \/ ~Judging)
    \/ test = "running" /\ Gone /\ JudgeOver
    \/ test = "feeding" /\ feed = "ended"
    \/ test = "relaying" /\ relay = "ended"
    \/ ToldAll /\ judge = "reading"

Deadlines ==
    {((now \div Grain) + 1) * Grain, Wall, lively + Window, spun + Ceiling, Cap, relayBy, feedBy}

Tick ==
    /\ test # "done"
    /\ now < Horizon
    /\ ~Ready
    /\ \E d \in Deadlines :
          /\ d > now
          /\ \A e \in Deadlines : e > now => d <= e
          /\ now' = d
    /\ UNCHANGED <<problem, runVars, progVars, asked, judgeVars, relayVars, feedVars, testVars,
                   trouble>>

Next == Urgent \/ Leisure \/ Tick

Spec == Init /\ [][Next]_vars

(* Tasks and threads that can run do, and the clock does not stop.  No     *)
(* program, judge or daemon is owed anything.                              *)
FairSpec == Spec /\ WF_vars(Urgent) /\ WF_vars(Tick)

-------------------------------------------------------------------------------
(* Properties.                                                             *)

TypeOK ==
    /\ now \in Nat /\ lively \in 0..now /\ spun \in 0..now
    /\ problem \in Problems
    /\ run \in {"starting", "running", "over", "failed"}
    /\ stop \in {"none", "OnItsOwn", "TimeLimit", "WallClock", "Overall", "Memory", "Output",
                "Decided"}
    /\ shim \in {"output", "input", "program"}
    /\ prog \in {"working", "spinning", "waiting", "hung", "over"}
    /\ exit \in {"none", "zero", "nonzero", "memory", "killed"}
    /\ slow \in BOOLEAN /\ capped \in BOOLEAN /\ neverOpened \in BOOLEAN /\ trouble \in BOOLEAN
    /\ {sent, read} \subseteq {"none", "right", "wrong", "flood"}
    /\ asked \in {"none", "Decided", "Output"}
    /\ judge \in {"none", "starting", "opening", "replying", "reading", "hung", "exited", "killed",
                 "outlasted", "failed"}
    /\ word \in {"none", "OK", "WRONG", "broken"}
    /\ verdict \in {"none", "opening", "ended"}
    /\ relay \in {"far", "output", "reading", "ended"}
    /\ far \in {"none", "open", "closed"}
    /\ relayBy \in Nat /\ feedBy \in Nat
    /\ feed \in {"none", "from", "to", "carrying", "ended"}
    /\ test \in {"running", "feeding", "relaying", "done"}
    /\ result \in {"none", "error", "accepted", "WA", "TLE", "MLE", "OLE", "RE"}
    /\ (test = "done") = (result # "none")

(* A test is accepted exactly when the program earned it: it ended by      *)
(* itself, cleanly, within its limits, and was found right by whoever      *)
(* decides, however the threads that watched it were scheduled.            *)
Earned ==
    /\ stop = "OnItsOwn" /\ exit = "zero" /\ ~slow
    /\ sent # "flood"
    /\ IF aside = "none" THEN sent = "right" ELSE word = "OK"

AcceptedIsEarned == result \notin {"none", "error"} => (result = "accepted" <=> Earned)

(* Whatever a submission is refused for it did: it had been started when   *)
(* the reaper lost patience, its own exit code is read, it is it that      *)
(* flooded.  None is blamed for what its judge or a channel did.           *)
BlameIsEarned ==
    /\ result = "TLE" => shim = "program"
    /\ result = "RE" => exit = "nonzero"
    /\ result = "MLE" => exit = "memory"
    /\ result = "OLE" => sent = "flood"
    /\ result = "WA" => IF aside = "none" THEN sent # "right" ELSE word = "WRONG"

(* A failure of the machinery is one: the daemon failed a container, the   *)
(* host measured nothing of it, or the judge broke its contract or hung.   *)
(* A checker that answered has been heard whether or not it read the       *)
(* answer, and one that is still at work when its submission is stopped is *)
(* no broken one.                                                          *)
ErrorsHaveCauses == result = "error" => trouble \/ word = "broken" \/ judge = "killed"

(* Nothing of a test outlives it: no container, and no thread that could   *)
(* hold the runtime's shutdown.                                            *)
NothingOutlives ==
    test = "done" =>
        /\ run \in {"over", "failed"}
        /\ ~Judging
        /\ verdict # "opening"
        /\ relay = "ended"
        /\ feed \in {"none", "ended"}

(* A test takes the longer of its run and its judge, and one more wait for *)
(* a channel that nobody opens.                                            *)
TestIsBounded == now <= (IF Cap > Wall THEN Cap ELSE Wall) + Wall

(* Every test ends, whatever program and judge do.                         *)
TestEnds == <>(test = "done")

===============================================================================
