-------------------------------- MODULE Reaping --------------------------------
(***************************************************************************)
(* `Reaper::tick` and `measured_time` of docker.rs: when a run stops being *)
(* worth waiting for, and what it is charged.  Time is counted in looks of *)
(* one second; what the program really does is the environment's.          *)
(***************************************************************************)
EXTENDS Integers

CONSTANTS
    MaxLimit, \* bound: the longest processor-time limit
    Untimed   \* the wall clock of a step with no limit, a build or a judge

ASSUME ReaperAssumption == MaxLimit \in Nat /\ Untimed \in Nat \ {0}

VARIABLES
    limit,    \* the run's processor-time limit; 0 is none
    readable, \* its cgroup can be read
    psi,      \* the kernel says when somebody waited for a processor
    extra,    \* processor time the container itself has cost
    own,      \* processor time the program has spent
    best,     \* the most the reaper has seen
    idle,     \* how long it has seen nothing happen
    moved,    \* what had crossed to the judge at the last look
    elapsed,
    quiet,    \* how long it has really done nothing and waited for nothing
    verdict   \* "waiting" until there is one
reaperVars == <<limit, readable, psi, extra, own, best, idle, moved, elapsed, quiet, verdict>>

(* pipeline.rs gives a test the window 4L + 4; docker.rs the allowance, the*)
(* cap and the gap.                                                        *)
Allowance == 2
Gap == 1
Timed == limit > 0
WindowOf(l) == IF l = 0 THEN Untimed ELSE 4 * l + 4
CeilingOf(l) == l + Allowance
CapOf(l) == IF l = 0 THEN Untimed ELSE 5 * CeilingOf(l)

Window == WindowOf(limit)
Cap == CapOf(limit)

ReaperRest ==
    /\ limit = 0 /\ readable = FALSE /\ psi = FALSE /\ extra = 0 /\ own = 0
    /\ best = 0 /\ idle = 0 /\ moved = 0 /\ elapsed = 0 /\ quiet = 0 /\ verdict = "waiting"

ReaperInit ==
    /\ limit \in 0..MaxLimit
    /\ readable \in BOOLEAN /\ psi \in BOOLEAN
    /\ extra \in 0..Gap /\ own = 0
    /\ best = 0 /\ idle = 0 /\ moved = 0 /\ elapsed = 0 /\ quiet = 0
    /\ verdict = "waiting"

(* What the kernel adds up: the program and the container it is in.       *)
Reading(spent) == spent + extra

(* Somebody waited since the last look: there has to be a last look.       *)
Waited(starved) == starved /\ psi /\ elapsed > 0

(* Mutant of IdleAfter: time without progress counts, scheduled or not.    *)
IdleAfterStarved(cpu, talked, starved) ==
    IF Timed /\ readable
    THEN IF cpu > best \/ talked THEN 0 ELSE idle + 1
    ELSE IF talked THEN 0 ELSE idle + 1

(* Progress is processor time or talk; the window runs only while nothing  *)
(* waited for a processor.  A step with no limit, and a blind one, keep the*)
(* plain clock.                                                            *)
IdleAfter(cpu, talked, starved) ==
    IF Timed /\ readable
    THEN IF cpu > best \/ talked THEN 0 ELSE IF Waited(starved) THEN idle ELSE idle + 1
    ELSE IF talked THEN 0 ELSE idle + 1

(* What a look concludes, once nothing more is expected.                   *)
Concluded(seen, still, said, after) ==
    IF still < Window /\ after < Cap THEN "waiting"
    ELSE IF Timed /\ seen = 0 /\ ~said THEN "NeverStarted"
    ELSE IF still >= Window THEN "WallClock" ELSE "Overall"

(* One look, after a second in which the program worked, waited for a      *)
(* processor, talked to its judge, or did nothing.                         *)
Look(worked, starved, talked) ==
    LET spent == own + (IF worked THEN 1 ELSE 0)
        cpu == Reading(spent)
        still == IdleAfter(cpu, talked, starved)
        seen == IF Timed /\ readable /\ cpu > best THEN cpu ELSE best
        said == talked \/ moved > 0
    IN /\ verdict = "waiting"
       /\ own' = spent
       /\ elapsed' = elapsed + 1
       /\ moved' = IF said THEN 1 ELSE 0
       /\ quiet' = IF worked \/ talked THEN 0 ELSE IF starved THEN quiet ELSE quiet + 1
       /\ IF Timed /\ readable /\ cpu > CeilingOf(limit)
          THEN verdict' = "TimeLimit" /\ UNCHANGED <<best, idle>>
          ELSE /\ best' = seen
               /\ idle' = still
               /\ verdict' = Concluded(seen, still, said, elapsed + 1)
       /\ UNCHANGED <<limit, readable, psi, extra>>

(* Only a judged run has a judge to talk to.                               *)
ReaperNext ==
    \E worked, starved, talked \in BOOLEAN :
        /\ talked => Timed
        /\ Look(worked, starved, talked)

ReaperSpec == ReaperInit /\ [][ReaperNext]_reaperVars

(* What is charged: the report, unless the reading cannot be explained.    *)
MeasuredTime(reported, whole) ==
    IF whole - reported <= Gap THEN reported ELSE whole - Gap

(* A program is reaped for what it did.  One that computes, waits for a    *)
(* processor or talks is not idle where the kernel can say so, except that *)
(* the first look has nothing to compare with; one that did anything is    *)
(* not told it never began; one past its ceiling is past its limit; and    *)
(* whatever it does it is over after five times what it may honestly spend,*)
(* which is later than the window.  An honest report is what is charged,   *)
(* and a dishonest one hides no more than the gap (docker.rs, Reaper and   *)
(* measured_time).                                                         *)
ReapedWithCause ==
    /\ verdict = "WallClock" /\ Timed /\ readable /\ psi => quiet >= Window - 1
    /\ verdict = "NeverStarted" => moved = 0 /\ (readable => own = 0)
    /\ verdict = "TimeLimit" => own > limit
    /\ verdict = "Overall" => Timed
    /\ elapsed >= (IF Timed THEN 5 * (limit + Allowance) ELSE Untimed) => verdict # "waiting"
    /\ Timed => Window < Cap
    /\ MeasuredTime(own, Reading(own)) = own
    /\ \A forged \in 0..own : MeasuredTime(forged, Reading(own)) >= own - Gap
================================================================================
