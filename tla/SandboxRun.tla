------------------------------ MODULE SandboxRun ------------------------------
(***************************************************************************)
(* One run in a container, from its gate to its removal: `run_beside`,     *)
(* `supervise`, `reap` and `collect` of docker.rs over the measurements of *)
(* cgroups.rs.  Several Runners share one daemon, a Runner has several     *)
(* runs under way, and the program, the kernel, whoever reads the output,  *)
(* the reaper and the daemon all move on their own.                        *)
(***************************************************************************)
EXTENDS Naturals, FiniteSets

CONSTANTS Runners, Lanes, Runs, NoRun, NoRunner, Kinds,
    MaxTroubles,  \* bound: refused calls, crashes and stops, of one run
    MaxTogether   \* bound: the same while a second run has begun

ASSUME SandboxAssumption ==
    /\ NoRun \notin Runs
    /\ NoRunner \notin Runners
    /\ Kinds \subseteq {"judged", "build", "checker"}
    /\ MaxTroubles \in Nat
    /\ MaxTogether \in 0..MaxTroubles

VARIABLES
    driver,     \* the cgroup driver: "cgroupfs" or "systemd"
    up,         \* [Runners -> "working", "down", "stopping" or "ended"]
    known,      \* what a Runner remembers of the image: "unknown", "shim", "none"
    lock,       \* the run that holds the lock of that memory
    probe,      \* the run whose probe container exists under the fixed name
    gate,       \* [Runners \X Lanes -> the run measured there, or NoRun]
    owner, lane, kind,  \* the Runner of a run, its lane and its profile
    pc,         \* where `run_beside` is
    measuring,  \* "none", "own" (a directory of the run's) or "shared" (a slice)
    dir,        \* whether the run's own cgroup directory exists
    box,        \* the container: "none", "created", "running", "exited", "gone"
    end,        \* how the program ended: "none", "itself", "oom", "killed"
    oomed,      \* the kernel killed it at its own memory limit
    report,     \* the shim's report: "none", "open", "written"
    reader,     \* the thread that reads it: "none", "opening", "ended"
    log,        \* the collector: "none", "reading", "ended"
    flooded,    \* the collector saw more than the cap
    asked,      \* what `Beside` was told: "none", "Decided" or "Output"
    stopped,    \* why the run ended, as `supervise` has it so far
    outcome,    \* what `run_beside` returned
    left,       \* why a container stays: "none" does, the daemon "refused" to
                \* remove it, or it was left "unreported", with no channel for it
    deaf,       \* the daemon lost the wait, or did not apply a kill
    faults,     \* calls the daemon or the host refused, of MaxTroubles
    stops       \* Runners killed or told to stop, of the same

runVars == <<owner, lane, kind>>
progVars == <<end, oomed, report>>
daemonVars == <<left, deaf, faults>>
shimVars == <<known, lock, probe>>
vars == <<driver, up, shimVars, gate, runVars, pc, measuring, dir, box, progVars,
          reader, log, flooded, asked, stopped, outcome, daemonVars, stops>>

(* The flags of a profile, by kind of run.  A checker is alongside the run *)
(* it checks.  An interactor is a checker with no log.                     *)
Measured(k) == k = "judged"
Silent(k) == k = "judged"
Alongside(k) == k = "checker"
Collects(k) == k = "build"

Stops == {"OnItsOwn", "Reaped", "Decided", "Output", "Memory"}
Outcomes == Stops \cup {"none", "error"}
Places == {"idle", "asking", "probing", "begin", "mount", "create", "channel", "start",
           "watch", "kill", "take", "drain", "inspect", "remove", "finish", "report",
           "over", "dropped"}

home(r) == <<owner[r], lane[r]>>

(* A container the daemon would not remove is only there: what becomes of  *)
(* the program in it is not followed.                                      *)
Running(r) == box[r] = "running" /\ left[r] = "none"

-------------------------------------------------------------------------------
Init ==
    /\ driver \in {"cgroupfs", "systemd"}
    /\ up = [i \in Runners |-> "working"]
    /\ known = [i \in Runners |-> "unknown"]
    /\ lock = [i \in Runners |-> NoRun]
    /\ probe = [i \in Runners |-> NoRun]
    /\ gate = [h \in Runners \X Lanes |-> NoRun]
    /\ owner = [r \in Runs |-> NoRunner]
    /\ lane \in [Runs -> Lanes]
    /\ kind \in [Runs -> Kinds]
    /\ pc = [r \in Runs |-> "idle"]
    /\ measuring = [r \in Runs |-> "none"]
    /\ dir = [r \in Runs |-> FALSE]
    /\ box = [r \in Runs |-> "none"]
    /\ end = [r \in Runs |-> "none"]
    /\ oomed = [r \in Runs |-> FALSE]
    /\ report = [r \in Runs |-> "none"]
    /\ reader = [r \in Runs |-> "none"]
    /\ log = [r \in Runs |-> "none"]
    /\ flooded = [r \in Runs |-> FALSE]
    /\ asked = [r \in Runs |-> "none"]
    /\ stopped = [r \in Runs |-> "none"]
    /\ outcome = [r \in Runs |-> "none"]
    /\ left = [r \in Runs |-> "none"]
    /\ deaf = [r \in Runs |-> FALSE]
    /\ faults = 0
    /\ stops = 0

Goto(r, place) == pc' = [pc EXCEPT ![r] = place]

Return(r, o) ==
    /\ Goto(r, "over")
    /\ outcome' = [outcome EXCEPT ![r] = o]

(* How much may go wrong.                                                  *)
Together == \E r, s \in Runs : r # s /\ pc[r] # "idle" /\ pc[s] # "idle"
Allowed == IF Together THEN MaxTogether ELSE MaxTroubles

(* The daemon or the host refused one call.                                *)
Fault ==
    /\ faults + stops < Allowed
    /\ faults' = faults + 1

(* `finish`: the slice is let go of, and the run's own directory removed.  *)
(* A directory with a running container in it cannot be.                   *)
LetGo(r) ==
    /\ gate' = [gate EXCEPT ![home(r)] = IF @ = r THEN NoRun ELSE @]
    /\ dir' = [dir EXCEPT ![r] = @ /\ box[r] = "running"]

-------------------------------------------------------------------------------
(* Before the container.                                                   *)

(* The pipeline calls the sandbox.                                         *)
Call(r, i) ==
    /\ pc[r] = "idle"
    /\ up[i] = "working"
    /\ owner' = [owner EXCEPT ![r] = i]
    /\ Goto(r, IF Measured(kind[r]) THEN "asking" ELSE "begin")
    /\ UNCHANGED <<driver, up, shimVars, gate, lane, kind, measuring, dir, box, progVars,
                   reader, log, flooded, asked, stopped, outcome, daemonVars, stops>>

(* `image_shim` with the answer already there.  A measured, silent run     *)
(* without the shim is refused, and so is one whose image the daemon would *)
(* not name: that is asked first, without the lock, and not remembered.    *)
Remembered(r) ==
    /\ pc[r] = "asking"
    /\ \/ /\ lock[owner[r]] = NoRun
          /\ known[owner[r]] = "shim"
          /\ Goto(r, "begin")
          /\ UNCHANGED <<outcome, faults>>
       \/ /\ \/ lock[owner[r]] = NoRun /\ known[owner[r]] = "none" /\ UNCHANGED faults
             \/ Fault
          /\ Return(r, "error")
    /\ UNCHANGED <<driver, up, shimVars, gate, runVars, measuring, dir, box, progVars,
                   reader, log, flooded, asked, stopped, left, deaf, stops>>

(* `image_shim` takes its lock and makes a container under a fixed name,   *)
(* removing whatever has that name.                                        *)
Probe(r) ==
    /\ pc[r] = "asking"
    /\ known[owner[r]] = "unknown"
    /\ lock[owner[r]] = NoRun
    /\ lock' = [lock EXCEPT ![owner[r]] = r]
    /\ probe' = [probe EXCEPT ![owner[r]] = r]
    /\ Goto(r, "probing")
    /\ UNCHANGED <<driver, up, known, gate, runVars, measuring, dir, box, progVars,
                   reader, log, flooded, asked, stopped, outcome, daemonVars, stops>>

(* What the probe found is remembered, and so is a probe that failed.      *)
Probed(r) ==
    /\ pc[r] = "probing"
    /\ \/ /\ probe[owner[r]] = r
          /\ known' = [known EXCEPT ![owner[r]] = "shim"]
          /\ Goto(r, "begin")
          /\ UNCHANGED <<outcome, faults>>
       \/ /\ \/ probe[owner[r]] # r /\ UNCHANGED faults
             \/ Fault
          /\ known' = [known EXCEPT ![owner[r]] = "none"]
          /\ Return(r, "error")
    /\ lock' = [lock EXCEPT ![owner[r]] = NoRun]
    /\ probe' = [probe EXCEPT ![owner[r]] = NoRun]
    /\ UNCHANGED <<driver, up, gate, runVars, measuring, dir, box, progVars,
                   reader, log, flooded, asked, stopped, left, deaf, stops>>

(* `begin`.  A run alongside another opens nothing.  Under cgroupfs a run  *)
(* makes its own directory, and goes unmeasured where it cannot; under     *)
(* systemd it waits for the slice of its lane.                             *)
Begin(r) ==
    /\ pc[r] = "begin"
    /\ \/ /\ Alongside(kind[r])
          /\ UNCHANGED <<gate, measuring, dir, faults>>
       \/ /\ ~Alongside(kind[r])
          /\ driver = "cgroupfs"
          /\ \/ /\ measuring' = [measuring EXCEPT ![r] = "own"]
                /\ dir' = [dir EXCEPT ![r] = TRUE]
                /\ UNCHANGED faults
             \/ /\ Fault
                /\ UNCHANGED <<measuring, dir>>
          /\ UNCHANGED gate
       \/ /\ ~Alongside(kind[r])
          /\ driver = "systemd"
          /\ gate[home(r)] = NoRun
          /\ gate' = [gate EXCEPT ![home(r)] = r]
          /\ measuring' = [measuring EXCEPT ![r] = "shared"]
          /\ UNCHANGED <<dir, faults>>
    /\ Goto(r, IF Measured(kind[r]) THEN "mount" ELSE "create")
    /\ UNCHANGED <<driver, up, shimVars, runVars, box, progVars, reader, log, flooded,
                   asked, stopped, outcome, left, deaf, stops>>

(* `mount_point`.  A judged run that cannot be given the cgroup the        *)
(* submission is held in is refused.                                       *)
MountPoint(r) ==
    /\ pc[r] = "mount"
    /\ \/ /\ Goto(r, "create")
          /\ UNCHANGED <<gate, dir, outcome, faults>>
       \/ /\ Fault
          /\ LetGo(r)
          /\ Return(r, "error")
    /\ UNCHANGED <<driver, up, shimVars, runVars, measuring, box, progVars, reader, log,
                   flooded, asked, stopped, left, deaf, stops>>

(* Mutant of Create: a creation that failed returns with its measurement   *)
(* still open.                                                             *)
CreateKeepsGate(r) ==
    /\ pc[r] = "create"
    /\ \/ /\ box' = [box EXCEPT ![r] = "created"]
          /\ Goto(r, IF Measured(kind[r]) THEN "channel" ELSE "start")
          /\ UNCHANGED <<outcome, faults>>
       \/ /\ Fault
          /\ Return(r, "error")
          /\ UNCHANGED box
    /\ UNCHANGED <<driver, up, shimVars, gate, dir, runVars, measuring, progVars, reader, log,
                   flooded, asked, stopped, left, deaf, stops>>

Create(r) ==
    /\ pc[r] = "create"
    /\ \/ /\ box' = [box EXCEPT ![r] = "created"]
          /\ Goto(r, IF Measured(kind[r]) THEN "channel" ELSE "start")
          /\ UNCHANGED <<gate, dir, outcome, faults>>
       \/ /\ Fault
          /\ LetGo(r)
          /\ Return(r, "error")
          /\ UNCHANGED box
    /\ UNCHANGED <<driver, up, shimVars, runVars, measuring, progVars, reader, log,
                   flooded, asked, stopped, left, deaf, stops>>

(* The channel of the report, and the thread that opens it for reading and *)
(* blocks until the shim opens the other end.  Where it cannot be made the *)
(* run returns at once, and the container made before it stays, never      *)
(* started and refused by nobody.                                          *)
Channel(r) ==
    /\ pc[r] = "channel"
    /\ \/ /\ reader' = [reader EXCEPT ![r] = "opening"]
          /\ Goto(r, "start")
          /\ UNCHANGED <<gate, dir, outcome, left, faults>>
       \/ /\ Fault
          /\ LetGo(r)
          /\ left' = [left EXCEPT ![r] = "unreported"]
          /\ Return(r, "error")
          /\ UNCHANGED reader
    /\ UNCHANGED <<driver, up, shimVars, runVars, measuring, box, progVars, log, flooded,
                   asked, stopped, deaf, stops>>

-------------------------------------------------------------------------------
(* The container, watched.                                                 *)

Start(r) ==
    /\ pc[r] = "start"
    /\ \/ /\ box' = [box EXCEPT ![r] = "running"]
          /\ log' = [log EXCEPT ![r] = IF Silent(kind[r]) THEN @ ELSE "reading"]
          /\ Goto(r, "watch")
          /\ UNCHANGED <<stopped, faults>>
       \/ /\ Fault
          /\ stopped' = [stopped EXCEPT ![r] = "error"]
          /\ Goto(r, "remove")
          /\ UNCHANGED <<box, log>>
    /\ UNCHANGED <<driver, up, shimVars, gate, runVars, measuring, dir, progVars, reader,
                   flooded, asked, outcome, left, deaf, stops>>

AfterStop(k) == IF Collects(k) THEN "take" ELSE IF Silent(k) THEN "inspect" ELSE "drain"

(* The `select!`, first arm.  The wait's answer is not looked at, so a     *)
(* wait the daemon lost reads like a container that exited.                *)
Exited(r) ==
    /\ pc[r] = "watch"
    /\ \/ /\ box[r] = "exited"
          /\ UNCHANGED <<deaf, faults>>
       \/ /\ box[r] = "running"
          /\ Fault
          /\ deaf' = [deaf EXCEPT ![r] = TRUE]
    /\ stopped' = [stopped EXCEPT ![r] = "OnItsOwn"]
    /\ Goto(r, AfterStop(kind[r]))
    /\ UNCHANGED <<driver, up, shimVars, gate, runVars, measuring, dir, box, progVars,
                   reader, log, flooded, asked, outcome, left, stops>>

(* Second arm: the reaper.  A container that has just exited may still be  *)
(* reaped, the two arms being ready together.                              *)
Reaped(r) ==
    /\ pc[r] = "watch"
    /\ stopped' = [stopped EXCEPT ![r] = "Reaped"]
    /\ Goto(r, "kill")
    /\ UNCHANGED <<driver, up, shimVars, gate, runVars, measuring, dir, box, progVars,
                   reader, log, flooded, asked, outcome, daemonVars, stops>>

(* Third arm: whoever reads the output has had enough.                     *)
Enough(r) ==
    /\ pc[r] = "watch"
    /\ asked[r] # "none"
    /\ stopped' = [stopped EXCEPT ![r] = asked[r]]
    /\ Goto(r, "kill")
    /\ UNCHANGED <<driver, up, shimVars, gate, runVars, measuring, dir, box, progVars,
                   reader, log, flooded, asked, outcome, daemonVars, stops>>

(* What a kill, or a removal by force, does to the container's program.    *)
Killed(r, then) ==
    /\ box' = [box EXCEPT ![r] = then]
    /\ end' = [end EXCEPT ![r] = IF box[r] = "running" /\ @ = "none" THEN "killed" ELSE @]

(* Mutant of Kill: the kill is awaited inside the reaper's arm, where the  *)
(* container that exits under it makes the other arm win.                  *)
KillInTheArm(r) ==
    /\ pc[r] = "kill"
    /\ Killed(r, "exited")
    /\ stopped' = [stopped EXCEPT ![r] = "OnItsOwn"]
    /\ Goto(r, AfterStop(kind[r]))
    /\ UNCHANGED <<driver, up, shimVars, gate, runVars, measuring, dir, oomed, report,
                   reader, log, flooded, asked, outcome, daemonVars, stops>>

(* Best effort: a kill that did not apply is logged and passed over.       *)
Kill(r) ==
    /\ pc[r] = "kill"
    /\ \/ /\ Killed(r, "exited")
          /\ UNCHANGED <<deaf, faults>>
       \/ /\ box[r] = "running"
          /\ Fault
          /\ deaf' = [deaf EXCEPT ![r] = TRUE]
          /\ UNCHANGED <<box, end>>
    /\ Goto(r, AfterStop(kind[r]))
    /\ UNCHANGED <<driver, up, shimVars, gate, runVars, measuring, dir, oomed, report,
                   reader, log, flooded, asked, stopped, outcome, left, stops>>

(* What a build made is copied out before anything else is asked.  Nothing *)
(* to copy is an answer; an artifact over its cap is not.                  *)
Take(r) ==
    /\ pc[r] = "take"
    /\ \/ Goto(r, "drain") /\ UNCHANGED stopped
       \/ Goto(r, "remove") /\ stopped' = [stopped EXCEPT ![r] = "error"]
    /\ UNCHANGED <<driver, up, shimVars, gate, runVars, measuring, dir, box, progVars,
                   reader, log, flooded, asked, outcome, daemonVars, stops>>

(* Mutant of Drain: the flag is read without waiting for the collector.    *)
FlagReadEarly(r) ==
    /\ pc[r] = "drain"
    /\ stopped' = [stopped EXCEPT ![r] = IF flooded[r] THEN "Output" ELSE @]
    /\ Goto(r, "inspect")
    /\ UNCHANGED <<driver, up, shimVars, gate, runVars, measuring, dir, box, progVars,
                   reader, log, flooded, asked, outcome, daemonVars, stops>>

(* The collector is awaited, and only then is its flag read.               *)
Drain(r) ==
    /\ pc[r] = "drain"
    /\ log[r] = "ended"
    /\ stopped' = [stopped EXCEPT ![r] = IF flooded[r] THEN "Output" ELSE @]
    /\ Goto(r, "inspect")
    /\ UNCHANGED <<driver, up, shimVars, gate, runVars, measuring, dir, box, progVars,
                   reader, log, flooded, asked, outcome, daemonVars, stops>>

(* The runtime's own word on memory, which it may fail to give.            *)
Inspect(r) ==
    /\ pc[r] = "inspect"
    /\ \/ /\ \/ oomed[r] /\ stopped' = [stopped EXCEPT ![r] = "Memory"]
             \/ UNCHANGED stopped
          /\ UNCHANGED faults
       \/ /\ Fault
          /\ stopped' = [stopped EXCEPT ![r] = "error"]
    /\ Goto(r, "remove")
    /\ UNCHANGED <<driver, up, shimVars, gate, runVars, measuring, dir, box, progVars,
                   reader, log, flooded, asked, outcome, left, deaf, stops>>

(* By force, and best effort.                                              *)
Remove(r) ==
    /\ pc[r] = "remove"
    /\ \/ /\ Killed(r, "gone")
          /\ UNCHANGED <<left, faults>>
       \/ /\ Fault
          /\ left' = [left EXCEPT ![r] = "refused"]
          /\ UNCHANGED <<box, end>>
    /\ Goto(r, "finish")
    /\ UNCHANGED <<driver, up, shimVars, gate, runVars, measuring, dir, oomed, report,
                   reader, log, flooded, asked, stopped, outcome, deaf, stops>>

(* The kernel's counters of the run's own cgroup outrank every reason a    *)
(* run was stopped for.                                                    *)
MemoryKill(r) ==
    IF stopped[r] # "error" /\ measuring[r] # "none" /\ oomed[r] THEN "Memory" ELSE stopped[r]

(* The measurement is closed, and what it says is heard.                   *)
Finish(r) ==
    /\ pc[r] = "finish"
    /\ LetGo(r)
    /\ LET found == MemoryKill(r)
       IN  /\ stopped' = [stopped EXCEPT ![r] = found]
           /\ IF Measured(kind[r]) /\ found # "error"
              THEN Goto(r, "report") /\ UNCHANGED outcome
              ELSE Return(r, found)
    /\ UNCHANGED <<driver, up, shimVars, runVars, measuring, box, progVars, reader, log,
                   flooded, asked, daemonVars, stops>>

(* The reader is released where the shim never opened its end, and its     *)
(* thread is awaited.  A run that finished on its own owes a report.       *)
Report(r) ==
    /\ pc[r] = "report"
    /\ reader' = [reader EXCEPT ![r] = "ended"]
    /\ Return(r, IF stopped[r] = "OnItsOwn" /\ report[r] # "written"
                 THEN "error" ELSE stopped[r])
    /\ UNCHANGED <<driver, up, shimVars, gate, runVars, measuring, dir, box, progVars,
                   log, flooded, asked, stopped, daemonVars, stops>>

-------------------------------------------------------------------------------
(* What moves beside the run.                                              *)

(* The shim opens the report's channel before it starts the program.       *)
ShimOpens(r) ==
    /\ Running(r)
    /\ Measured(kind[r])
    /\ report[r] = "none"
    /\ report' = [report EXCEPT ![r] = "open"]
    /\ UNCHANGED <<driver, up, shimVars, gate, runVars, pc, measuring, dir, box, end,
                   oomed, reader, log, flooded, asked, stopped, outcome, daemonVars, stops>>

Started(r) == Running(r) /\ end[r] = "none" /\ (Measured(kind[r]) => report[r] = "open")

(* The program ends.  Without the shim that is the container's end; the    *)
(* shim still has its report to write.                                     *)
ProgramEnds(r) ==
    /\ Started(r)
    /\ \/ end' = [end EXCEPT ![r] = "itself"] /\ UNCHANGED oomed
       \/ /\ end' = [end EXCEPT ![r] = "oom"]
          /\ oomed' = [oomed EXCEPT ![r] = TRUE]
    /\ box' = [box EXCEPT ![r] = IF Measured(kind[r]) THEN @ ELSE "exited"]
    /\ UNCHANGED <<driver, up, shimVars, gate, runVars, pc, measuring, dir, report,
                   reader, log, flooded, asked, stopped, outcome, daemonVars, stops>>

ShimReports(r) ==
    /\ Running(r)
    /\ report[r] = "open"
    /\ end[r] \in {"itself", "oom"}
    /\ report' = [report EXCEPT ![r] = "written"]
    /\ box' = [box EXCEPT ![r] = "exited"]
    /\ UNCHANGED <<driver, up, shimVars, gate, runVars, pc, measuring, dir, end, oomed,
                   reader, log, flooded, asked, stopped, outcome, daemonVars, stops>>

(* The collector passes its cap: the flag first, then the kill.  It drains *)
(* what the daemon kept, so this may come after the program has ended.     *)
Floods(r) ==
    /\ log[r] = "reading"
    /\ box[r] \in {"running", "exited"}
    /\ ~flooded[r]
    /\ flooded' = [flooded EXCEPT ![r] = TRUE]
    /\ Killed(r, "exited")
    /\ UNCHANGED <<driver, up, shimVars, gate, runVars, pc, measuring, dir, oomed, report,
                   reader, log, asked, stopped, outcome, daemonVars, stops>>

(* The log stream ends with the container.                                 *)
LogEnds(r) ==
    /\ log[r] = "reading"
    /\ box[r] \in {"exited", "gone"}
    /\ log' = [log EXCEPT ![r] = "ended"]
    /\ UNCHANGED <<driver, up, shimVars, gate, runVars, pc, measuring, dir, box, progVars,
                   reader, flooded, asked, stopped, outcome, daemonVars, stops>>

(* `Beside::enough`, from what the program printed: the first word wins.   *)
Asks(r) ==
    /\ Measured(kind[r])
    /\ pc[r] = "watch"
    /\ report[r] # "none"
    /\ asked[r] = "none"
    /\ \E why \in {"Decided", "Output"} : asked' = [asked EXCEPT ![r] = why]
    /\ UNCHANGED <<driver, up, shimVars, gate, runVars, pc, measuring, dir, box, progVars,
                   reader, log, flooded, stopped, outcome, daemonVars, stops>>

-------------------------------------------------------------------------------
(* A Runner that is killed, or told to stop, and what it does about what   *)
(* it left.                                                                *)

Mine(i) == {r \in Runs : owner[r] = i}

(* The evaluation is dropped where it stands: guards and locks go with it, *)
(* directories and containers stay.  A call on its way may have landed,    *)
(* but none lands later than this.  Threads outlive a stop and not a kill. *)
Dropped(i, how) ==
    LET cut == {r \in Mine(i) : pc[r] \notin {"idle", "over"}}
    IN  /\ up[i] = "working"
        /\ faults + stops < Allowed
        /\ stops' = stops + 1
        /\ up' = [up EXCEPT ![i] = how]
        /\ pc' = [r \in Runs |-> IF r \in cut THEN "dropped" ELSE pc[r]]
        /\ gate' = [h \in Runners \X Lanes |-> IF h[1] = i THEN NoRun ELSE gate[h]]
        /\ lock' = [lock EXCEPT ![i] = NoRun]
        /\ known' = [known EXCEPT ![i] = "unknown"]
        /\ log' = [r \in Runs |-> IF r \in cut THEN "none" ELSE log[r]]
        /\ reader' = [r \in Runs |-> IF owner[r] = i /\ how = "down" THEN "none" ELSE reader[r]]
        /\ \E made \in SUBSET {r \in cut : pc[r] = "create"} :
              box' = [r \in Runs |-> IF r \in made THEN "created" ELSE box[r]]
        /\ UNCHANGED <<driver, probe, runVars, measuring, dir, progVars, flooded, asked,
                       stopped, outcome, daemonVars>>

Crash(i) == Dropped(i, "down")
Stop(i) == Dropped(i, "stopping")

(* Mutant of Swept: only containers that have exited are taken.            *)
SweptExited(i) == {r \in Runs : owner[r] = i /\ box[r] \in {"created", "exited"}}

(* Mutant of Swept: only the containers of runs that were cut short.       *)
SweptCutShort(i) == {r \in Runs : owner[r] = i /\ pc[r] = "dropped" /\ box[r] \notin {"none", "gone"}}

(* Mutant of Swept: every sandbox on the host is taken for this Runner's.  *)
SweptAnybodys(i) == {r \in Runs : box[r] \notin {"none", "gone"}}

(* Whose containers a sweep takes.                                         *)
Swept(i) == {r \in Mine(i) : box[r] \notin {"none", "gone"}}

(* `sweep`: every container that carries this Runner's label, the probe's  *)
(* too, and after them the cgroups of its runs.  One that the daemon will  *)
(* not remove is passed over, and a cgroup with one running in it stays.   *)
Sweep(i) ==
    LET theirs == Swept(i)
    IN  /\ up[i] \in {"down", "stopping"}
        /\ up' = [up EXCEPT ![i] = IF @ = "down" THEN "working" ELSE "ended"]
        /\ \E missed \in SUBSET theirs :
              /\ \/ missed = {} /\ UNCHANGED faults
                 \/ missed # {} /\ Fault
              /\ box' = [r \in Runs |-> IF r \in theirs \ missed THEN "gone" ELSE box[r]]
              /\ end' = [r \in Runs |-> IF r \in theirs \ missed /\ Running(r) /\ end[r] = "none"
                                        THEN "killed" ELSE end[r]]
              /\ left' = [r \in Runs |-> IF r \in missed THEN "refused"
                                         ELSE IF r \in theirs THEN "none" ELSE left[r]]
              /\ dir' = [r \in Runs |-> dir[r] /\ (owner[r] = i => r \in missed /\ box[r] = "running")]
        /\ probe' = [probe EXCEPT ![i] = NoRun]
        /\ UNCHANGED <<driver, known, lock, gate, runVars, pc, measuring, oomed, report,
                       reader, log, flooded, asked, stopped, outcome, deaf, stops>>

-------------------------------------------------------------------------------
RunStep(r) ==
    \/ Remembered(r) \/ Probe(r) \/ Probed(r)
    \/ Begin(r) \/ MountPoint(r) \/ Create(r) \/ Channel(r) \/ Start(r)
    \/ Exited(r) \/ Reaped(r) \/ Enough(r) \/ Kill(r)
    \/ Take(r) \/ Drain(r) \/ Inspect(r)
    \/ Remove(r) \/ Finish(r) \/ Report(r)

Beside(r) ==
    \/ ShimOpens(r) \/ ProgramEnds(r) \/ ShimReports(r)
    \/ Floods(r) \/ LogEnds(r) \/ Asks(r)

Next ==
    \/ \E r \in Runs, i \in Runners : Call(r, i)
    \/ \E r \in Runs : RunStep(r)
    \/ \E r \in Runs : Beside(r)
    \/ \E i \in Runners : Crash(i) \/ Stop(i) \/ Sweep(i)

Spec == Init /\ [][Next]_vars

-------------------------------------------------------------------------------
(* Properties.                                                             *)

TypeOK ==
    /\ driver \in {"cgroupfs", "systemd"}
    /\ up \in [Runners -> {"working", "down", "stopping", "ended"}]
    /\ known \in [Runners -> {"unknown", "shim", "none"}]
    /\ lock \in [Runners -> Runs \cup {NoRun}]
    /\ probe \in [Runners -> Runs \cup {NoRun}]
    /\ gate \in [Runners \X Lanes -> Runs \cup {NoRun}]
    /\ owner \in [Runs -> Runners \cup {NoRunner}]
    /\ lane \in [Runs -> Lanes]
    /\ kind \in [Runs -> Kinds]
    /\ pc \in [Runs -> Places]
    /\ measuring \in [Runs -> {"none", "own", "shared"}]
    /\ dir \in [Runs -> BOOLEAN]
    /\ box \in [Runs -> {"none", "created", "running", "exited", "gone"}]
    /\ end \in [Runs -> {"none", "itself", "oom", "killed"}]
    /\ oomed \in [Runs -> BOOLEAN]
    /\ report \in [Runs -> {"none", "open", "written"}]
    /\ reader \in [Runs -> {"none", "opening", "ended"}]
    /\ log \in [Runs -> {"none", "reading", "ended"}]
    /\ flooded \in [Runs -> BOOLEAN]
    /\ asked \in [Runs -> {"none", "Decided", "Output"}]
    /\ stopped \in [Runs -> Outcomes]
    /\ outcome \in [Runs -> Outcomes]
    /\ left \in [Runs -> {"none", "refused", "unreported"}]
    /\ deaf \in [Runs -> BOOLEAN]
    /\ faults \in 0..MaxTroubles
    /\ stops \in 0..MaxTroubles

(* A verdict fits what happened.  A judged run that is said to have        *)
(* finished by itself did, and was measured; the rest only where the       *)
(* daemon lost nothing.  `Output`, `Decided` and `Memory` each need their  *)
(* cause, whichever of the parties that move at once was heard first.      *)
OutcomeFits ==
    \A r \in Runs :
        /\ outcome[r] = "OnItsOwn" =>
              \/ (end[r] \in {"itself", "oom"} /\ (Measured(kind[r]) => report[r] = "written"))
              \/ (deaf[r] /\ ~Measured(kind[r]))
        /\ outcome[r] = "Output" => flooded[r] \/ asked[r] = "Output"
        /\ outcome[r] = "Decided" => asked[r] = "Decided"
        /\ outcome[r] = "Memory" => oomed[r]

(* What must be told is told: a measured run the kernel killed at its own  *)
(* limit is never reported as anything else, and neither is a log that     *)
(* passed its cap, however late the collector found out.                   *)
NothingHidden ==
    \A r \in Runs : outcome[r] \notin {"none", "error"} =>
        /\ (oomed[r] /\ measuring[r] # "none") => outcome[r] = "Memory"
        /\ flooded[r] => outcome[r] \in {"Output", "Memory"}

(* A slice is read as a difference, so nothing else runs in it while one   *)
(* run is measured there: not a run still waiting, not one whose answer is *)
(* already given, not what a stopped or killed Runner left.                *)
ReadingIsAlone ==
    \A r, s \in Runs :
        r # s /\ owner[r] \in Runners /\ gate[home(r)] = r /\ home(s) = home(r)
            => Alongside(kind[s]) \/ ~Running(s)

(* Nothing of a run that returned stays on the host, nor, once its Runner  *)
(* has swept, of one that was cut short: but the container the daemon      *)
(* refused to remove, and, until the next sweep, the one of a run whose    *)
(* report's channel could not be made, which was never started.  No thread *)
(* is left waiting for a report, unless the run failed.  What is swept is  *)
(* no run that is still under way, one's own or a neighbour's.             *)
NothingLeftBehind ==
    \A r \in Runs :
        /\ owner[r] \in Runners /\ left[r] = "none"
              /\ (pc[r] = "over" \/ (pc[r] = "dropped" /\ up[owner[r]] \in {"working", "ended"}))
                => box[r] \in {"none", "gone"} /\ ~dir[r]
        /\ left[r] = "unreported" =>
              /\ pc[r] = "over" /\ outcome[r] = "error" /\ Measured(kind[r])
              /\ box[r] = "created" /\ ~dir[r]
              /\ up[owner[r]] # "ended"
        /\ pc[r] = "over" /\ reader[r] = "opening" => outcome[r] = "error"
        /\ box[r] = "gone" => pc[r] \in {"finish", "report", "over", "dropped"}

(* Whoever waits is waiting for something that comes: the gate for a run   *)
(* that is past it and has not returned, the lock of the probe for a run   *)
(* that is probing, the collector for a container that has ended.  The     *)
(* last fails where the daemon lost the wait or did not apply a kill.      *)
WaitIsServed ==
    /\ \A h \in Runners \X Lanes : gate[h] # NoRun =>
          /\ home(gate[h]) = h
          /\ pc[gate[h]] \in {"mount", "create", "channel", "start", "watch", "kill",
                             "take", "drain", "inspect", "remove", "finish"}
    /\ \A i \in Runners : lock[i] # NoRun => pc[lock[i]] = "probing"
    /\ \A r \in Runs : pc[r] = "drain" /\ log[r] = "reading" =>
          box[r] # "running" \/ deaf[r]

===============================================================================
