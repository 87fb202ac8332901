------------------------------ MODULE RunnerWork ------------------------------
(***************************************************************************)
(* Runners claiming work from a Server, evaluating it under a lease and    *)
(* reporting what it was worth: aj-runner/src/run.rs with the keeper of    *)
(* keeper.rs and the stop handle of aj-protocol/src/stopping.rs.           *)
(*                                                                         *)
(* The Server is not in this repository.  What it does is what client.rs   *)
(* and error.rs say of it and what the Runner relies on: it is marked      *)
(* external in the map.  A Runner's main task makes one call at a time, so *)
(* one slot per Runner, `wire', holds the call in flight or its answer; a  *)
(* renewal is made by a task of its own and travels in `renewals'.         *)
(***************************************************************************)
EXTENDS Integers, FiniteSets

CONSTANTS
  Runners,
  Jobs,           \* grading jobs
  Trials,         \* trial measurements: a queue of their own, no give-back
  NoLease,        \* what a Runner that holds nothing holds
  SharedCache,    \* TRUE when another Runner shares the package cache volume
  MaxDeliveries,  \* deliveries after which the Server stops handing work out
  MaxLeases,      \* bound: leases ever granted for one piece of work
  MaxLost,        \* bound: calls of a main task the network loses
  MaxAway,        \* bound: windows in which the Server declines to serve
  MaxForgets,     \* bound: Server restarts, each of which forgets every token
  MaxCrashes,     \* bound: Runner processes killed
  MaxRevoked      \* bound: Runner keys an administrator revokes

Work == Jobs \cup Trials
Lease == [work : Work, no : Nat]

ASSUME WorkAssumption ==
  /\ Jobs \cap Trials = {}
  /\ SharedCache \in BOOLEAN
  /\ NoLease \notin Lease
ASSUME BoundAssumption ==
  /\ MaxDeliveries \in Nat /\ MaxLeases \in Nat
  /\ MaxLost \in Nat /\ MaxAway \in Nat /\ MaxForgets \in Nat
  /\ MaxCrashes \in Nat /\ MaxRevoked \in Nat

VARIABLES
  \* the Server
  queue,       \* queue[w]: "queued", "running", "done" or "failed"
  leaseNo,     \* leaseNo[w]: the last lease granted for w, 0 before the first
  deliveries,  \* deliveries[w]: deliveries charged to w
  fresh,       \* fresh[w]: the running lease has not reached its deadline
  recorded,    \* recorded[w]: the answer stored, or "none"
  open,        \* the Server is serving
  standing,    \* standing[r]: "known", "unknown" (no token) or "revoked"
  \* the Runners
  pc,          \* pc[r]: where the main task of r is
  wire,        \* wire[r]: the call of that task: none, sent, or its answer
  hand,        \* hand[r]: the lease r works under
  grant,       \* grant[r]: a lease committed for r whose answer is in flight
  answer,      \* answer[r]: what evaluate made of the work in hand
  owed,        \* owed[r]: attachments still to send before the report
  overdue,     \* overdue[r]: the next resend would fall after the lease
  told,        \* told[r]: r has heard that it is to stop
  keeping,     \* keeping[r]: the lease r's Keeper renews
  renewals,    \* renewals on their way to the Server
  budget       \* what is left of the bounded faults

server == <<queue, leaseNo, deliveries, fresh, recorded>>
service == <<open, standing>>
doing == <<hand, answer, owed, overdue>>
kept == <<keeping, renewals>>
vars == <<server, service, pc, wire, grant, doing, told, kept, budget>>

Places ==
  {"starting", "admit", "top", "claiming", "settling", "asking", "idle", "waitingOut",
   "sleeping", "fetching", "judging", "attaching", "reporting", "holding",
   "givingBack", "exited", "down"}

\* The main task is inside `handle' or `run_trial': it has work in hand.
Handling == {"fetching", "judging", "attaching", "reporting", "holding"}

Answering == {"attaching", "reporting", "holding"}

\* What a call comes back with; "lost" is Error::Transport, a 500 or a 429.
Replies == {"ok", "empty", "stale", "unknown", "revoked", "away", "lost"}

\* "outage" is a failure report whose cause was the Server and not the work.
Answers == {"verdict", "broken", "outage"}

TypeOK ==
  /\ queue \in [Work -> {"queued", "running", "done", "failed"}]
  /\ leaseNo \in [Work -> Nat]
  /\ deliveries \in [Work -> Nat]
  /\ fresh \in [Work -> BOOLEAN]
  /\ recorded \in [Work -> Answers \cup {"none"}]
  /\ open \in BOOLEAN
  /\ standing \in [Runners -> {"known", "unknown", "revoked"}]
  /\ pc \in [Runners -> Places]
  /\ wire \in [Runners -> {"quiet", "sent"} \cup Replies]
  /\ hand \in [Runners -> Lease \cup {NoLease}]
  /\ grant \in [Runners -> Lease \cup {NoLease}]
  /\ answer \in [Runners -> Answers \cup {"none"}]
  /\ owed \in [Runners -> 0 .. 2]
  /\ overdue \in [Runners -> BOOLEAN]
  /\ told \in [Runners -> BOOLEAN]
  /\ keeping \in [Runners -> Lease \cup {NoLease}]
  /\ renewals \subseteq [by : Runners, lease : Lease]
  /\ budget \in [lost : Nat, away : Nat, forgets : Nat, crashes : Nat, revoked : Nat]

Init ==
  /\ queue = [w \in Work |-> "queued"]
  /\ leaseNo = [w \in Work |-> 0]
  /\ deliveries = [w \in Work |-> 0]
  /\ fresh = [w \in Work |-> FALSE]
  /\ recorded = [w \in Work |-> "none"]
  /\ open = TRUE
  /\ standing = [r \in Runners |-> "unknown"]
  /\ pc = [r \in Runners |-> "starting"]
  /\ wire = [r \in Runners |-> "quiet"]
  /\ hand = [r \in Runners |-> NoLease]
  /\ grant = [r \in Runners |-> NoLease]
  /\ answer = [r \in Runners |-> "none"]
  /\ owed = [r \in Runners |-> 0]
  /\ overdue = [r \in Runners |-> FALSE]
  /\ told = [r \in Runners |-> FALSE]
  /\ keeping = [r \in Runners |-> NoLease]
  /\ renewals = {}
  /\ budget = [lost |-> MaxLost, away |-> MaxAway, forgets |-> MaxForgets,
               crashes |-> MaxCrashes, revoked |-> MaxRevoked]

-----------------------------------------------------------------------------
(* Shorthands                                                              *)

Goto(r, p) == pc' = [pc EXCEPT ![r] = p]
At(r, places) == pc[r] \in places
Heard(r, reply) == wire[r] = reply

\* A call leaves: the main task is at p until its answer is read.
Call(r, p) == Goto(r, p) /\ wire' = [wire EXCEPT ![r] = "sent"]
\* The main task goes on to p with no call in flight.
Resume(r, p) == Goto(r, p) /\ wire' = [wire EXCEPT ![r] = "quiet"]

Spend(fault) ==
  /\ budget[fault] > 0
  /\ budget' = [budget EXCEPT ![fault] = @ - 1]

\* Mutant of Current: the token is checked, the state of the work is not.
CurrentByToken(l) == l # NoLease /\ leaseNo[l.work] = l.no

\* The lease is the one the Server is waiting on.
Current(l) == l # NoLease /\ queue[l.work] = "running" /\ leaseNo[l.work] = l.no

Admits(r) == open /\ standing[r] = "known"

DropKeeper(r) == keeping' = [keeping EXCEPT ![r] = NoLease]

\* Mutant of LetGo: the Keeper is leaked.
LetGoLeaking(r, p) ==
  /\ Resume(r, p)
  /\ hand' = [hand EXCEPT ![r] = NoLease]
  /\ answer' = [answer EXCEPT ![r] = "none"]
  /\ owed' = [owed EXCEPT ![r] = 0]
  /\ overdue' = [overdue EXCEPT ![r] = FALSE]
  /\ UNCHANGED <<server, service, grant, told, kept, budget>>

\* `handle' or `run_trial' returns: the Keeper is dropped on every path out.
LetGo(r, p) ==
  /\ Resume(r, p)
  /\ hand' = [hand EXCEPT ![r] = NoLease]
  /\ answer' = [answer EXCEPT ![r] = "none"]
  /\ owed' = [owed EXCEPT ![r] = 0]
  /\ overdue' = [overdue EXCEPT ![r] = FALSE]
  /\ DropKeeper(r)
  /\ UNCHANGED <<server, service, grant, told, renewals, budget>>

\* Only where the task is changes, and its call.
OnlyMoves == UNCHANGED <<server, service, grant, doing, told, kept, budget>>
-----------------------------------------------------------------------------
(* The Server: one call answered per step                                  *)

ServeRefused(r) ==
  /\ Heard(r, "sent") /\ ~Admits(r)
  /\ wire' = [wire EXCEPT ![r] = IF ~open THEN "away" ELSE standing[r]]
  /\ UNCHANGED <<server, service, pc, grant, doing, told, kept, budget>>

\* The Server commits a claim before it writes the answer to it.
ServeClaim(r, w) ==
  /\ Heard(r, "sent") /\ Admits(r)
  /\ \/ At(r, {"claiming", "settling"}) /\ w \in Jobs
     \/ At(r, {"asking"}) /\ w \in Trials
  /\ queue[w] = "queued" /\ leaseNo[w] < MaxLeases
  /\ queue' = [queue EXCEPT ![w] = "running"]
  /\ leaseNo' = [leaseNo EXCEPT ![w] = @ + 1]
  /\ deliveries' = [deliveries EXCEPT ![w] = @ + 1]
  /\ fresh' = [fresh EXCEPT ![w] = TRUE]
  /\ grant' = [grant EXCEPT ![r] = [work |-> w, no |-> leaseNo[w] + 1]]
  /\ wire' = [wire EXCEPT ![r] = "ok"]
  /\ UNCHANGED <<recorded, service, pc, doing, told, kept, budget>>

\* Work whose leases the bound has used up is not handed out either.
ServeEmpty(r) ==
  /\ Heard(r, "sent") /\ Admits(r)
  /\ LET none(asked) ==
           \A w \in asked : queue[w] # "queued" \/ leaseNo[w] >= MaxLeases
     IN \/ At(r, {"claiming", "settling"}) /\ none(Jobs)
        \/ At(r, {"asking"}) /\ none(Trials)
  /\ wire' = [wire EXCEPT ![r] = "empty"]
  /\ UNCHANGED <<server, service, pc, grant, doing, told, kept, budget>>

\* Every call that names a lease is refused once the lease is not current.
ServeStale(r) ==
  /\ Heard(r, "sent") /\ Admits(r)
  /\ At(r, {"givingBack", "attaching", "reporting"}) /\ ~Current(hand[r])
  /\ wire' = [wire EXCEPT ![r] =
       IF /\ At(r, {"reporting"})
          /\ queue[hand[r].work] = "done" /\ leaseNo[hand[r].work] = hand[r].no
       THEN "ok"        \* duplicate: the same report, resent
       ELSE "stale"]
  /\ UNCHANGED <<server, service, pc, grant, doing, told, kept, budget>>

\* A release gives the delivery back with the work.
ServeRelease(r) ==
  /\ Heard(r, "sent") /\ Admits(r) /\ At(r, {"givingBack"}) /\ Current(hand[r])
  /\ queue' = [queue EXCEPT ![hand[r].work] = "queued"]
  /\ deliveries' = [deliveries EXCEPT ![hand[r].work] = @ - 1]
  /\ wire' = [wire EXCEPT ![r] = "ok"]
  /\ UNCHANGED <<leaseNo, fresh, recorded, service, pc, grant, doing, told, kept, budget>>

ServeAttach(r) ==
  /\ Heard(r, "sent") /\ Admits(r) /\ At(r, {"attaching"}) /\ Current(hand[r])
  /\ wire' = [wire EXCEPT ![r] = "ok"]
  /\ UNCHANGED <<server, service, pc, grant, doing, told, kept, budget>>

ServeReport(r) ==
  /\ Heard(r, "sent") /\ Admits(r) /\ At(r, {"reporting"}) /\ Current(hand[r])
  /\ queue' = [queue EXCEPT ![hand[r].work] = "done"]
  /\ recorded' = [recorded EXCEPT ![hand[r].work] = answer[r]]
  /\ wire' = [wire EXCEPT ![r] = "ok"]
  /\ UNCHANGED <<leaseNo, deliveries, fresh, service, pc, grant, doing, told, kept, budget>>

Serve(r) ==
  \/ ServeRefused(r) \/ ServeEmpty(r) \/ ServeStale(r) \/ ServeRelease(r)
  \/ ServeAttach(r) \/ ServeReport(r) \/ \E w \in Work : ServeClaim(r, w)

\* The request or its answer is lost, or the Server fails to handle it.
LoseCall(r) ==
  /\ wire[r] \notin {"quiet", "lost"} /\ Spend("lost")
  /\ wire' = [wire EXCEPT ![r] = "lost"]
  /\ grant' = [grant EXCEPT ![r] = NoLease]
  /\ UNCHANGED <<server, service, pc, doing, told, kept>>

-----------------------------------------------------------------------------
(* Leases: the deadline, the Server's reaper, and the Keeper's renewals    *)

Lapse(w) ==
  /\ queue[w] = "running" /\ fresh[w]
  /\ fresh' = [fresh EXCEPT ![w] = FALSE]
  /\ UNCHANGED <<queue, leaseNo, deliveries, recorded, service, pc, wire, grant,
                 doing, told, kept, budget>>

Reap(w) ==
  /\ queue[w] = "running" /\ ~fresh[w]
  /\ queue' = [queue EXCEPT ![w] =
                 IF deliveries[w] >= MaxDeliveries THEN "failed" ELSE "queued"]
  /\ UNCHANGED <<leaseNo, deliveries, fresh, recorded, service, pc, wire, grant,
                 doing, told, kept, budget>>

SendRenewal(r) ==
  LET renewal == [by |-> r, lease |-> keeping[r]] IN
  /\ keeping[r] # NoLease /\ renewal \notin renewals
  /\ renewals' = renewals \cup {renewal}
  /\ UNCHANGED <<server, service, pc, wire, grant, doing, told, keeping, budget>>

\* A refusal that says the lease is gone ends the Keeper; no other one does.
LandRenewal(m) ==
  /\ renewals' = renewals \ {m}
  /\ IF Admits(m.by) /\ Current(m.lease)
     THEN fresh' = [fresh EXCEPT ![m.lease.work] = TRUE]
     ELSE UNCHANGED fresh
  /\ IF Admits(m.by) /\ ~Current(m.lease) /\ keeping[m.by] = m.lease
     THEN DropKeeper(m.by)
     ELSE UNCHANGED keeping
  /\ UNCHANGED <<queue, leaseNo, deliveries, recorded, service, pc, wire, grant,
                 doing, told, budget>>

LoseRenewal(m) ==
  /\ renewals' = renewals \ {m}
  /\ UNCHANGED <<server, service, pc, wire, grant, doing, told, keeping, budget>>
-----------------------------------------------------------------------------
(* The handshake, and the loop that claims                                 *)

\* Registered and authenticated: the Server knows this Runner's token.
Admitted(r) ==
  /\ At(r, {"starting", "admit"}) /\ open /\ standing[r] # "revoked"
  /\ standing' = [standing EXCEPT ![r] = "known"]
  /\ Goto(r, "top")
  /\ UNCHANGED <<server, open, wire, grant, doing, told, kept, budget>>

NotAdmitted(r) ==
  /\ At(r, {"starting", "admit"})
  /\ \/ told[r] /\ Goto(r, "top")
     \/ open /\ standing[r] = "revoked" /\ Goto(r, "exited")
  /\ UNCHANGED wire /\ OnlyMoves

AskForJob(r) ==
  /\ At(r, {"top"}) /\ ~told[r]
  /\ Call(r, "claiming") /\ OnlyMoves

LeaveLoop(r) ==
  /\ At(r, {"top"}) /\ told[r]
  /\ Resume(r, "exited") /\ OnlyMoves

\* The answer that has arrived is taken before the word to stop is.
TakeWork(r) ==
  /\ At(r, {"claiming", "asking"}) /\ Heard(r, "ok")
  /\ Resume(r, "fetching")
  /\ hand' = [hand EXCEPT ![r] = grant[r]]
  /\ keeping' = [keeping EXCEPT ![r] = grant[r]]
  /\ grant' = [grant EXCEPT ![r] = NoLease]
  /\ UNCHANGED <<server, service, answer, owed, overdue, told, renewals, budget>>

NoJob(r) ==
  /\ At(r, {"claiming"}) /\ Heard(r, "empty")
  /\ IF told[r] THEN Resume(r, "exited") ELSE Call(r, "asking")
  /\ OnlyMoves

\* No trial, or the asking failed.  A claim the Server held open is followed
\* by no wait, any other empty answer is.
NoTrial(r) ==
  /\ At(r, {"asking"}) /\ wire[r] \in Replies \ {"ok"}
  /\ \E p \in {"idle", "top"} : Resume(r, p)
  /\ OnlyMoves

ClaimFailed(r) ==
  /\ At(r, {"claiming"})
  /\ \/ Heard(r, "unknown") /\ Resume(r, "admit")
     \/ Heard(r, "away") /\ Resume(r, "waitingOut")
     \/ Heard(r, "lost") /\ Resume(r, "sleeping")
     \/ Heard(r, "revoked") /\ Resume(r, "exited")
  /\ OnlyMoves

\* Mutant of StopClaim: the claim is dropped where it stands.
StopClaimDropping(r) ==
  /\ At(r, {"claiming"}) /\ told[r]
  /\ Resume(r, "exited")
  /\ grant' = [grant EXCEPT ![r] = NoLease]
  /\ UNCHANGED <<server, service, doing, told, kept, budget>>

\* Settled, not dropped: the claim is given SETTLE to come back with a job.
StopClaim(r) ==
  /\ At(r, {"claiming"}) /\ told[r]
  /\ Goto(r, "settling") /\ UNCHANGED wire /\ OnlyMoves

SettledWithJob(r) ==
  /\ At(r, {"settling"}) /\ Heard(r, "ok")
  /\ Call(r, "givingBack")
  /\ hand' = [hand EXCEPT ![r] = grant[r]]
  /\ grant' = [grant EXCEPT ![r] = NoLease]
  /\ UNCHANGED <<server, service, answer, owed, overdue, told, kept, budget>>

SettledWithout(r) ==
  /\ At(r, {"settling"}) /\ wire[r] \in Replies \ {"ok"}
  /\ Resume(r, "exited") /\ OnlyMoves

\* SETTLE ran out: a poll still parked costs nothing, an answer in flight for
\* longer than that is a job nobody can give back.
SettleExpires(r) ==
  /\ At(r, {"settling"})
  /\ \/ Heard(r, "sent") /\ UNCHANGED budget
     \/ Heard(r, "ok") /\ Spend("lost")
  /\ Resume(r, "exited")
  /\ grant' = [grant EXCEPT ![r] = NoLease]
  /\ UNCHANGED <<server, service, doing, told, kept>>

\* Waits a timer ends, and the one of them that does not hear the word.
WaitOver(r) ==
  /\ At(r, {"idle", "waitingOut", "sleeping"})
  /\ Goto(r, "top") /\ UNCHANGED wire /\ OnlyMoves

\* Mutant of StopWait: a maintenance window is slept through.
StopWaitDeaf(r) ==
  /\ At(r, {"idle"}) /\ told[r]
  /\ Goto(r, "exited") /\ UNCHANGED wire /\ OnlyMoves

StopWait(r) ==
  /\ At(r, {"idle", "waitingOut"}) /\ told[r]
  /\ Goto(r, "exited") /\ UNCHANGED wire /\ OnlyMoves

-----------------------------------------------------------------------------
(* evaluate: download, prepare, judge; measure_trial for a trial           *)

IsJob(r) == hand[r].work \in Jobs

\* A job's attachments go before its report; a trial has none.
Conclude(r, a) ==
  /\ answer' = [answer EXCEPT ![r] = a]
  /\ IF IsJob(r)
     THEN /\ Goto(r, "attaching") /\ UNCHANGED wire
          /\ \E n \in (IF a = "verdict" THEN 0 .. 2 ELSE {1}) :
               owed' = [owed EXCEPT ![r] = n]
     ELSE Call(r, "reporting") /\ UNCHANGED owed
  /\ UNCHANGED <<server, service, grant, hand, overdue, told, kept, budget>>

\* A trial whose package is in the cache asks the Server for nothing; a job's
\* source is always fetched.
Fetched(r) ==
  /\ At(r, {"fetching"})
  /\ Admits(r) \/ ~IsJob(r)
  /\ Goto(r, "judging") /\ UNCHANGED wire /\ OnlyMoves

\* A retryable failure of a download: left to the lease, never reported.
FetchAway(r) == At(r, {"fetching"}) /\ ~open /\ LetGo(r, "top")

\* The same for a download the network lost, and for a cache entry another
\* Runner evicted between its download and its use.
FetchLost(r) ==
  /\ At(r, {"fetching"}) /\ Spend("lost")
  /\ Resume(r, "top")
  /\ hand' = [hand EXCEPT ![r] = NoLease]
  /\ DropKeeper(r)
  /\ UNCHANGED <<server, service, grant, answer, owed, overdue, told, renewals>>

\* Any other refusal of a download becomes a failure of the machinery.
FetchRefused(r) ==
  /\ At(r, {"fetching"}) /\ open /\ standing[r] # "known"
  /\ Conclude(r, IF standing[r] = "unknown" THEN "outage" ELSE "broken")

\* A package that will not open, a build that fails, a sandbox that will not
\* start.
MachineryBroke(r) == At(r, {"fetching", "judging"}) /\ Conclude(r, "broken")

Judged(r) == At(r, {"judging"}) /\ Conclude(r, "verdict")

\* Told while waiting for another Runner to prepare the package.
LockStopped(r) ==
  /\ At(r, {"judging"}) /\ SharedCache /\ told[r]
  /\ LetGo(r, "top")

\* Mutant of StopEvaluation: the job is given back with its Keeper running.
StopEvaluationKeeping(r) ==
  /\ At(r, {"fetching", "judging"}) /\ IsJob(r) /\ told[r]
  /\ Call(r, "givingBack")
  /\ UNCHANGED <<server, service, grant, doing, told, kept, budget>>

\* `handle' hears the word while evaluating; `run_trial' has no such arm.
StopEvaluation(r) ==
  /\ At(r, {"fetching", "judging"}) /\ IsJob(r) /\ told[r]
  /\ Call(r, "givingBack")
  /\ DropKeeper(r)
  /\ UNCHANGED <<server, service, grant, doing, told, renewals, budget>>

\* Whatever the release answered, the loop is next and it has been told.
GivenBack(r) ==
  /\ At(r, {"givingBack"}) /\ wire[r] \in Replies
  /\ LetGo(r, "top")

-----------------------------------------------------------------------------
(* attach, then report until it lands or is not wanted                     *)

SendAttachment(r) ==
  /\ At(r, {"attaching"}) /\ Heard(r, "quiet") /\ owed[r] > 0
  /\ wire' = [wire EXCEPT ![r] = "sent"]
  /\ UNCHANGED pc /\ OnlyMoves

\* Losing an attachment is worth a warning and nothing else.
AttachmentAnswered(r) ==
  /\ At(r, {"attaching"}) /\ wire[r] \in Replies
  /\ owed' = [owed EXCEPT ![r] = @ - 1]
  /\ Resume(r, "attaching")
  /\ UNCHANGED <<server, service, grant, hand, answer, overdue, told, kept, budget>>

StartReport(r) ==
  /\ At(r, {"attaching"}) /\ Heard(r, "quiet") /\ owed[r] = 0
  /\ Call(r, "reporting") /\ OnlyMoves

\* Mutant of Reported: the log is attached after the report.
ReportedThenAttach(r) ==
  /\ At(r, {"reporting"}) /\ wire[r] \in {"ok", "stale"}
  /\ Resume(r, "attaching")
  /\ owed' = [owed EXCEPT ![r] = 1]
  /\ UNCHANGED <<server, service, grant, hand, answer, overdue, told, kept, budget>>

\* Recorded, recorded before, or somebody else's by now.
Reported(r) ==
  /\ At(r, {"reporting"}) /\ wire[r] \in {"ok", "stale"}
  /\ LetGo(r, "top")

\* A lease's time has gone by since the first attempt, or will have before
\* the next.
DeadlinePasses(r) ==
  /\ At(r, {"reporting"}) /\ ~overdue[r]
  /\ overdue' = [overdue EXCEPT ![r] = TRUE]
  /\ UNCHANGED <<server, service, pc, wire, grant, hand, answer, owed, told, kept, budget>>

\* Mutant of Retryable: a Server that withdrew is taken at its word.
RetryableTransportOnly(reply) == reply = "lost"

Retryable(reply) == reply \in {"away", "lost"}

ReportHeld(r) ==
  /\ At(r, {"reporting"}) /\ Retryable(wire[r]) /\ ~overdue[r]
  /\ Resume(r, "holding") /\ OnlyMoves

\* Mutant of ReportGivenUp: a 401 is answered with a handshake, and whatever was
\* to be reported is sent again.
ReportAfterHandshake(r) ==
  /\ At(r, {"reporting"}) /\ Heard(r, "unknown") /\ open
  /\ standing' = [standing EXCEPT ![r] = "known"]
  /\ wire' = [wire EXCEPT ![r] = "sent"]
  /\ UNCHANGED <<server, open, pc, grant, doing, told, kept, budget>>

ReportGivenUp(r) ==
  /\ At(r, {"reporting"}) /\ wire[r] \in {"away", "lost", "unknown", "revoked"}
  /\ ~Retryable(wire[r]) \/ overdue[r]
  /\ LetGo(r, "top")

HoldOver(r) ==
  /\ At(r, {"holding"})
  /\ Call(r, "reporting") /\ OnlyMoves

\* The wait of a trial's report does not hear the word.
StopHolding(r) ==
  /\ At(r, {"holding"}) /\ IsJob(r) /\ told[r]
  /\ LetGo(r, "top")

-----------------------------------------------------------------------------
(* The world outside                                                       *)

\* A signal before Stopping::listen takes the process down: see Crash.
Tell(r) ==
  /\ ~told[r] /\ ~At(r, {"starting", "exited", "down"})
  /\ told' = [told EXCEPT ![r] = TRUE]
  /\ UNCHANGED <<server, service, pc, wire, grant, doing, kept, budget>>

Crash(r) ==
  /\ ~At(r, {"exited", "down"}) /\ Spend("crashes")
  /\ Resume(r, "down")
  /\ hand' = [hand EXCEPT ![r] = NoLease]
  /\ grant' = [grant EXCEPT ![r] = NoLease]
  /\ answer' = [answer EXCEPT ![r] = "none"]
  /\ owed' = [owed EXCEPT ![r] = 0]
  /\ overdue' = [overdue EXCEPT ![r] = FALSE]
  /\ told' = [told EXCEPT ![r] = FALSE]
  /\ DropKeeper(r)
  /\ UNCHANGED <<server, service, renewals>>

\* A new process has no token, whatever the Server remembers of the old one.
Restart(r) ==
  /\ At(r, {"down"})
  /\ Goto(r, "starting")
  /\ standing' = [standing EXCEPT ![r] = IF @ = "known" THEN "unknown" ELSE @]
  /\ UNCHANGED <<server, open, wire, grant, doing, told, kept, budget>>

ServerAway ==
  /\ open /\ Spend("away")
  /\ open' = FALSE
  /\ UNCHANGED <<server, standing, pc, wire, grant, doing, told, kept>>

ServerBack ==
  /\ ~open
  /\ open' = TRUE
  /\ UNCHANGED <<server, standing, pc, wire, grant, doing, told, kept, budget>>

\* Tokens live in the Server's memory: an ordinary restart forgets them all.
ServerForgets ==
  /\ Spend("forgets")
  /\ standing' = [r \in Runners |->
                    IF standing[r] = "known" THEN "unknown" ELSE standing[r]]
  /\ UNCHANGED <<server, open, pc, wire, grant, doing, told, kept>>

Revoke(r) ==
  /\ standing[r] # "revoked" /\ Spend("revoked")
  /\ standing' = [standing EXCEPT ![r] = "revoked"]
  /\ UNCHANGED <<server, open, pc, wire, grant, doing, told, kept>>

-----------------------------------------------------------------------------
(* What the main task of r does of its own accord, told or not, except the *)
(* waits only a timer ends and the evaluation itself.                      *)
Prompt(r) ==
  \/ Admitted(r) \/ NotAdmitted(r) \/ AskForJob(r) \/ LeaveLoop(r)
  \/ TakeWork(r) \/ NoJob(r) \/ NoTrial(r) \/ ClaimFailed(r)
  \/ SettledWithJob(r) \/ SettledWithout(r) \/ GivenBack(r)
  \/ SendAttachment(r) \/ AttachmentAnswered(r) \/ StartReport(r)
  \/ Reported(r) \/ ReportHeld(r) \/ ReportGivenUp(r)

HearsStop(r) ==
  \/ StopClaim(r) \/ SettleExpires(r) \/ StopWait(r) \/ StopEvaluation(r)
  \/ LockStopped(r) \/ StopHolding(r)

Timer(r) == WaitOver(r) \/ HoldOver(r) \/ DeadlinePasses(r)

Evaluates(r) ==
  \/ Fetched(r) \/ FetchAway(r) \/ FetchLost(r) \/ FetchRefused(r)
  \/ MachineryBroke(r) \/ Judged(r)

Renews(r) ==
  \/ SendRenewal(r)
  \/ \E m \in renewals : m.by = r /\ (LandRenewal(m) \/ LoseRenewal(m))

Faults(r) == LoseCall(r) \/ Tell(r) \/ Crash(r) \/ Restart(r) \/ Revoke(r)

Next ==
  \/ \E r \in Runners :
       \/ Prompt(r) \/ HearsStop(r) \/ Timer(r) \/ Evaluates(r)
       \/ Renews(r) \/ Serve(r) \/ Faults(r)
  \/ \E w \in Work : Lapse(w) \/ Reap(w)
  \/ ServerAway \/ ServerBack \/ ServerForgets

Spec == Init /\ [][Next]_vars
-----------------------------------------------------------------------------
(* Fairness.  Every call comes back (client.rs bounds each one by a read   *)
(* or a total timeout), the runtime runs every task that can run, a build  *)
(* and a test have wall clocks, maintenance ends, deadlines pass and the   *)
(* Server's reaper runs.  Faults, stops and renewals are never owed.       *)
TaskFairness(r) ==
  /\ WF_vars(Prompt(r)) /\ WF_vars(HearsStop(r)) /\ WF_vars(Evaluates(r))
  /\ WF_vars(Serve(r)) /\ WF_vars(Restart(r))

Fairness ==
  /\ \A r \in Runners : TaskFairness(r) /\ WF_vars(Timer(r))
  /\ \A w \in Work : WF_vars(Lapse(w)) /\ WF_vars(Reap(w))
  /\ WF_vars(ServerBack)

FairSpec == Spec /\ Fairness

\* The one wait of the loop that is a plain sleep.
DeafWaitOver(r) == At(r, {"sleeping"}) /\ WaitOver(r)

\* No timer is owed but that one: any other wait may outlast the stop grace.  The
\* longest are however long Retry-After asked for, which this side does not
\* bound.  Nor is any lease owed its deadline: work that comes back was given
\* back.
LongWaitsSpec ==
  /\ Spec /\ WF_vars(ServerBack)
  /\ \A r \in Runners : TaskFairness(r) /\ WF_vars(DeafWaitOver(r))

-----------------------------------------------------------------------------
(* Properties                                                              *)

\* An outage of the Server never becomes the answer to somebody's work: no
\* report whose only cause was a Server that was away or had forgotten this
\* Runner is ever recorded (run.rs, Trouble).
OutageIsNeverAFailure == \A w \in Work : recorded[w] # "outage"

\* A lease is renewed for as long as its work is in hand and no longer: a
\* Keeper that outlived its work would keep the job from everybody
\* (keeper.rs, Drop for Keeper).
KeptOnlyWhileHeld ==
  \A r \in Runners :
    keeping[r] # NoLease => keeping[r] = hand[r] /\ At(r, Handling)

\* The Server takes attachments only while the job runs, and a report ends
\* that: nothing is still to be attached once the result is recorded under
\* the same lease (run.rs, handle).
AttachedBeforeReported ==
  \A r \in Runners :
    At(r, {"attaching"}) /\ recorded[hand[r].work] # "none"
      => leaseNo[hand[r].work] # hand[r].no

\* While the Server still waits for an answer already computed, the answer is let
\* go only because its time is up, because the Runner is stopping, or because the
\* Server does not take this Runner's calls any more and has said so: never
\* because a call was lost or the Server was away, and never as landed when it
\* had not (run.rs, KeepTrying and report_with_retries).
AnswerCarried ==
  [][\A r \in Runners :
       At(r, Answering) /\ pc'[r] = "top" /\ Current(hand[r])
         => \/ overdue[r] \/ told[r]
            \/ wire[r] \in {"unknown", "revoked"} /\ standing[r] # "known"]_vars

\* A Server that restarts costs nobody an answer already computed: its 401 means
\* "shake hands again", and the lease is still this Runner's (error.rs,
\* needs_handshake; run.rs, KeepTrying).
AnswerSurvivesRestart ==
  [][\A r \in Runners :
       At(r, Answering) /\ pc'[r] = "top" /\ Current(hand[r])
         => overdue[r] \/ told[r] \/ standing[r] = "revoked"]_vars

\* Work moves as WorkQueue says it may.
Queue == INSTANCE WorkQueue WITH state <- queue, result <- recorded
QueueSpec == Queue!Spec

\* Work that is being worked on ends or comes back, whatever became of the
\* Runner that held it.
HeldComesBack ==
  \A w \in Work : (queue[w] = "running") ~> (queue[w] # "running")

\* A Runner that was told to stop stops with no timer running out on it, except
\* that it sleeps out the wait after a claim that failed; or it is measuring a
\* trial, which nobody else can be handed (stopping.rs; run.rs, run_trial).
StopIsHeard ==
  \A r \in Runners :
    told[r] ~> \/ ~told[r] \/ At(r, {"exited"})
               \/ At(r, Handling) /\ ~IsJob(r)

\* No call was lost, nobody died, and the Server neither went away nor forgot.
Undisturbed ==
  budget = [lost |-> MaxLost, away |-> MaxAway, forgets |-> MaxForgets,
            crashes |-> MaxCrashes, revoked |-> MaxRevoked]

\* A job in the hands of a Runner that is told to stop, or on its way to it,
\* is given back or finished without waiting for its lease to run out, unless
\* the Server could not be told (stopping.rs).
StoppedJobGoesBack ==
  \A r \in Runners, w \in Jobs, n \in 1 .. MaxLeases :
    LET l == [work |-> w, no |-> n] IN
    (told[r] /\ l \in {hand[r], grant[r]}) ~> (~Current(l) \/ ~Undisturbed)
=============================================================================
