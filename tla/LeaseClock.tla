------------------------------ MODULE LeaseClock ------------------------------
(***************************************************************************)
(* One lease against the clock: how long the Server granted, how often the *)
(* Keeper renews it, and how long a renewal may take to answer or to fail  *)
(* (aj-runner/src/keeper.rs, lease_granted in config.rs, the timeouts of   *)
(* client.rs).  RunnerWork lets a lease lapse whenever it likes; here the  *)
(* deadline is counted, in ticks.                                          *)
(***************************************************************************)
EXTENDS Integers

CONSTANTS
  Asked,     \* the lease the operator configured
  Shortest,  \* the shortest lease the Server grants: a minute
  Longest,   \* the longest: an hour
  Floor,     \* the shortest interval between renewals: five seconds
  Prompt,    \* a renewal that succeeds has answered within this
  Hang,      \* a renewal that fails has failed within this
  MaxMisses  \* bound: renewals that fail in a row

\* config.rs clamps what it asks for as the Server does.
Granted ==
  IF Asked < Shortest THEN Shortest ELSE IF Asked > Longest THEN Longest ELSE Asked

\* Mutant of Every: half the lease.
EveryHalf(granted) == IF granted \div 2 > Floor THEN granted \div 2 ELSE Floor

\* A quarter of the lease, and never less than the floor.
Every(granted) == IF granted \div 4 > Floor THEN granted \div 4 ELSE Floor

Interval == Every(Granted)

ASSUME ClockAssumption ==
  /\ Asked \in Nat /\ Shortest \in Nat \ {0} /\ Longest \in Nat /\ Floor \in Nat \ {0}
  /\ Shortest <= Longest
  /\ Prompt \in Nat /\ Hang \in Nat /\ Prompt <= Hang
  /\ MaxMisses \in Nat

VARIABLES
  left,       \* ticks until the Server's deadline; 0 once it has passed
  phase,      \* the Keeper is "asleep", has a renewal "out", or has "ended"
  timer,      \* ticks spent in that phase
  committed,  \* the renewal that is out has been granted
  misses      \* renewals that failed in a row

vars == <<left, phase, timer, committed, misses>>

TypeOK ==
  /\ left \in 0 .. Granted
  /\ phase \in {"asleep", "out", "ended"}
  /\ timer \in Nat
  /\ committed \in BOOLEAN
  /\ misses \in 0 .. MaxMisses

\* The claim granted a full lease when it was committed; its answer took up
\* to Prompt to arrive.
Init ==
  /\ left \in {n \in 0 .. Granted : n >= Granted - Prompt}
  /\ phase = "asleep" /\ timer = 0 /\ committed = FALSE /\ misses = 0

Tick ==
  /\ \/ phase = "asleep" /\ timer < Interval
     \/ phase = "out" /\ timer < Hang
  /\ timer' = timer + 1
  /\ left' = IF left = 0 THEN 0 ELSE left - 1
  /\ UNCHANGED <<phase, committed, misses>>

\* After the interval, not before it.
SendRenewal ==
  /\ phase = "asleep" /\ timer = Interval
  /\ phase' = "out" /\ timer' = 0
  /\ UNCHANGED <<left, committed, misses>>

\* The Server renews what has not run out: the lease counts from here again.
Commit ==
  /\ phase = "out" /\ ~committed /\ left > 0
  /\ left' = Granted /\ committed' = TRUE
  /\ UNCHANGED <<phase, timer, misses>>

Renewed ==
  /\ phase = "out" /\ committed /\ timer <= Prompt
  /\ phase' = "asleep" /\ timer' = 0 /\ committed' = FALSE /\ misses' = 0
  /\ UNCHANGED left

\* A lease that is gone ends the Keeper.
Refused ==
  /\ phase = "out" /\ left = 0
  /\ phase' = "ended" /\ timer' = 0
  /\ UNCHANGED <<left, committed, misses>>

\* Anything else is one missed renewal; the answer of one that was granted
\* may be what was missed.
Missed ==
  /\ phase = "out" /\ misses < MaxMisses
  /\ phase' = "asleep" /\ timer' = 0 /\ committed' = FALSE /\ misses' = misses + 1
  /\ UNCHANGED left

Next == Tick \/ SendRenewal \/ Commit \/ Renewed \/ Refused \/ Missed

Spec == Init /\ [][Next]_vars

-----------------------------------------------------------------------------
\* Two renewals in a row can fail with the work still held: the deadline is
\* ahead until the third has had the time a renewal needs, and no Keeper is
\* refused before that (keeper.rs, spawn and every).
TwoMissesAreSafe ==
  /\ misses <= 2 /\ (phase = "asleep" \/ (phase = "out" /\ timer <= Prompt)) => left > 0
  /\ phase = "ended" => misses >= 2
=============================================================================
