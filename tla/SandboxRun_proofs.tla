---------------------------- MODULE SandboxRun_proofs ----------------------------
(***************************************************************************)
(* For any number of Runners, lanes and runs: a reading is of one run,     *)
(* nothing of a run is left on the host, and every wait of a run is for    *)
(* something that comes.                                                   *)
(***************************************************************************)
EXTENDS SandboxRun, TLAPS

-----------------------------------------------------------------------------
(* The inductive invariant, in named parts.                                *)

\* Where a run has what it was given, and has not given it back.
Within == {"mount", "create", "channel", "start", "watch", "kill", "take",
           "drain", "inspect", "remove", "finish"}

\* A run under way is a run of a Runner that works.
UnderWay ==
  \A r \in Runs : pc[r] \notin {"idle", "over", "dropped"} =>
    owner[r] \in Runners /\ up[owner[r]] = "working"

\* A slice is held by a run of its own lane that has not returned.
Gated ==
  \A h \in Runners \X Lanes : gate[h] # NoRun =>
    driver = "systemd" /\ home(gate[h]) = h /\ pc[gate[h]] \in Within

\* Under systemd, whoever is past the gate and beside nobody holds it.
Gatekept ==
  \A r \in Runs : pc[r] \in Within /\ driver = "systemd" /\ ~Alongside(kind[r]) =>
    gate[home(r)] = r

\* The lock of the probe is held by a run of that Runner that is probing.
Locked ==
  \A i \in Runners : lock[i] # NoRun => owner[lock[i]] = i /\ pc[lock[i]] = "probing"

\* What a run has on the host: nothing before its container is created, a
\* container or a directory only while it is under way, or was cut short by
\* a Runner that has not swept yet.
Early(r) ==
  pc[r] \in {"idle", "asking", "probing", "begin", "mount", "create"} => box[r] = "none"
Contained(r) ==
  left[r] = "none" /\ (box[r] \notin {"none", "gone"} \/ dir[r] = TRUE) =>
    /\ owner[r] \in Runners
    /\ \/ pc[r] \in Within
       \/ pc[r] = "dropped" /\ up[owner[r]] \in {"down", "stopping"}
Gone(r) == box[r] = "gone" => pc[r] \in {"finish", "report", "over", "dropped"}
Ending(r) == pc[r] = "finish" => box[r] = "gone" \/ left[r] = "refused"
Drained(r) == pc[r] \in {"take", "drain"} => box[r] # "running" \/ deaf[r]

\* What has no channel for its report is a measured run that returned, and
\* was not started; its Runner has a sweep before it.  Nobody reads a report
\* that is not owed, and who still waits for one waits in vain only after an
\* error.
Unreported(r) ==
  /\ reader[r] # "none" => Measured(kind[r]) /\ pc[r] # "idle"
  /\ pc[r] = "over" /\ reader[r] = "opening" => outcome[r] = "error"
  /\ pc[r] = "channel" => Measured(kind[r]) /\ box[r] = "created"
  /\ pc[r] = "report" => Measured(kind[r])
  /\ left[r] = "unreported" =>
       /\ pc[r] = "over" /\ outcome[r] = "error" /\ Measured(kind[r])
       /\ box[r] = "created" /\ dir[r] # TRUE
       /\ owner[r] \in Runners /\ up[owner[r]] # "ended"

OnHost(r) ==
  Early(r) /\ Contained(r) /\ Gone(r) /\ Ending(r) /\ Drained(r) /\ Unreported(r)

SInv == TypeOK /\ UnderWay /\ Gated /\ Gatekept /\ Locked /\ \A r \in Runs : OnHost(r)

-----------------------------------------------------------------------------
(* The types.                                                              *)

\* One flag of a run is set, or let go of.
LEMMA FlagUpdate ==
  ASSUME NEW f \in [Runs -> BOOLEAN], NEW r \in Runs, NEW b \in BOOLEAN
  PROVE  [f EXCEPT ![r] = b] \in [Runs -> BOOLEAN]
OBVIOUS

\* What comes after the wait for the container is a place.
LEMMA AfterStopIsPlace ==
  \A k : AfterStop(k) \in {"take", "inspect", "drain"}
BY DEF AfterStop

\* A call that was refused is counted under its bound.
LEMMA FaultIsBounded ==
  ASSUME TypeOK, Fault
  PROVE  faults' \in 0..MaxTroubles
BY SandboxAssumption DEF TypeOK, Fault, Allowed

\* A step of a run, or of what moves beside it, keeps the types.
LEMMA RunTypes ==
  ASSUME TypeOK, NEW r \in Runs, RunStep(r) \/ Beside(r)
  PROVE  TypeOK'
<1>known. known \in [Runners -> {"unknown", "shim", "none"}]
  BY DEF TypeOK
<1>lock. lock \in [Runners -> Runs \cup {NoRun}]
  BY DEF TypeOK
<1>probe. probe \in [Runners -> Runs \cup {NoRun}]
  BY DEF TypeOK
<1>gate. gate \in [Runners \X Lanes -> Runs \cup {NoRun}]
  BY DEF TypeOK
<1>pc. pc \in [Runs -> Places]
  BY DEF TypeOK
<1>measuring. measuring \in [Runs -> {"none", "own", "shared"}]
  BY DEF TypeOK
<1>dir. dir \in [Runs -> BOOLEAN]
  BY DEF TypeOK
<1>box. box \in [Runs -> {"none", "created", "running", "exited", "gone"}]
  BY DEF TypeOK
<1>end. end \in [Runs -> {"none", "itself", "oom", "killed"}]
  BY DEF TypeOK
<1>oomed. oomed \in [Runs -> BOOLEAN]
  BY DEF TypeOK
<1>report. report \in [Runs -> {"none", "open", "written"}]
  BY DEF TypeOK
<1>reader. reader \in [Runs -> {"none", "opening", "ended"}]
  BY DEF TypeOK
<1>log. log \in [Runs -> {"none", "reading", "ended"}]
  BY DEF TypeOK
<1>flooded. flooded \in [Runs -> BOOLEAN]
  BY DEF TypeOK
<1>asked. asked \in [Runs -> {"none", "Decided", "Output"}]
  BY DEF TypeOK
<1>stopped. stopped \in [Runs -> Outcomes]
  BY DEF TypeOK
<1>outcome. outcome \in [Runs -> Outcomes]
  BY DEF TypeOK
<1>left. left \in [Runs -> {"none", "refused", "unreported"}]
  BY DEF TypeOK
<1>deaf. deaf \in [Runs -> BOOLEAN]
  BY DEF TypeOK
<1>1. CASE Remembered(r)
  <2>1. pc' \in [Runs -> Places]
    BY <1>1, <1>pc DEF Remembered, Goto, Return, Places
  <2>2. outcome' \in [Runs -> Outcomes]
    BY <1>1, <1>outcome DEF Remembered, Goto, Return, Outcomes, Stops
  <2>3. faults' \in 0..MaxTroubles
    BY <1>1, FaultIsBounded DEF Remembered, TypeOK
  <2>4. QED
    BY <1>1, <2>1, <2>2, <2>3 DEF Remembered, progVars, runVars, shimVars, TypeOK
<1>2. CASE Probe(r)
  <2>1. lock' \in [Runners -> Runs \cup {NoRun}]
    BY <1>2, <1>lock DEF Probe
  <2>2. probe' \in [Runners -> Runs \cup {NoRun}]
    BY <1>2, <1>probe DEF Probe
  <2>3. pc' \in [Runs -> Places]
    BY <1>2, <1>pc DEF Probe, Goto, Places
  <2>4. QED
    BY <1>2, <2>1, <2>2, <2>3 DEF Probe, daemonVars, progVars, runVars, TypeOK
<1>3. CASE Probed(r)
  <2>1. known' \in [Runners -> {"unknown", "shim", "none"}]
    BY <1>3, <1>known DEF Probed
  <2>2. lock' \in [Runners -> Runs \cup {NoRun}]
    BY <1>3, <1>lock DEF Probed
  <2>3. probe' \in [Runners -> Runs \cup {NoRun}]
    BY <1>3, <1>probe DEF Probed
  <2>4. pc' \in [Runs -> Places]
    BY <1>3, <1>pc DEF Probed, Goto, Return, Places
  <2>5. outcome' \in [Runs -> Outcomes]
    BY <1>3, <1>outcome DEF Probed, Goto, Return, Outcomes, Stops
  <2>6. faults' \in 0..MaxTroubles
    BY <1>3, FaultIsBounded DEF Probed, TypeOK
  <2>7. QED
    BY <1>3, <2>1, <2>2, <2>3, <2>4, <2>5, <2>6 DEF Probed, progVars, runVars, TypeOK
<1>4. CASE Begin(r)
  <2>1. gate' \in [Runners \X Lanes -> Runs \cup {NoRun}]
    BY <1>4, <1>gate, SandboxAssumption DEF Begin
  <2>2. pc' \in [Runs -> Places]
    BY <1>4, <1>pc DEF Begin, Goto, Places
  <2>3. measuring' \in [Runs -> {"none", "own", "shared"}]
    BY <1>4, <1>measuring DEF Begin
  <2>4. dir' \in [Runs -> BOOLEAN]
    BY <1>4, <1>dir, FlagUpdate DEF Begin
  <2>5. faults' \in 0..MaxTroubles
    BY <1>4, FaultIsBounded DEF Begin, TypeOK
  <2>6. QED
    BY <1>4, <2>1, <2>2, <2>3, <2>4, <2>5 DEF Begin, progVars, runVars, shimVars, TypeOK
<1>5. CASE MountPoint(r)
  <2>1. gate' \in [Runners \X Lanes -> Runs \cup {NoRun}]
    BY <1>5, <1>gate, SandboxAssumption DEF MountPoint, LetGo
  <2>2. pc' \in [Runs -> Places]
    BY <1>5, <1>pc DEF MountPoint, Goto, Return, Places
  <2>3. dir' \in [Runs -> BOOLEAN]
    BY <1>5, <1>dir, FlagUpdate DEF MountPoint, LetGo
  <2>4. outcome' \in [Runs -> Outcomes]
    BY <1>5, <1>outcome DEF MountPoint, Goto, Return, Outcomes, Stops
  <2>5. faults' \in 0..MaxTroubles
    BY <1>5, FaultIsBounded DEF MountPoint, TypeOK
  <2>6. QED
    BY <1>5, <2>1, <2>2, <2>3, <2>4, <2>5 DEF MountPoint, progVars, runVars, shimVars, TypeOK
<1>6. CASE Create(r)
  <2>1. gate' \in [Runners \X Lanes -> Runs \cup {NoRun}]
    BY <1>6, <1>gate, SandboxAssumption DEF Create, LetGo
  <2>2. pc' \in [Runs -> Places]
    BY <1>6, <1>pc DEF Create, Goto, Return, Places
  <2>3. dir' \in [Runs -> BOOLEAN]
    BY <1>6, <1>dir, FlagUpdate DEF Create, LetGo
  <2>4. box' \in [Runs -> {"none", "created", "running", "exited", "gone"}]
    BY <1>6, <1>box DEF Create
  <2>5. outcome' \in [Runs -> Outcomes]
    BY <1>6, <1>outcome DEF Create, Goto, Return, Outcomes, Stops
  <2>6. faults' \in 0..MaxTroubles
    BY <1>6, FaultIsBounded DEF Create, TypeOK
  <2>7. QED
    BY <1>6, <2>1, <2>2, <2>3, <2>4, <2>5, <2>6 DEF Create, progVars, runVars, shimVars, TypeOK
<1>7. CASE Channel(r)
  <2>1. gate' \in [Runners \X Lanes -> Runs \cup {NoRun}]
    BY <1>7, <1>gate, SandboxAssumption DEF Channel, LetGo
  <2>2. pc' \in [Runs -> Places]
    BY <1>7, <1>pc DEF Channel, Goto, Return, Places
  <2>3. dir' \in [Runs -> BOOLEAN]
    BY <1>7, <1>dir, FlagUpdate DEF Channel, LetGo
  <2>4. reader' \in [Runs -> {"none", "opening", "ended"}]
    BY <1>7, <1>reader DEF Channel
  <2>5. outcome' \in [Runs -> Outcomes]
    BY <1>7, <1>outcome DEF Channel, Goto, Return, Outcomes, Stops
  <2>6. left' \in [Runs -> {"none", "refused", "unreported"}]
    BY <1>7, <1>left DEF Channel
  <2>7. faults' \in 0..MaxTroubles
    BY <1>7, FaultIsBounded DEF Channel, TypeOK
  <2>8. QED
    BY <1>7, <2>1, <2>2, <2>3, <2>4, <2>5, <2>6, <2>7
    DEF Channel, progVars, runVars, shimVars, TypeOK
<1>8. CASE Start(r)
  <2>1. pc' \in [Runs -> Places]
    BY <1>8, <1>pc DEF Start, Goto, Places
  <2>2. box' \in [Runs -> {"none", "created", "running", "exited", "gone"}]
    BY <1>8, <1>box DEF Start
  <2>3. log' \in [Runs -> {"none", "reading", "ended"}]
    BY <1>8, <1>log DEF Start
  <2>4. stopped' \in [Runs -> Outcomes]
    BY <1>8, <1>stopped DEF Start, Outcomes, Stops
  <2>5. faults' \in 0..MaxTroubles
    BY <1>8, FaultIsBounded DEF Start, TypeOK
  <2>6. QED
    BY <1>8, <2>1, <2>2, <2>3, <2>4, <2>5 DEF Start, progVars, runVars, shimVars, TypeOK
<1>9. CASE Exited(r)
  <2>1. pc' \in [Runs -> Places]
    BY <1>9, <1>pc, AfterStopIsPlace DEF Exited, Goto, Places
  <2>2. stopped' \in [Runs -> Outcomes]
    BY <1>9, <1>stopped DEF Exited, Outcomes, Stops
  <2>3. deaf' \in [Runs -> BOOLEAN]
    BY <1>9, <1>deaf, FlagUpdate DEF Exited
  <2>4. faults' \in 0..MaxTroubles
    BY <1>9, FaultIsBounded DEF Exited, TypeOK
  <2>5. QED
    BY <1>9, <2>1, <2>2, <2>3, <2>4 DEF Exited, progVars, runVars, shimVars, TypeOK
<1>10. CASE Reaped(r)
  <2>1. pc' \in [Runs -> Places]
    BY <1>10, <1>pc DEF Reaped, Goto, Places
  <2>2. stopped' \in [Runs -> Outcomes]
    BY <1>10, <1>stopped DEF Reaped, Outcomes, Stops
  <2>3. QED
    BY <1>10, <2>1, <2>2 DEF Reaped, daemonVars, progVars, runVars, shimVars, TypeOK
<1>11. CASE Enough(r)
  <2>1. pc' \in [Runs -> Places]
    BY <1>11, <1>pc DEF Enough, Goto, Places
  <2>2. stopped' \in [Runs -> Outcomes]
    BY <1>11, <1>stopped, <1>asked DEF Enough, Outcomes, Stops
  <2>3. QED
    BY <1>11, <2>1, <2>2 DEF Enough, daemonVars, progVars, runVars, shimVars, TypeOK
<1>12. CASE Kill(r)
  <2>1. pc' \in [Runs -> Places]
    BY <1>12, <1>pc, AfterStopIsPlace DEF Kill, Goto, Places
  <2>2. box' \in [Runs -> {"none", "created", "running", "exited", "gone"}]
    BY <1>12, <1>box DEF Kill, Killed
  <2>3. end' \in [Runs -> {"none", "itself", "oom", "killed"}]
    BY <1>12, <1>end DEF Kill, Killed
  <2>4. deaf' \in [Runs -> BOOLEAN]
    BY <1>12, <1>deaf, FlagUpdate DEF Kill
  <2>5. faults' \in 0..MaxTroubles
    BY <1>12, FaultIsBounded DEF Kill, TypeOK
  <2>6. QED
    BY <1>12, <2>1, <2>2, <2>3, <2>4, <2>5 DEF Kill, runVars, shimVars, TypeOK
<1>13. CASE Take(r)
  <2>1. pc' \in [Runs -> Places]
    BY <1>13, <1>pc DEF Take, Goto, Places
  <2>2. stopped' \in [Runs -> Outcomes]
    BY <1>13, <1>stopped DEF Take, Outcomes, Stops
  <2>3. QED
    BY <1>13, <2>1, <2>2 DEF Take, daemonVars, progVars, runVars, shimVars, TypeOK
<1>14. CASE Drain(r)
  <2>1. pc' \in [Runs -> Places]
    BY <1>14, <1>pc DEF Drain, Goto, Places
  <2>2. stopped' \in [Runs -> Outcomes]
    BY <1>14, <1>stopped DEF Drain, Outcomes, Stops
  <2>3. QED
    BY <1>14, <2>1, <2>2 DEF Drain, daemonVars, progVars, runVars, shimVars, TypeOK
<1>15. CASE Inspect(r)
  <2>1. pc' \in [Runs -> Places]
    BY <1>15, <1>pc DEF Inspect, Goto, Places
  <2>2. stopped' \in [Runs -> Outcomes]
    BY <1>15, <1>stopped DEF Inspect, Outcomes, Stops
  <2>3. faults' \in 0..MaxTroubles
    BY <1>15, FaultIsBounded DEF Inspect, TypeOK
  <2>4. QED
    BY <1>15, <2>1, <2>2, <2>3 DEF Inspect, progVars, runVars, shimVars, TypeOK
<1>16. CASE Remove(r)
  <2>1. pc' \in [Runs -> Places]
    BY <1>16, <1>pc DEF Remove, Goto, Places
  <2>2. box' \in [Runs -> {"none", "created", "running", "exited", "gone"}]
    BY <1>16, <1>box DEF Remove, Killed
  <2>3. end' \in [Runs -> {"none", "itself", "oom", "killed"}]
    BY <1>16, <1>end DEF Remove, Killed
  <2>4. left' \in [Runs -> {"none", "refused", "unreported"}]
    BY <1>16, <1>left DEF Remove
  <2>5. faults' \in 0..MaxTroubles
    BY <1>16, FaultIsBounded DEF Remove, TypeOK
  <2>6. QED
    BY <1>16, <2>1, <2>2, <2>3, <2>4, <2>5 DEF Remove, runVars, shimVars, TypeOK
<1>17. CASE Finish(r)
  <2>1. gate' \in [Runners \X Lanes -> Runs \cup {NoRun}]
    BY <1>17, <1>gate, SandboxAssumption DEF Finish, LetGo
  <2>2. pc' \in [Runs -> Places]
    BY <1>17, <1>pc DEF Finish, Goto, Return, Places
  <2>3. dir' \in [Runs -> BOOLEAN]
    BY <1>17, <1>dir, FlagUpdate DEF Finish, LetGo
  <2>4. stopped' \in [Runs -> Outcomes]
    BY <1>17, <1>stopped DEF Finish, MemoryKill, Outcomes, Stops
  <2>5. outcome' \in [Runs -> Outcomes]
    BY <1>17, <1>outcome, <1>stopped DEF Finish, Goto, Return, MemoryKill, Outcomes, Stops
  <2>6. QED
    BY <1>17, <2>1, <2>2, <2>3, <2>4, <2>5
    DEF Finish, daemonVars, progVars, runVars, shimVars, TypeOK
<1>18. CASE Report(r)
  <2>1. pc' \in [Runs -> Places]
    BY <1>18, <1>pc DEF Report, Goto, Return, Places
  <2>2. reader' \in [Runs -> {"none", "opening", "ended"}]
    BY <1>18, <1>reader DEF Report
  <2>3. outcome' \in [Runs -> Outcomes]
    BY <1>18, <1>outcome, <1>stopped DEF Report, Goto, Return, Outcomes, Stops
  <2>4. QED
    BY <1>18, <2>1, <2>2, <2>3 DEF Report, daemonVars, progVars, runVars, shimVars, TypeOK
<1>19. CASE ShimOpens(r)
  <2>1. report' \in [Runs -> {"none", "open", "written"}]
    BY <1>19, <1>report DEF ShimOpens
  <2>2. QED
    BY <1>19, <2>1 DEF ShimOpens, daemonVars, runVars, shimVars, TypeOK
<1>20. CASE ProgramEnds(r)
  <2>1. box' \in [Runs -> {"none", "created", "running", "exited", "gone"}]
    BY <1>20, <1>box DEF ProgramEnds
  <2>2. end' \in [Runs -> {"none", "itself", "oom", "killed"}]
    BY <1>20, <1>end DEF ProgramEnds
  <2>3. oomed' \in [Runs -> BOOLEAN]
    BY <1>20, <1>oomed, FlagUpdate DEF ProgramEnds
  <2>4. QED
    BY <1>20, <2>1, <2>2, <2>3 DEF ProgramEnds, daemonVars, runVars, shimVars, TypeOK
<1>21. CASE ShimReports(r)
  <2>1. box' \in [Runs -> {"none", "created", "running", "exited", "gone"}]
    BY <1>21, <1>box DEF ShimReports
  <2>2. report' \in [Runs -> {"none", "open", "written"}]
    BY <1>21, <1>report DEF ShimReports
  <2>3. QED
    BY <1>21, <2>1, <2>2 DEF ShimReports, daemonVars, runVars, shimVars, TypeOK
<1>22. CASE Floods(r)
  <2>1. box' \in [Runs -> {"none", "created", "running", "exited", "gone"}]
    BY <1>22, <1>box DEF Floods, Killed
  <2>2. end' \in [Runs -> {"none", "itself", "oom", "killed"}]
    BY <1>22, <1>end DEF Floods, Killed
  <2>3. flooded' \in [Runs -> BOOLEAN]
    BY <1>22, <1>flooded, FlagUpdate DEF Floods
  <2>4. QED
    BY <1>22, <2>1, <2>2, <2>3 DEF Floods, daemonVars, runVars, shimVars, TypeOK
<1>23. CASE LogEnds(r)
  <2>1. log' \in [Runs -> {"none", "reading", "ended"}]
    BY <1>23, <1>log DEF LogEnds
  <2>2. QED
    BY <1>23, <2>1 DEF LogEnds, daemonVars, progVars, runVars, shimVars, TypeOK
<1>24. CASE Asks(r)
  <2>1. asked' \in [Runs -> {"none", "Decided", "Output"}]
    BY <1>24, <1>asked DEF Asks
  <2>2. QED
    BY <1>24, <2>1 DEF Asks, daemonVars, progVars, runVars, shimVars, TypeOK
<1>25. QED
  BY <1>1, <1>2, <1>3, <1>4, <1>5, <1>6, <1>7, <1>8, <1>9, <1>10, <1>11,
     <1>12, <1>13, <1>14, <1>15, <1>16, <1>17, <1>18, <1>19, <1>20, <1>21,
     <1>22, <1>23, <1>24
  DEF RunStep, Beside

-----------------------------------------------------------------------------
(* A run and its neighbours.                                               *)

\* The host, the Runners and every other run stay as they are.
Aside(r) ==
  /\ UNCHANGED <<driver, up, runVars>>
  /\ \A s \in Runs \ {r} : /\ pc'[s] = pc[s] /\ box'[s] = box[s] /\ dir'[s] = dir[s]
                           /\ left'[s] = left[s] /\ deaf'[s] = deaf[s]
                           /\ outcome'[s] = outcome[s] /\ reader'[s] = reader[s]

\* A step of a run is a step of that run only.
LEMMA StepsAside ==
  ASSUME TypeOK, NEW r \in Runs, RunStep(r) \/ Beside(r)
  PROVE  Aside(r)
<1>pc. pc \in [Runs -> Places]
  BY DEF TypeOK
<1>box. box \in [Runs -> {"none", "created", "running", "exited", "gone"}]
  BY DEF TypeOK
<1>dir. dir \in [Runs -> BOOLEAN]
  BY DEF TypeOK
<1>left. left \in [Runs -> {"none", "refused", "unreported"}]
  BY DEF TypeOK
<1>deaf. deaf \in [Runs -> BOOLEAN]
  BY DEF TypeOK
<1>outcome. outcome \in [Runs -> Outcomes]
  BY DEF TypeOK
<1>reader. reader \in [Runs -> {"none", "opening", "ended"}]
  BY DEF TypeOK
<1>1. CASE Remembered(r)
  BY <1>1, <1>outcome, <1>pc
  DEF Remembered, Goto, Return, daemonVars, progVars, runVars, shimVars, Aside
<1>2. CASE Probe(r)
  BY <1>2, <1>pc DEF Probe, Goto, daemonVars, progVars, runVars, Aside
<1>3. CASE Probed(r)
  BY <1>3, <1>outcome, <1>pc DEF Probed, Goto, Return, progVars, runVars, Aside
<1>4. CASE Begin(r)
  BY <1>4, <1>pc, <1>dir DEF Begin, Goto, progVars, runVars, shimVars, Aside
<1>5. CASE MountPoint(r)
  BY <1>5, <1>outcome, <1>pc, <1>dir
  DEF MountPoint, Goto, Return, LetGo, progVars, runVars, shimVars, Aside
<1>6. CASE Create(r)
  BY <1>6, <1>outcome, <1>pc, <1>dir, <1>box
  DEF Create, Goto, Return, LetGo, progVars, runVars, shimVars, Aside
<1>7. CASE Channel(r)
  BY <1>7, <1>outcome, <1>reader, <1>pc, <1>dir, <1>left
  DEF Channel, Goto, Return, LetGo, progVars, runVars, shimVars, Aside
<1>8. CASE Start(r)
  BY <1>8, <1>pc, <1>box DEF Start, Goto, progVars, runVars, shimVars, Aside
<1>9. CASE Exited(r)
  BY <1>9, <1>pc, <1>deaf DEF Exited, Goto, progVars, runVars, shimVars, Aside
<1>10. CASE Reaped(r)
  BY <1>10, <1>pc
  DEF Reaped, Goto, daemonVars, progVars, runVars, shimVars, Aside
<1>11. CASE Enough(r)
  BY <1>11, <1>pc
  DEF Enough, Goto, daemonVars, progVars, runVars, shimVars, Aside
<1>12. CASE Kill(r)
  BY <1>12, <1>pc, <1>box, <1>deaf
  DEF Kill, Goto, Killed, runVars, shimVars, Aside
<1>13. CASE Take(r)
  BY <1>13, <1>pc DEF Take, Goto, daemonVars, progVars, runVars, shimVars, Aside
<1>14. CASE Drain(r)
  BY <1>14, <1>pc
  DEF Drain, Goto, daemonVars, progVars, runVars, shimVars, Aside
<1>15. CASE Inspect(r)
  BY <1>15, <1>pc DEF Inspect, Goto, progVars, runVars, shimVars, Aside
<1>16. CASE Remove(r)
  BY <1>16, <1>pc, <1>box, <1>left
  DEF Remove, Goto, Killed, runVars, shimVars, Aside
<1>17. CASE Finish(r)
  BY <1>17, <1>outcome, <1>pc, <1>dir
  DEF Finish, Goto, Return, LetGo, daemonVars, progVars, runVars, shimVars,
       Aside
<1>18. CASE Report(r)
  BY <1>18, <1>outcome, <1>reader, <1>pc
  DEF Report, Goto, Return, daemonVars, progVars, runVars, shimVars, Aside
<1>19. CASE ShimOpens(r)
  BY <1>19 DEF ShimOpens, daemonVars, runVars, shimVars, Aside
<1>20. CASE ProgramEnds(r)
  BY <1>20, <1>box DEF ProgramEnds, daemonVars, runVars, shimVars, Aside
<1>21. CASE ShimReports(r)
  BY <1>21, <1>box DEF ShimReports, daemonVars, runVars, shimVars, Aside
<1>22. CASE Floods(r)
  BY <1>22, <1>box DEF Floods, Killed, daemonVars, runVars, shimVars, Aside
<1>23. CASE LogEnds(r)
  BY <1>23 DEF LogEnds, daemonVars, progVars, runVars, shimVars, Aside
<1>24. CASE Asks(r)
  BY <1>24 DEF Asks, daemonVars, progVars, runVars, shimVars, Aside
<1>25. QED
  BY <1>1, <1>2, <1>3, <1>4, <1>5, <1>6, <1>7, <1>8, <1>9, <1>10, <1>11, <1>12,
     <1>13, <1>14, <1>15, <1>16, <1>17, <1>18, <1>19, <1>20, <1>21, <1>22,
     <1>23, <1>24
  DEF RunStep, Beside

\* A step of a run leaves on the host what its place accounts for.
LEMMA StepsOnHost ==
  ASSUME TypeOK, UnderWay, NEW r \in Runs, OnHost(r), RunStep(r) \/ Beside(r)
  PROVE  OnHost(r)'
<1>pc. pc \in [Runs -> Places]
  BY DEF TypeOK
<1>box. box \in [Runs -> {"none", "created", "running", "exited", "gone"}]
  BY DEF TypeOK
<1>dir. dir \in [Runs -> BOOLEAN]
  BY DEF TypeOK
<1>left. left \in [Runs -> {"none", "refused", "unreported"}]
  BY DEF TypeOK
<1>deaf. deaf \in [Runs -> BOOLEAN]
  BY DEF TypeOK
<1>outcome. outcome \in [Runs -> Outcomes]
  BY DEF TypeOK
<1>reader. reader \in [Runs -> {"none", "opening", "ended"}]
  BY DEF TypeOK
<1>same. UNCHANGED <<up, owner, kind>>
  BY StepsAside DEF Aside, runVars
<1>way. pc[r] \notin {"idle", "over", "dropped"} =>
          owner[r] \in Runners /\ up[owner[r]] = "working"
  BY DEF UnderWay
<1> USE DEF OnHost, Early, Contained, Gone, Ending, Drained, Unreported, Measured, Within
<1>1. CASE Remembered(r)
  BY <1>1, <1>pc, <1>box, <1>dir, <1>left, <1>deaf, <1>outcome, <1>same, <1>way
  DEF Remembered, Goto, Return, daemonVars, progVars, runVars, shimVars
<1>2. CASE Probe(r)
  BY <1>2, <1>pc, <1>box, <1>dir, <1>left, <1>deaf, <1>outcome, <1>same, <1>way
  DEF Probe, Goto, daemonVars, progVars, runVars
<1>3. CASE Probed(r)
  BY <1>3, <1>pc, <1>box, <1>dir, <1>left, <1>deaf, <1>outcome, <1>same, <1>way
  DEF Probed, Goto, Return, progVars, runVars
<1>4. CASE Begin(r)
  BY <1>4, <1>pc, <1>box, <1>dir, <1>left, <1>deaf, <1>outcome, <1>same, <1>way
  DEF Begin, Goto, progVars, runVars, shimVars
<1>5. CASE MountPoint(r)
  BY <1>5, <1>pc, <1>box, <1>dir, <1>left, <1>deaf, <1>outcome, <1>same, <1>way
  DEF MountPoint, Goto, Return, LetGo, progVars, runVars, shimVars
<1>6. CASE Create(r)
  <2>1. pc[r] = "create" /\ UNCHANGED <<left, deaf, reader>>
    BY <1>6 DEF Create
  <2>2. \/ /\ box'[r] = "created"
           /\ pc'[r] = IF Measured(kind[r]) THEN "channel" ELSE "start"
           /\ UNCHANGED <<dir, outcome>>
        \/ /\ pc'[r] = "over" /\ dir'[r] = (dir[r] /\ box[r] = "running")
           /\ outcome'[r] = "error" /\ UNCHANGED box
    BY <1>6, <1>pc, <1>box, <1>dir, <1>outcome DEF Create, Goto, Return, LetGo
  <2>3. QED
    BY <2>1, <2>2, <1>box, <1>dir, <1>same, <1>way
<1>7. CASE Channel(r)
  <2>1. pc[r] = "channel" /\ UNCHANGED <<box, deaf>>
    BY <1>7 DEF Channel
  <2>2. \/ /\ reader'[r] = "opening" /\ pc'[r] = "start"
           /\ UNCHANGED <<dir, outcome, left>>
        \/ /\ pc'[r] = "over" /\ dir'[r] = (dir[r] /\ box[r] = "running")
           /\ outcome'[r] = "error" /\ left'[r] = "unreported" /\ UNCHANGED reader
    BY <1>7, <1>pc, <1>box, <1>dir, <1>left, <1>reader, <1>outcome
    DEF Channel, Goto, Return, LetGo
  <2>3. QED
    BY <2>1, <2>2, <1>box, <1>dir, <1>left, <1>same, <1>way
<1>8. CASE Start(r)
  BY <1>8, <1>pc, <1>box, <1>dir, <1>left, <1>deaf, <1>outcome, <1>same, <1>way
  DEF Start, Goto, progVars, runVars, shimVars
<1>9. CASE Exited(r)
  BY <1>9, <1>pc, <1>box, <1>dir, <1>left, <1>deaf, <1>outcome, <1>same, <1>way
  DEF Exited, Goto, AfterStop, progVars, runVars, shimVars
<1>10. CASE Reaped(r)
  BY <1>10, <1>pc, <1>box, <1>dir, <1>left, <1>deaf, <1>outcome, <1>same, <1>way
  DEF Reaped, Goto, daemonVars, progVars, runVars, shimVars
<1>11. CASE Enough(r)
  BY <1>11, <1>pc, <1>box, <1>dir, <1>left, <1>deaf, <1>outcome, <1>same, <1>way
  DEF Enough, Goto, daemonVars, progVars, runVars, shimVars
<1>12. CASE Kill(r)
  BY <1>12, <1>pc, <1>box, <1>dir, <1>left, <1>deaf, <1>outcome, <1>same, <1>way
  DEF Kill, Goto, AfterStop, Killed, runVars, shimVars
<1>13. CASE Take(r)
  BY <1>13, <1>pc, <1>box, <1>dir, <1>left, <1>deaf, <1>outcome, <1>same, <1>way
  DEF Take, Goto, daemonVars, progVars, runVars, shimVars
<1>14. CASE Drain(r)
  BY <1>14, <1>pc, <1>box, <1>dir, <1>left, <1>deaf, <1>outcome, <1>same, <1>way
  DEF Drain, Goto, daemonVars, progVars, runVars, shimVars
<1>15. CASE Inspect(r)
  BY <1>15, <1>pc, <1>box, <1>dir, <1>left, <1>deaf, <1>outcome, <1>same, <1>way
  DEF Inspect, Goto, progVars, runVars, shimVars
<1>16. CASE Remove(r)
  BY <1>16, <1>pc, <1>box, <1>dir, <1>left, <1>deaf, <1>outcome, <1>same, <1>way
  DEF Remove, Goto, Killed, runVars, shimVars
<1>17. CASE Finish(r)
  <2>1. pc[r] = "finish" /\ UNCHANGED <<box, left, deaf, reader>>
    BY <1>17 DEF Finish, daemonVars
  <2>2. dir'[r] = (dir[r] /\ box[r] = "running")
    BY <1>17, <1>dir DEF Finish, LetGo
  <2>3. \/ pc'[r] = "report" /\ Measured(kind[r]) /\ UNCHANGED outcome
        \/ pc'[r] = "over" /\ outcome'[r] = MemoryKill(r)
           /\ (Measured(kind[r]) => MemoryKill(r) = "error")
    BY <1>17, <1>pc, <1>outcome DEF Finish, Goto, Return
  <2>4. QED
    BY <2>1, <2>2, <2>3, <1>box, <1>dir, <1>same, <1>way
<1>18. CASE Report(r)
  <2>1. /\ pc[r] = "report" /\ pc'[r] = "over" /\ reader'[r] = "ended"
        /\ UNCHANGED <<box, dir, left, deaf>>
    BY <1>18, <1>pc, <1>reader DEF Report, Goto, Return, daemonVars
  <2>2. Measured(kind[r])
    BY <2>1
  <2>3. QED
    BY <2>1, <2>2, <1>same, <1>way
<1>19. CASE ShimOpens(r)
  BY <1>19, <1>pc, <1>box, <1>dir, <1>left, <1>deaf, <1>outcome, <1>same, <1>way
  DEF ShimOpens, Running, daemonVars, runVars, shimVars
<1>20. CASE ProgramEnds(r)
  BY <1>20, <1>pc, <1>box, <1>dir, <1>left, <1>deaf, <1>outcome, <1>same, <1>way
  DEF ProgramEnds, Started, Running, daemonVars, runVars, shimVars
<1>21. CASE ShimReports(r)
  BY <1>21, <1>pc, <1>box, <1>dir, <1>left, <1>deaf, <1>outcome, <1>same, <1>way
  DEF ShimReports, Running, daemonVars, runVars, shimVars
<1>22. CASE Floods(r)
  BY <1>22, <1>pc, <1>box, <1>dir, <1>left, <1>deaf, <1>outcome, <1>same, <1>way
  DEF Floods, Killed, daemonVars, runVars, shimVars
<1>23. CASE LogEnds(r)
  BY <1>23, <1>pc, <1>box, <1>dir, <1>left, <1>deaf, <1>outcome, <1>same, <1>way
  DEF LogEnds, daemonVars, progVars, runVars, shimVars
<1>24. CASE Asks(r)
  BY <1>24, <1>pc, <1>box, <1>dir, <1>left, <1>deaf, <1>outcome, <1>same, <1>way
  DEF Asks, daemonVars, progVars, runVars, shimVars
<1>25. QED
  BY <1>1, <1>2, <1>3, <1>4, <1>5, <1>6, <1>7, <1>8, <1>9, <1>10, <1>11, <1>12,
     <1>13, <1>14, <1>15, <1>16, <1>17, <1>18, <1>19, <1>20, <1>21, <1>22,
     <1>23, <1>24
  DEF RunStep, Beside

-----------------------------------------------------------------------------
(* The gate and the lock.                                                  *)

\* A run stays on its side of the gate, comes in by it, or gives it back.
Stays(r) == UNCHANGED gate /\ (pc'[r] \in Within <=> pc[r] \in Within)
Enters(r) ==
  /\ pc[r] = "begin" /\ pc'[r] \in Within
  /\ \/ UNCHANGED gate /\ (driver = "cgroupfs" \/ Alongside(kind[r]))
     \/ /\ driver = "systemd"
        /\ gate[home(r)] = NoRun
        /\ gate' = [gate EXCEPT ![home(r)] = r]
Returns(r) ==
  /\ pc'[r] \notin Within
  /\ gate' = [gate EXCEPT ![home(r)] = IF @ = r THEN NoRun ELSE @]

\* What a step of a run is to its gate.
LEMMA GateMoves ==
  ASSUME TypeOK, NEW r \in Runs, RunStep(r) \/ Beside(r)
  PROVE  Stays(r) \/ Enters(r) \/ Returns(r)
<1>pc. pc \in [Runs -> Places]
  BY DEF TypeOK
<1>driver. driver \in {"cgroupfs", "systemd"}
  BY DEF TypeOK
<1>1. CASE Remembered(r)
  BY <1>1, <1>pc DEF Remembered, Goto, Return, Stays, Within
<1>2. CASE Probe(r)
  BY <1>2, <1>pc DEF Probe, Goto, Stays, Within
<1>3. CASE Probed(r)
  BY <1>3, <1>pc DEF Probed, Goto, Return, Stays, Within
<1>4. CASE Begin(r)
  <2>1. pc[r] = "begin" /\ pc'[r] \in {"mount", "create"}
    BY <1>4, <1>pc DEF Begin, Goto
  <2>2. \/ UNCHANGED gate /\ (driver = "cgroupfs" \/ Alongside(kind[r]))
        \/ /\ driver = "systemd"
           /\ gate[home(r)] = NoRun
           /\ gate' = [gate EXCEPT ![home(r)] = r]
    BY <1>4 DEF Begin
  <2>3. QED
    BY <2>1, <2>2 DEF Enters, Within
<1>5. CASE MountPoint(r)
  <2>1. pc[r] = "mount"
    BY <1>5 DEF MountPoint
  <2>2. \/ pc'[r] \in {"create"} /\ UNCHANGED gate
        \/ /\ pc'[r] = "over"
           /\ gate' = [gate EXCEPT ![home(r)] = IF @ = r THEN NoRun ELSE @]
    BY <1>5, <1>pc DEF MountPoint, Goto, Return, LetGo
  <2>3. QED
    BY <2>1, <2>2 DEF Stays, Returns, Within
<1>6. CASE Create(r)
  <2>1. pc[r] = "create"
    BY <1>6 DEF Create
  <2>2. \/ pc'[r] \in {"channel", "start"} /\ UNCHANGED gate
        \/ /\ pc'[r] = "over"
           /\ gate' = [gate EXCEPT ![home(r)] = IF @ = r THEN NoRun ELSE @]
    BY <1>6, <1>pc DEF Create, Goto, Return, LetGo
  <2>3. QED
    BY <2>1, <2>2 DEF Stays, Returns, Within
<1>7. CASE Channel(r)
  <2>1. pc[r] = "channel"
    BY <1>7 DEF Channel
  <2>2. \/ pc'[r] \in {"start"} /\ UNCHANGED gate
        \/ /\ pc'[r] = "over"
           /\ gate' = [gate EXCEPT ![home(r)] = IF @ = r THEN NoRun ELSE @]
    BY <1>7, <1>pc DEF Channel, Goto, Return, LetGo
  <2>3. QED
    BY <2>1, <2>2 DEF Stays, Returns, Within
<1>8. CASE Start(r)
  BY <1>8, <1>pc DEF Start, Goto, Stays, Within
<1>9. CASE Exited(r)
  BY <1>9, <1>pc DEF Exited, Goto, AfterStop, Stays, Within
<1>10. CASE Reaped(r)
  BY <1>10, <1>pc DEF Reaped, Goto, Stays, Within
<1>11. CASE Enough(r)
  BY <1>11, <1>pc DEF Enough, Goto, Stays, Within
<1>12. CASE Kill(r)
  BY <1>12, <1>pc DEF Kill, Goto, AfterStop, Stays, Within
<1>13. CASE Take(r)
  BY <1>13, <1>pc DEF Take, Goto, Stays, Within
<1>14. CASE Drain(r)
  BY <1>14, <1>pc DEF Drain, Goto, Stays, Within
<1>15. CASE Inspect(r)
  BY <1>15, <1>pc DEF Inspect, Goto, Stays, Within
<1>16. CASE Remove(r)
  BY <1>16, <1>pc DEF Remove, Goto, Stays, Within
<1>17. CASE Finish(r)
  <2>1. pc'[r] \in {"report", "over"}
    BY <1>17, <1>pc DEF Finish, Goto, Return
  <2>2. gate' = [gate EXCEPT ![home(r)] = IF @ = r THEN NoRun ELSE @]
    BY <1>17 DEF Finish, LetGo
  <2>3. QED
    BY <2>1, <2>2 DEF Returns, Within
<1>18. CASE Report(r)
  BY <1>18, <1>pc DEF Report, Goto, Return, Stays, Within
<1>19. CASE ShimOpens(r)
  BY <1>19, <1>pc DEF ShimOpens, Stays, Within
<1>20. CASE ProgramEnds(r)
  BY <1>20, <1>pc DEF ProgramEnds, Stays, Within
<1>21. CASE ShimReports(r)
  BY <1>21, <1>pc DEF ShimReports, Stays, Within
<1>22. CASE Floods(r)
  BY <1>22, <1>pc DEF Floods, Stays, Within
<1>23. CASE LogEnds(r)
  BY <1>23, <1>pc DEF LogEnds, Stays, Within
<1>24. CASE Asks(r)
  BY <1>24, <1>pc DEF Asks, Stays, Within
<1>25. QED
  BY <1>1, <1>2, <1>3, <1>4, <1>5, <1>6, <1>7, <1>8, <1>9, <1>10, <1>11, <1>12,
     <1>13, <1>14, <1>15, <1>16, <1>17, <1>18, <1>19, <1>20, <1>21, <1>22,
     <1>23, <1>24
  DEF RunStep, Beside

\* The gate and its lane agree after a step of a run.
LEMMA StepsGate ==
  ASSUME TypeOK, UnderWay, Gated, Gatekept, NEW r \in Runs, RunStep(r) \/ Beside(r)
  PROVE  Gated' /\ Gatekept'
<1>1. Aside(r)
  BY StepsAside
<1>2. /\ UNCHANGED <<driver, owner, lane, kind>>
      /\ \A s \in Runs \ {r} : pc'[s] = pc[s]
  BY <1>1 DEF Aside, runVars
<1>3. /\ gate \in [Runners \X Lanes -> Runs \cup {NoRun}]
      /\ owner \in [Runs -> Runners \cup {NoRunner}] /\ lane \in [Runs -> Lanes]
      /\ driver \in {"cgroupfs", "systemd"}
  BY DEF TypeOK
<1>4. \A s \in Runs : /\ home(s)' = home(s)
                      /\ Alongside(kind[s])' = Alongside(kind[s])
  BY <1>2 DEF home, Alongside
<1>5. CASE Stays(r)
  BY <1>2, <1>3, <1>4, <1>5 DEF Stays, Gated, Gatekept
<1>6. CASE Enters(r)
  <2>1. \A h \in Runners \X Lanes : gate[h] # r
    BY <1>6, SandboxAssumption DEF Enters, Gated, Within
  <2>2. home(r) \in Runners \X Lanes
    BY <1>3, <1>6 DEF Enters, UnderWay, home
  <2>3. CASE UNCHANGED gate
    <3>1. Gated'
      BY <1>2, <1>3, <1>4, <2>1, <2>3 DEF Gated
    <3>2. driver = "cgroupfs" \/ Alongside(kind[r])
      BY <1>3, <1>6, <2>1, <2>3, <2>2 DEF Enters
    <3>3. Gatekept'
      BY <1>2, <1>3, <1>4, <2>3, <3>2 DEF Gatekept
    <3>4. QED
      BY <3>1, <3>3
  <2>4. CASE /\ gate[home(r)] = NoRun /\ driver = "systemd"
             /\ gate' = [gate EXCEPT ![home(r)] = r]
    <3>1. \A h \in Runners \X Lanes : gate'[h] = IF h = home(r) THEN r ELSE gate[h]
      BY <1>3, <2>4
    <3>2. Gated'
      BY <1>2, <1>3, <1>4, <1>6, <2>1, <2>4, <3>1 DEF Enters, Gated
    <3>3. Gatekept'
      <4>1. SUFFICES ASSUME NEW s \in Runs,
                            pc'[s] \in Within, driver = "systemd", ~Alongside(kind[s])
                     PROVE  gate'[home(s)] = s
        BY <1>2, <1>4 DEF Gatekept
      <4>2. CASE s = r
        BY <2>2, <3>1, <4>2
      <4>3. CASE s # r
        <5>1. gate[home(s)] = s /\ home(s) \in Runners \X Lanes
          BY <1>2, <1>3, <4>1, <4>3 DEF Gatekept, UnderWay, Within, home
        <5>2. QED
          BY <2>4, <3>1, <5>1, SandboxAssumption
      <4>4. QED
        BY <4>2, <4>3
    <3>4. QED
      BY <3>2, <3>3
  <2>5. QED
    BY <1>6, <2>3, <2>4 DEF Enters
<1>7. CASE Returns(r)
  <2>1. \A h \in Runners \X Lanes :
          gate'[h] = IF h = home(r) /\ gate[h] = r THEN NoRun ELSE gate[h]
    BY <1>3, <1>7 DEF Returns
  <2>2. \A h \in Runners \X Lanes : gate[h] = r => h = home(r)
    BY SandboxAssumption DEF Gated
  <2>3. Gated'
    BY <1>2, <1>3, <1>4, <1>7, <2>1, <2>2, SandboxAssumption DEF Returns, Gated
  <2>4. Gatekept'
    BY <1>2, <1>3, <1>4, <1>7, <2>1 DEF Returns, Gatekept
  <2>5. QED
    BY <2>3, <2>4
<1>8. QED
  BY <1>5, <1>6, <1>7, GateMoves

\* No run that is past its start goes back to it, nor does a Runner's stop
\* come from a run.
LEMMA StepsForward ==
  ASSUME TypeOK, NEW r \in Runs, RunStep(r) \/ Beside(r)
  PROVE  /\ pc'[r] \notin {"idle", "dropped"} \/ pc'[r] = pc[r]
         /\ pc[r] \notin {"idle", "over", "dropped"} \/ pc'[r] = pc[r]
<1>pc. pc \in [Runs -> Places]
  BY DEF TypeOK
<1>1. CASE Remembered(r)
  BY <1>1, <1>pc DEF Remembered, Goto, Return
<1>2. CASE Probe(r)
  BY <1>2, <1>pc DEF Probe, Goto
<1>3. CASE Probed(r)
  BY <1>3, <1>pc DEF Probed, Goto, Return
<1>4. CASE Begin(r)
  BY <1>4, <1>pc DEF Begin, Goto
<1>5. CASE MountPoint(r)
  BY <1>5, <1>pc DEF MountPoint, Goto, Return
<1>6. CASE Create(r)
  BY <1>6, <1>pc DEF Create, Goto, Return
<1>7. CASE Channel(r)
  BY <1>7, <1>pc DEF Channel, Goto, Return
<1>8. CASE Start(r)
  BY <1>8, <1>pc DEF Start, Goto
<1>9. CASE Exited(r)
  BY <1>9, <1>pc DEF Exited, Goto, AfterStop
<1>10. CASE Reaped(r)
  BY <1>10, <1>pc DEF Reaped, Goto
<1>11. CASE Enough(r)
  BY <1>11, <1>pc DEF Enough, Goto
<1>12. CASE Kill(r)
  BY <1>12, <1>pc DEF Kill, Goto, AfterStop
<1>13. CASE Take(r)
  BY <1>13, <1>pc DEF Take, Goto
<1>14. CASE Drain(r)
  BY <1>14, <1>pc DEF Drain, Goto
<1>15. CASE Inspect(r)
  BY <1>15, <1>pc DEF Inspect, Goto
<1>16. CASE Remove(r)
  BY <1>16, <1>pc DEF Remove, Goto
<1>17. CASE Finish(r)
  BY <1>17, <1>pc DEF Finish, Goto, Return
<1>18. CASE Report(r)
  BY <1>18, <1>pc DEF Report, Goto, Return
<1>19. CASE ShimOpens(r)
  BY <1>19, <1>pc DEF ShimOpens
<1>20. CASE ProgramEnds(r)
  BY <1>20, <1>pc DEF ProgramEnds
<1>21. CASE ShimReports(r)
  BY <1>21, <1>pc DEF ShimReports
<1>22. CASE Floods(r)
  BY <1>22, <1>pc DEF Floods
<1>23. CASE LogEnds(r)
  BY <1>23, <1>pc DEF LogEnds
<1>24. CASE Asks(r)
  BY <1>24, <1>pc DEF Asks
<1>25. QED
  BY <1>1, <1>2, <1>3, <1>4, <1>5, <1>6, <1>7, <1>8, <1>9, <1>10, <1>11, <1>12,
     <1>13, <1>14, <1>15, <1>16, <1>17, <1>18, <1>19, <1>20, <1>21, <1>22,
     <1>23, <1>24
  DEF RunStep, Beside

\* No step of a run is one of a Runner that does not work.
LEMMA StepsUnderWay ==
  ASSUME TypeOK, UnderWay, NEW r \in Runs, RunStep(r) \/ Beside(r)
  PROVE  UnderWay'
<1>1. /\ UNCHANGED <<up, owner>>
      /\ \A s \in Runs \ {r} : pc'[s] = pc[s]
  BY StepsAside DEF Aside, runVars
<1>2. QED
  BY <1>1, StepsForward DEF UnderWay

\* A run leaves the lock alone, takes it, or lets go of it.
Unlocked(r) == UNCHANGED lock /\ (pc[r] # "probing" \/ pc'[r] = pc[r])
Locks(r) ==
  /\ lock[owner[r]] = NoRun
  /\ lock' = [lock EXCEPT ![owner[r]] = r]
  /\ pc[r] = "asking" /\ pc'[r] = "probing"
Unlocks(r) == lock' = [lock EXCEPT ![owner[r]] = NoRun]

\* What a step of a run is to the lock of its Runner.
LEMMA LockMoves ==
  ASSUME TypeOK, NEW r \in Runs, RunStep(r) \/ Beside(r)
  PROVE  Unlocked(r) \/ Locks(r) \/ Unlocks(r)
<1>pc. pc \in [Runs -> Places]
  BY DEF TypeOK
<1>1. CASE Remembered(r)
  BY <1>1, <1>pc DEF Remembered, Goto, Return, shimVars, Unlocked
<1>2. CASE Probe(r)
  BY <1>2, <1>pc DEF Probe, Goto, Locks
<1>3. CASE Probed(r)
  BY <1>3 DEF Probed, Unlocks
<1>4. CASE Begin(r)
  BY <1>4, <1>pc DEF Begin, Goto, shimVars, Unlocked
<1>5. CASE MountPoint(r)
  BY <1>5, <1>pc DEF MountPoint, Goto, Return, shimVars, Unlocked
<1>6. CASE Create(r)
  BY <1>6, <1>pc DEF Create, Goto, Return, shimVars, Unlocked
<1>7. CASE Channel(r)
  BY <1>7, <1>pc DEF Channel, Goto, Return, shimVars, Unlocked
<1>8. CASE Start(r)
  BY <1>8, <1>pc DEF Start, Goto, shimVars, Unlocked
<1>9. CASE Exited(r)
  BY <1>9, <1>pc DEF Exited, Goto, shimVars, Unlocked
<1>10. CASE Reaped(r)
  BY <1>10, <1>pc DEF Reaped, Goto, shimVars, Unlocked
<1>11. CASE Enough(r)
  BY <1>11, <1>pc DEF Enough, Goto, shimVars, Unlocked
<1>12. CASE Kill(r)
  BY <1>12, <1>pc DEF Kill, Goto, shimVars, Unlocked
<1>13. CASE Take(r)
  BY <1>13, <1>pc DEF Take, Goto, shimVars, Unlocked
<1>14. CASE Drain(r)
  BY <1>14, <1>pc DEF Drain, Goto, shimVars, Unlocked
<1>15. CASE Inspect(r)
  BY <1>15, <1>pc DEF Inspect, Goto, shimVars, Unlocked
<1>16. CASE Remove(r)
  BY <1>16, <1>pc DEF Remove, Goto, shimVars, Unlocked
<1>17. CASE Finish(r)
  BY <1>17, <1>pc DEF Finish, Goto, Return, shimVars, Unlocked
<1>18. CASE Report(r)
  BY <1>18, <1>pc DEF Report, Goto, Return, shimVars, Unlocked
<1>19. CASE ShimOpens(r)
  BY <1>19, <1>pc DEF ShimOpens, shimVars, Unlocked
<1>20. CASE ProgramEnds(r)
  BY <1>20, <1>pc DEF ProgramEnds, shimVars, Unlocked
<1>21. CASE ShimReports(r)
  BY <1>21, <1>pc DEF ShimReports, shimVars, Unlocked
<1>22. CASE Floods(r)
  BY <1>22, <1>pc DEF Floods, shimVars, Unlocked
<1>23. CASE LogEnds(r)
  BY <1>23, <1>pc DEF LogEnds, shimVars, Unlocked
<1>24. CASE Asks(r)
  BY <1>24, <1>pc DEF Asks, shimVars, Unlocked
<1>25. QED
  BY <1>1, <1>2, <1>3, <1>4, <1>5, <1>6, <1>7, <1>8, <1>9, <1>10, <1>11, <1>12,
     <1>13, <1>14, <1>15, <1>16, <1>17, <1>18, <1>19, <1>20, <1>21, <1>22,
     <1>23, <1>24
  DEF RunStep, Beside

\* The lock and who probes agree after a step of a run.
LEMMA StepsLocked ==
  ASSUME TypeOK, Locked, NEW r \in Runs, RunStep(r) \/ Beside(r)
  PROVE  Locked'
<1>1. /\ UNCHANGED owner
      /\ \A s \in Runs \ {r} : pc'[s] = pc[s]
  BY StepsAside DEF Aside, runVars
<1>2. lock \in [Runners -> Runs \cup {NoRun}]
  BY DEF TypeOK
<1>3. CASE Unlocked(r)
  BY <1>1, <1>2, <1>3 DEF Unlocked, Locked
<1>4. CASE Locks(r)
  BY <1>1, <1>2, <1>4 DEF Locks, Locked
<1>5. CASE Unlocks(r)
  <2>1. \A i \in Runners : lock[i] = r => i = owner[r]
    BY SandboxAssumption DEF Locked
  <2>2. \A i \in Runners : lock'[i] # NoRun => lock'[i] = lock[i] /\ lock[i] # r
    BY <1>2, <1>5, <2>1 DEF Unlocks
  <2>3. QED
    BY <1>1, <1>2, <2>2 DEF Locked
<1>6. QED
  BY <1>3, <1>4, <1>5, LockMoves

\* A step of a run, or of what moves beside it, keeps the invariant.
LEMMA RunInvariant ==
  ASSUME SInv, NEW r \in Runs, RunStep(r) \/ Beside(r)
  PROVE  SInv'
<1>1. TypeOK' /\ UnderWay' /\ Gated' /\ Gatekept' /\ Locked'
  BY RunTypes, StepsUnderWay, StepsGate, StepsLocked DEF SInv
<1>2. OnHost(r)'
  BY StepsOnHost DEF SInv
<1>3. ASSUME NEW s \in Runs \ {r}
      PROVE  OnHost(s)'
  <2>1. /\ UNCHANGED <<up, owner, kind>>
        /\ pc'[s] = pc[s] /\ box'[s] = box[s] /\ dir'[s] = dir[s]
        /\ left'[s] = left[s] /\ deaf'[s] = deaf[s] /\ outcome'[s] = outcome[s]
        /\ reader'[s] = reader[s]
    BY <1>3, StepsAside DEF SInv, Aside, runVars
  <2>2. OnHost(s)
    BY <1>3 DEF SInv
  <2>3. QED
    BY <2>1, <2>2 DEF OnHost, Early, Contained, Gone, Ending, Drained, Unreported, Measured
<1>4. QED
  BY <1>1, <1>2, <1>3 DEF SInv

-----------------------------------------------------------------------------
(* Calls, stops and sweeps.                                                *)

\* A call keeps the invariant: the run that begins has nothing yet.
LEMMA CallInvariant ==
  ASSUME SInv, NEW r \in Runs, NEW i \in Runners, Call(r, i)
  PROVE  SInv'
<1>pc. pc \in [Runs -> Places] /\ owner \in [Runs -> Runners \cup {NoRunner}]
  BY DEF SInv, TypeOK
<1>1. /\ pc[r] = "idle" /\ pc'[r] \in {"asking", "begin"}
      /\ owner'[r] = i /\ up[i] = "working"
      /\ \A s \in Runs \ {r} : pc'[s] = pc[s] /\ owner'[s] = owner[s]
  BY <1>pc DEF Call, Goto
<1>2. UNCHANGED <<driver, up, known, lock, probe, gate, lane, kind, measuring, dir,
                  box, end, oomed, report, reader, log, flooded, asked, stopped,
                  outcome, left, deaf, faults, stops>>
  BY DEF Call, shimVars, progVars, daemonVars
<1>3. TypeOK'
  <2>1. pc' \in [Runs -> Places]
    BY <1>pc DEF Call, Goto, Places
  <2>2. owner' \in [Runs -> Runners \cup {NoRunner}]
    BY <1>pc DEF Call
  <2>3. QED
    BY <1>2, <2>1, <2>2 DEF SInv, TypeOK
<1>4. \A s \in Runs \ {r} : home(s)' = home(s)
  BY <1>1, <1>2 DEF home
<1>5. UnderWay'
  BY <1>1, <1>2 DEF SInv, UnderWay
<1>6. Gated'
  <2>1. \A h \in Runners \X Lanes : gate[h] # NoRun => gate[h] \in Runs \ {r}
    BY <1>1 DEF SInv, TypeOK, Gated, Within
  <2>2. QED
    BY <1>1, <1>2, <1>4, <2>1 DEF SInv, Gated
<1>7. Gatekept'
  BY <1>1, <1>2, <1>4 DEF SInv, Gatekept, Within, Alongside
<1>8. Locked'
  <2>1. \A j \in Runners : lock[j] # NoRun => lock[j] \in Runs \ {r}
    BY <1>1 DEF SInv, TypeOK, Locked
  <2>2. QED
    BY <1>1, <1>2, <2>1 DEF SInv, Locked
<1>9. ASSUME NEW s \in Runs
      PROVE  OnHost(s)'
  <2>1. OnHost(s) /\ OnHost(r)
    BY DEF SInv
  <2>2. CASE s = r
    BY <1>1, <1>2, <2>1, <2>2
    DEF OnHost, Early, Contained, Gone, Ending, Drained, Unreported, Measured, Within
  <2>3. CASE s # r
    <3>1. pc'[s] = pc[s] /\ owner'[s] = owner[s]
      BY <1>1, <2>3
    <3>2. (Early(s) /\ Contained(s) /\ Gone(s) /\ Ending(s) /\ Drained(s))'
      BY <1>2, <2>1, <3>1 DEF OnHost, Early, Contained, Gone, Ending, Drained
    <3>3. Unreported(s)'
      BY <1>2, <2>1, <3>1 DEF OnHost, Unreported, Measured
    <3>4. QED
      BY <3>2, <3>3 DEF OnHost
  <2>4. QED
    BY <2>2, <2>3
<1>10. QED
  BY <1>3, <1>5, <1>6, <1>7, <1>8, <1>9 DEF SInv

\* A Runner that is killed or stopped keeps it: its guards go, what is on
\* the host stays, and the Runner has a sweep before it.
LEMMA DroppedInvariant ==
  ASSUME SInv, NEW i \in Runners, NEW how \in {"down", "stopping"}, Dropped(i, how)
  PROVE  SInv'
<1> DEFINE cut == {r \in Mine(i) : pc[r] \notin {"idle", "over"}}
<1>1. /\ up[i] = "working" /\ up' = [up EXCEPT ![i] = how]
      /\ pc' = [r \in Runs |-> IF r \in cut THEN "dropped" ELSE pc[r]]
      /\ gate' = [h \in Runners \X Lanes |-> IF h[1] = i THEN NoRun ELSE gate[h]]
      /\ lock' = [lock EXCEPT ![i] = NoRun]
      /\ known' = [known EXCEPT ![i] = "unknown"]
      /\ log' = [r \in Runs |-> IF r \in cut THEN "none" ELSE log[r]]
      /\ reader' = [r \in Runs |-> IF owner[r] = i /\ how = "down" THEN "none" ELSE reader[r]]
  BY Zenon DEF Dropped
<1>2. UNCHANGED <<driver, probe, owner, lane, kind, measuring, dir, end, oomed, report,
                  flooded, asked, stopped, outcome, left, deaf, faults>>
  BY DEF Dropped, runVars, progVars, daemonVars
<1>3. stops' \in 0..MaxTroubles
  BY SandboxAssumption DEF Dropped, Allowed, SInv, TypeOK
<1>4. PICK made \in SUBSET {r \in cut : pc[r] = "create"} :
        box' = [r \in Runs |-> IF r \in made THEN "created" ELSE box[r]]
  BY Zenon DEF Dropped
<1>5. cut = {r \in Runs : owner[r] = i /\ pc[r] \notin {"idle", "over"}}
  BY DEF Mine
<1> HIDE DEF cut
<1>6. TypeOK'
  <2>1. up' \in [Runners -> {"working", "down", "stopping", "ended"}]
    BY <1>1 DEF SInv, TypeOK
  <2>2. pc' \in [Runs -> Places]
    BY <1>1 DEF SInv, TypeOK, Places
  <2>3. gate' \in [Runners \X Lanes -> Runs \cup {NoRun}]
    BY <1>1 DEF SInv, TypeOK
  <2>4. lock' \in [Runners -> Runs \cup {NoRun}]
    BY <1>1 DEF SInv, TypeOK
  <2>5. known' \in [Runners -> {"unknown", "shim", "none"}]
    BY <1>1 DEF SInv, TypeOK
  <2>6. log' \in [Runs -> {"none", "reading", "ended"}]
    BY <1>1 DEF SInv, TypeOK
  <2>7. reader' \in [Runs -> {"none", "opening", "ended"}]
    BY <1>1 DEF SInv, TypeOK
  <2>8. box' \in [Runs -> {"none", "created", "running", "exited", "gone"}]
    BY <1>4 DEF SInv, TypeOK
  <2>9. QED
    BY <1>2, <1>3, <2>1, <2>2, <2>3, <2>4, <2>5, <2>6, <2>7, <2>8 DEF SInv, TypeOK
<1>7. \A r \in Runs : /\ pc'[r] = IF r \in cut THEN "dropped" ELSE pc[r]
                      /\ home(r)' = home(r)
                      /\ r \in cut <=> owner[r] = i /\ pc[r] \notin {"idle", "over"}
  BY <1>1, <1>2, <1>5 DEF home
<1>8. /\ up'[i] = how
      /\ \A j \in Runners : j # i => up'[j] = up[j]
  BY <1>1 DEF SInv, TypeOK
<1>9. UnderWay'
  BY <1>2, <1>7, <1>8 DEF SInv, UnderWay
<1>10. \A h \in Runners \X Lanes : gate'[h] = IF h[1] = i THEN NoRun ELSE gate[h]
  BY <1>1
<1>11. Gated'
  <2>1. ASSUME NEW h \in Runners \X Lanes, gate'[h] # NoRun
        PROVE  driver = "systemd" /\ home(gate[h]) = h /\ pc'[gate[h]] \in Within
               /\ gate'[h] = gate[h] /\ gate[h] \in Runs
    <3>1. h[1] # i /\ gate'[h] = gate[h]
      BY <1>10, <2>1
    <3>2. /\ driver = "systemd" /\ home(gate[h]) = h /\ pc[gate[h]] \in Within
          /\ gate[h] \in Runs
      BY <2>1, <3>1 DEF SInv, TypeOK, Gated
    <3>3. owner[gate[h]] # i
      BY <3>1, <3>2 DEF home
    <3>4. QED
      BY <1>7, <3>1, <3>2, <3>3
  <2>2. QED
    BY <1>2, <1>7, <2>1 DEF Gated
<1>12. Gatekept'
  <2>1. SUFFICES ASSUME NEW r \in Runs,
                        pc'[r] \in Within, driver = "systemd", ~Alongside(kind[r])
                 PROVE  gate'[home(r)] = r
    BY <1>2, <1>7 DEF Gatekept, Alongside
  <2>2. pc[r] \in Within /\ owner[r] # i
    BY <1>7, <2>1 DEF Within
  <2>3. gate[home(r)] = r
    BY <2>1, <2>2 DEF SInv, Gatekept
  <2>4. home(r) \in Runners \X Lanes /\ home(r)[1] = owner[r]
    BY <2>2 DEF SInv, TypeOK, UnderWay, Within, home
  <2>5. QED
    BY <1>10, <2>2, <2>3, <2>4
<1>13. Locked'
  <2>1. ASSUME NEW j \in Runners, lock'[j] # NoRun
        PROVE  j # i /\ lock'[j] = lock[j]
    BY <1>1, <2>1 DEF SInv, TypeOK
  <2>2. QED
    BY <1>2, <1>7, <2>1 DEF SInv, TypeOK, Locked
<1>14. ASSUME NEW r \in Runs
       PROVE  OnHost(r)'
  <2>1. OnHost(r)
    BY DEF SInv
  <2>2. CASE r \in cut
    <3>1. pc'[r] = "dropped" /\ owner[r] = i /\ up'[owner'[r]] = how /\ owner'[r] = owner[r]
      BY <1>2, <1>7, <1>8, <2>2
    <3>2. left'[r] # "unreported"
      BY <1>2, <1>7, <2>1, <2>2 DEF OnHost, Unreported
    <3>3. reader'[r] \in {"none", reader[r]} /\ kind'[r] = kind[r]
      BY <1>1, <1>2
    <3>4. QED
      BY <2>1, <3>1, <3>2, <3>3
      DEF OnHost, Early, Contained, Gone, Ending, Drained, Unreported, Measured
  <2>3. CASE r \notin cut
    <3>1. pc'[r] = pc[r] /\ box'[r] = box[r] /\ dir'[r] = dir[r]
          /\ left'[r] = left[r] /\ deaf'[r] = deaf[r] /\ owner'[r] = owner[r]
          /\ outcome'[r] = outcome[r] /\ kind'[r] = kind[r]
      BY <1>2, <1>4, <1>7, <2>3
    <3>2. owner[r] = i => pc[r] \in {"idle", "over"}
      BY <1>7, <2>3
    <3>3. owner[r] \in Runners /\ owner[r] # i => up'[owner[r]] = up[owner[r]]
      BY <1>8
    <3>4. owner[r] = i => up'[owner[r]] \in {"down", "stopping"}
      BY <1>8
    <3>reader. reader'[r] \in {"none", reader[r]}
      BY <1>1
    <3>5. Unreported(r)'
      BY <2>1, <3>1, <3>3, <3>4, <3>reader DEF OnHost, Unreported, Measured
    <3>6. (Early(r) /\ Contained(r) /\ Gone(r) /\ Ending(r) /\ Drained(r))'
      BY <2>1, <3>1, <3>2, <3>3 DEF OnHost, Early, Contained, Gone, Ending, Drained, Within
    <3>7. QED
      BY <3>5, <3>6 DEF OnHost
  <2>4. QED
    BY <2>2, <2>3
<1>15. QED
  BY <1>6, <1>9, <1>11, <1>12, <1>13, <1>14 DEF SInv

\* A sweep keeps it: it takes what its Runner's runs left, and nobody else's.
LEMMA SweepInvariant ==
  ASSUME SInv, NEW i \in Runners, Sweep(i)
  PROVE  SInv'
<1>1. /\ up[i] \in {"down", "stopping"}
      /\ up' = [up EXCEPT ![i] = IF @ = "down" THEN "working" ELSE "ended"]
      /\ probe' = [probe EXCEPT ![i] = NoRun]
  BY DEF Sweep
<1>2. UNCHANGED <<driver, known, lock, gate, owner, lane, kind, pc, measuring, oomed,
                  report, reader, log, flooded, asked, stopped, outcome, deaf, stops>>
  BY DEF Sweep, runVars
<1>3. PICK missed \in SUBSET Swept(i) :
        /\ faults' = faults \/ Fault
        /\ box' = [r \in Runs |-> IF r \in Swept(i) \ missed THEN "gone" ELSE box[r]]
        /\ end' = [r \in Runs |-> IF r \in Swept(i) \ missed /\ Running(r) /\ end[r] = "none"
                                  THEN "killed" ELSE end[r]]
        /\ left' = [r \in Runs |-> IF r \in missed THEN "refused"
                                   ELSE IF r \in Swept(i) THEN "none" ELSE left[r]]
        /\ dir' = [r \in Runs |-> dir[r] /\ (owner[r] = i => r \in missed /\ box[r] = "running")]
  BY Zenon DEF Sweep
<1>4. \A r \in Runs : r \in Swept(i) <=> owner[r] = i /\ box[r] \notin {"none", "gone"}
  BY DEF Swept, Mine
<1>5. TypeOK'
  <2>1. up' \in [Runners -> {"working", "down", "stopping", "ended"}]
    BY <1>1 DEF SInv, TypeOK
  <2>2. probe' \in [Runners -> Runs \cup {NoRun}]
    BY <1>1 DEF SInv, TypeOK
  <2>3. faults' \in 0..MaxTroubles
    BY <1>3, FaultIsBounded DEF SInv, TypeOK
  <2>4. box' \in [Runs -> {"none", "created", "running", "exited", "gone"}]
    BY <1>3 DEF SInv, TypeOK
  <2>5. end' \in [Runs -> {"none", "itself", "oom", "killed"}]
    BY <1>3 DEF SInv, TypeOK
  <2>6. left' \in [Runs -> {"none", "refused", "unreported"}]
    BY <1>3 DEF SInv, TypeOK
  <2>7. dir' \in [Runs -> BOOLEAN]
    BY <1>3
  <2>8. QED
    BY <1>2, <2>1, <2>2, <2>3, <2>4, <2>5, <2>6, <2>7 DEF SInv, TypeOK
<1>6. /\ up'[i] # "down" /\ up'[i] # "stopping"
      /\ \A j \in Runners : j # i => up'[j] = up[j]
  BY <1>1 DEF SInv, TypeOK
<1>7. \A r \in Runs : owner[r] = i => pc[r] \in {"idle", "over", "dropped"}
  BY <1>1 DEF SInv, UnderWay
<1>8. UnderWay'
  BY <1>2, <1>6, <1>7 DEF SInv, UnderWay
<1>9. \A r \in Runs : home(r)' = home(r) /\ Alongside(kind[r])' = Alongside(kind[r])
  BY <1>2 DEF home, Alongside
<1>10. Gated' /\ Gatekept'
  BY <1>2, <1>9 DEF SInv, TypeOK, Gated, Gatekept
<1>11. Locked'
  BY <1>2 DEF SInv, Locked
<1>12. ASSUME NEW r \in Runs
       PROVE  OnHost(r)'
  <2>1. OnHost(r)
    BY DEF SInv
  <2>2. CASE owner[r] # i
    <3>1. /\ box'[r] = box[r] /\ left'[r] = left[r] /\ dir'[r] = dir[r]
          /\ pc'[r] = pc[r] /\ deaf'[r] = deaf[r] /\ owner'[r] = owner[r]
          /\ outcome'[r] = outcome[r] /\ kind'[r] = kind[r] /\ reader'[r] = reader[r]
      BY <1>2, <1>3, <1>4, <2>2 DEF SInv, TypeOK
    <3>2. owner[r] \in Runners => up'[owner[r]] = up[owner[r]]
      BY <1>6, <2>2
    <3>3. (Early(r) /\ Contained(r) /\ Gone(r) /\ Ending(r) /\ Drained(r))'
      BY <2>1, <3>1, <3>2 DEF OnHost, Early, Contained, Gone, Ending, Drained
    <3>4. Unreported(r)'
      BY <2>1, <3>1, <3>2 DEF OnHost, Unreported, Measured
    <3>5. QED
      BY <3>3, <3>4 DEF OnHost
  <2>3. CASE owner[r] = i
    <3>1. pc'[r] = pc[r] /\ pc[r] \in {"idle", "over", "dropped"}
      BY <1>2, <1>7, <2>3
    <3>2. pc[r] = "idle" => box[r] = "none" /\ r \notin Swept(i) /\ box'[r] = "none"
      BY <1>3, <1>4, <2>1 DEF OnHost, Early
    <3>3. left'[r] = "none" => r \notin missed
      BY <1>3
    <3>4. r \notin missed => box'[r] \in {"none", "gone"} /\ dir'[r] # TRUE
      BY <1>3, <1>4, <2>3 DEF SInv, TypeOK
    <3>5. left'[r] # "unreported"
      BY <1>3, <1>4, <2>1, <2>3 DEF SInv, TypeOK, OnHost, Unreported
    <3>6. reader'[r] = reader[r] /\ kind'[r] = kind[r] /\ outcome'[r] = outcome[r]
      BY <1>2
    <3>7. QED
      BY <2>1, <3>1, <3>2, <3>3, <3>4, <3>5, <3>6 DEF OnHost, Early, Contained, Gone, Ending, Drained, Unreported, Measured
  <2>4. QED
    BY <2>2, <2>3
<1>13. QED
  BY <1>5, <1>8, <1>10, <1>11, <1>12 DEF SInv

-----------------------------------------------------------------------------
(* The invariant, and what follows from it.                                *)

\* The invariant holds at first.
LEMMA InitInvariant == Init => SInv
<1>1. SUFFICES ASSUME Init
               PROVE  SInv
  OBVIOUS
<1>2. TypeOK
  BY <1>1, SandboxAssumption DEF Init, TypeOK, Places, Outcomes, Stops
<1>3. UnderWay /\ Gated /\ Gatekept /\ Locked
  BY <1>1 DEF Init, UnderWay, Gated, Gatekept, Locked, Within
<1>4. ASSUME NEW r \in Runs
      PROVE  OnHost(r)
  BY <1>1 DEF Init, OnHost, Early, Contained, Gone, Ending, Drained, Unreported, Measured, Within
<1>5. QED
  BY <1>2, <1>3, <1>4 DEF SInv

\* Every step keeps it.
LEMMA NextInvariant == SInv /\ [Next]_vars => SInv'
<1>1. SUFFICES ASSUME SInv, [Next]_vars
               PROVE  SInv'
  OBVIOUS
<1>2. CASE \E r \in Runs, i \in Runners : Call(r, i)
  BY <1>1, <1>2, CallInvariant
<1>3. CASE \E r \in Runs : RunStep(r) \/ Beside(r)
  BY <1>1, <1>3, RunInvariant
<1>4. CASE \E i \in Runners : Crash(i) \/ Stop(i)
  BY <1>1, <1>4, DroppedInvariant DEF Crash, Stop
<1>5. CASE \E i \in Runners : Sweep(i)
  BY <1>1, <1>5, SweepInvariant
<1>6. CASE UNCHANGED vars
  <2>1. UNCHANGED <<driver, up, known, lock, probe, gate, owner, lane, kind, pc,
                    measuring, dir, box, end, oomed, report, reader, log, flooded,
                    asked, stopped, outcome, left, deaf, faults, stops>>
    BY <1>6 DEF vars, shimVars, runVars, progVars, daemonVars
  <2>2. TypeOK'
    BY <1>1, <2>1 DEF SInv, TypeOK
  <2>3. UnderWay' /\ Gated' /\ Gatekept' /\ Locked'
    BY <1>1, <2>1 DEF SInv, UnderWay, Gated, Gatekept, Locked, home, Alongside
  <2>4. ASSUME NEW r \in Runs
        PROVE  OnHost(r)'
    BY <1>1, <2>1 DEF SInv, OnHost, Early, Contained, Gone, Ending, Drained, Unreported, Measured
  <2>5. QED
    BY <2>2, <2>3, <2>4 DEF SInv
<1>7. QED
  BY <1>1, <1>2, <1>3, <1>4, <1>5, <1>6 DEF Next

\* The invariant holds of every state.
THEOREM SandboxInvariant == Spec => []SInv
<1>1. QED
  BY InitInvariant, NextInvariant, PTL DEF Spec

\* Nothing else runs in the slice a run is measured in, whatever its Runner's
\* other runs do and whatever a Runner that was killed or stopped left there.
THEOREM ReadingsAreAlone == Spec => []ReadingIsAlone
<1>1. SInv => ReadingIsAlone
  <2>1. SUFFICES ASSUME SInv, NEW r \in Runs, NEW s \in Runs,
                        r # s, owner[r] \in Runners, gate[home(r)] = r, home(s) = home(r),
                        ~Alongside(kind[s]), Running(s)
                 PROVE  FALSE
    BY DEF ReadingIsAlone
  <2>2. home(r) \in Runners \X Lanes /\ owner[s] = owner[r]
    BY <2>1 DEF SInv, TypeOK, home
  <2>3. driver = "systemd" /\ pc[r] \in Within
    BY <2>1, <2>2, SandboxAssumption DEF SInv, Gated
  <2>4. up[owner[r]] = "working"
    BY <2>1, <2>3 DEF SInv, UnderWay, Within
  <2>5. left[s] = "none" /\ box[s] \notin {"none", "gone"}
    BY <2>1 DEF Running
  <2>6. \/ pc[s] \in Within
        \/ up[owner[s]] \in {"down", "stopping"}
    BY <2>1, <2>5 DEF SInv, OnHost, Contained
  <2>7. pc[s] \in Within
    BY <2>2, <2>4, <2>6
  <2>8. gate[home(s)] = s
    BY <2>1, <2>3, <2>7 DEF SInv, Gatekept
  <2>9. QED
    BY <2>1, <2>8
<1>2. QED
  BY <1>1, SandboxInvariant, PTL

\* Nothing of a run that returned stays, nor of one that was cut short once
\* its Runner has swept, and no sweep takes the container of a run under way:
\* but for the container the daemon refused to remove and, until a sweep, the
\* one that was never started, its report having no channel.  Nor is a thread
\* left waiting for a report, unless the run failed.
THEOREM HostsAreClean == Spec => []NothingLeftBehind
<1>1. SInv => NothingLeftBehind
  <2>1. SUFFICES ASSUME SInv, NEW r \in Runs
                 PROVE  /\ owner[r] \in Runners /\ left[r] = "none"
                              /\ \/ pc[r] = "over"
                                 \/ pc[r] = "dropped" /\ up[owner[r]] \in {"working", "ended"}
                           => box[r] \in {"none", "gone"} /\ ~dir[r]
                        /\ left[r] = "unreported" =>
                              /\ pc[r] = "over" /\ outcome[r] = "error" /\ Measured(kind[r])
                              /\ box[r] = "created" /\ ~dir[r]
                              /\ up[owner[r]] # "ended"
                        /\ pc[r] = "over" /\ reader[r] = "opening" => outcome[r] = "error"
                        /\ box[r] = "gone" => pc[r] \in {"finish", "report", "over", "dropped"}
    BY DEF NothingLeftBehind
  <2>2. /\ Contained(r) /\ Gone(r) /\ Unreported(r)
        /\ dir[r] \in BOOLEAN
    BY <2>1 DEF SInv, TypeOK, OnHost
  <2>3. QED
    BY <2>2 DEF Contained, Gone, Unreported, Within
<1>2. QED
  BY <1>1, SandboxInvariant, PTL

\* A run waits for the gate, for the lock or for the collector only where
\* somebody will let go of it.
THEOREM WaitsAreServed == Spec => []WaitIsServed
<1>1. SInv => WaitIsServed
  <2>1. SUFFICES ASSUME SInv
                 PROVE  WaitIsServed
    OBVIOUS
  <2>2. \A h \in Runners \X Lanes : gate[h] # NoRun =>
          home(gate[h]) = h /\ pc[gate[h]] \in Within
    BY <2>1 DEF SInv, Gated
  <2>3. \A i \in Runners : lock[i] # NoRun => pc[lock[i]] = "probing"
    BY <2>1 DEF SInv, Locked
  <2>4. \A r \in Runs : pc[r] = "drain" /\ log[r] = "reading" => box[r] # "running" \/ deaf[r]
    BY <2>1 DEF SInv, OnHost, Drained
  <2>5. QED
    BY <2>2, <2>3, <2>4 DEF WaitIsServed, Within
<1>2. QED
  BY <1>1, SandboxInvariant, PTL

-----------------------------------------------------------------------------
(* What is known of why a run ended, place by place.                       *)

\* The shim writes its report once the program it started has ended.
Reports(r) == report[r] = "written" => end[r] \in {"itself", "oom"}

\* Nothing collects what a measured run prints.
Unlogged(r) == Measured(kind[r]) => log[r] = "none" /\ flooded[r] = FALSE

\* A container seen to have exited did so by itself, or had flooded its log.
ExitedWhy(r) ==
  pc[r] = "watch" /\ box[r] = "exited" =>
    \/ end[r] \in {"itself", "oom"} /\ (Measured(kind[r]) => report[r] = "written")
    \/ flooded[r]

\* Each reason for a stop has its cause, and keeps it.
Causes(r) ==
  /\ stopped[r] = "OnItsOwn" /\ ~Measured(kind[r]) =>
       \/ deaf[r]
       \/ end[r] \in {"itself", "oom"}
       \/ flooded[r] /\ pc[r] \in {"take", "drain", "dropped"}
  /\ stopped[r] = "Output" => flooded[r] \/ asked[r] = "Output"
  /\ stopped[r] = "Decided" => asked[r] = "Decided"
  /\ stopped[r] = "Memory" => oomed[r]
  /\ stopped[r] = "error" => pc[r] \in {"remove", "finish", "over", "dropped"}

\* Past the collector, a log that passed its cap has been heard of, and no
\* more is read.
Heard(r) ==
  pc[r] \in {"inspect", "remove", "finish", "report"} /\ stopped[r] # "error" =>
    log[r] # "reading" /\ (flooded[r] => stopped[r] \in {"Output", "Memory"})

\* Once the measurement is closed, the kernel's word has been heard.
Closing(r) ==
  pc[r] = "report" =>
    /\ Measured(kind[r]) /\ stopped[r] # "error"
    /\ oomed[r] /\ measuring[r] # "none" => stopped[r] = "Memory"

\* The verdict, once there is one.
Answered(r) ==
  /\ outcome[r] \notin {"none", "error"} => pc[r] = "over" /\ log[r] # "reading"
  /\ outcome[r] = "OnItsOwn" =>
       \/ end[r] \in {"itself", "oom"} /\ (Measured(kind[r]) => report[r] = "written")
       \/ deaf[r] /\ ~Measured(kind[r])
  /\ outcome[r] = "Output" => flooded[r] \/ asked[r] = "Output"
  /\ outcome[r] = "Decided" => asked[r] = "Decided"
  /\ outcome[r] = "Memory" => oomed[r]
  /\ outcome[r] \notin {"none", "error"} =>
       /\ oomed[r] /\ measuring[r] # "none" => outcome[r] = "Memory"
       /\ flooded[r] => outcome[r] \in {"Output", "Memory"}

Told(r) ==
  /\ Reports(r) /\ Unlogged(r) /\ ExitedWhy(r) /\ Causes(r)
  /\ Heard(r) /\ Closing(r) /\ Answered(r)

-----------------------------------------------------------------------------
(* Verdicts.                                                               *)

\* What is known of every other run stays as it is.
Untold(r) ==
  \A s \in Runs \ {r} :
    /\ measuring'[s] = measuring[s] /\ end'[s] = end[s] /\ oomed'[s] = oomed[s]
    /\ report'[s] = report[s] /\ log'[s] = log[s] /\ flooded'[s] = flooded[s]
    /\ asked'[s] = asked[s] /\ stopped'[s] = stopped[s] /\ outcome'[s] = outcome[s]

LEMMA StepsUntold ==
  ASSUME TypeOK, NEW r \in Runs, RunStep(r) \/ Beside(r)
  PROVE  Untold(r)
<1>measuring. measuring \in [Runs -> {"none", "own", "shared"}]
  BY DEF TypeOK
<1>end. end \in [Runs -> {"none", "itself", "oom", "killed"}]
  BY DEF TypeOK
<1>oomed. oomed \in [Runs -> BOOLEAN]
  BY DEF TypeOK
<1>report. report \in [Runs -> {"none", "open", "written"}]
  BY DEF TypeOK
<1>log. log \in [Runs -> {"none", "reading", "ended"}]
  BY DEF TypeOK
<1>flooded. flooded \in [Runs -> BOOLEAN]
  BY DEF TypeOK
<1>asked. asked \in [Runs -> {"none", "Decided", "Output"}]
  BY DEF TypeOK
<1>stopped. stopped \in [Runs -> Outcomes]
  BY DEF TypeOK
<1>outcome. outcome \in [Runs -> Outcomes]
  BY DEF TypeOK
<1>1. CASE Remembered(r)
  BY <1>1, <1>outcome
  DEF Remembered, Return, daemonVars, progVars, runVars, shimVars, Untold
<1>2. CASE Probe(r)
  BY <1>2 DEF Probe, daemonVars, progVars, runVars, Untold
<1>3. CASE Probed(r)
  BY <1>3, <1>outcome DEF Probed, Return, progVars, runVars, Untold
<1>4. CASE Begin(r)
  BY <1>4, <1>measuring DEF Begin, progVars, runVars, shimVars, Untold
<1>5. CASE MountPoint(r)
  BY <1>5, <1>outcome
  DEF MountPoint, Return, progVars, runVars, shimVars, Untold
<1>6. CASE Create(r)
  BY <1>6, <1>outcome DEF Create, Return, progVars, runVars, shimVars, Untold
<1>7. CASE Channel(r)
  BY <1>7, <1>outcome DEF Channel, Return, progVars, runVars, shimVars, Untold
<1>8. CASE Start(r)
  BY <1>8, <1>log, <1>stopped DEF Start, progVars, runVars, shimVars, Untold
<1>9. CASE Exited(r)
  BY <1>9, <1>stopped DEF Exited, progVars, runVars, shimVars, Untold
<1>10. CASE Reaped(r)
  BY <1>10, <1>stopped
  DEF Reaped, daemonVars, progVars, runVars, shimVars, Untold
<1>11. CASE Enough(r)
  BY <1>11, <1>stopped
  DEF Enough, daemonVars, progVars, runVars, shimVars, Untold
<1>12. CASE Kill(r)
  BY <1>12, <1>end DEF Kill, Killed, runVars, shimVars, Untold
<1>13. CASE Take(r)
  BY <1>13, <1>stopped DEF Take, daemonVars, progVars, runVars, shimVars, Untold
<1>14. CASE Drain(r)
  BY <1>14, <1>stopped
  DEF Drain, daemonVars, progVars, runVars, shimVars, Untold
<1>15. CASE Inspect(r)
  BY <1>15, <1>stopped DEF Inspect, progVars, runVars, shimVars, Untold
<1>16. CASE Remove(r)
  BY <1>16, <1>end DEF Remove, Killed, runVars, shimVars, Untold
<1>17. CASE Finish(r)
  BY <1>17, <1>stopped, <1>outcome
  DEF Finish, Return, daemonVars, progVars, runVars, shimVars, Untold
<1>18. CASE Report(r)
  BY <1>18, <1>outcome
  DEF Report, Return, daemonVars, progVars, runVars, shimVars, Untold
<1>19. CASE ShimOpens(r)
  BY <1>19, <1>report DEF ShimOpens, daemonVars, runVars, shimVars, Untold
<1>20. CASE ProgramEnds(r)
  BY <1>20, <1>end, <1>oomed
  DEF ProgramEnds, daemonVars, runVars, shimVars, Untold
<1>21. CASE ShimReports(r)
  BY <1>21, <1>report DEF ShimReports, daemonVars, runVars, shimVars, Untold
<1>22. CASE Floods(r)
  BY <1>22, <1>end, <1>flooded
  DEF Floods, Killed, daemonVars, runVars, shimVars, Untold
<1>23. CASE LogEnds(r)
  BY <1>23, <1>log DEF LogEnds, daemonVars, progVars, runVars, shimVars, Untold
<1>24. CASE Asks(r)
  BY <1>24, <1>asked DEF Asks, daemonVars, progVars, runVars, shimVars, Untold
<1>25. QED
  BY <1>1, <1>2, <1>3, <1>4, <1>5, <1>6, <1>7, <1>8, <1>9, <1>10, <1>11, <1>12,
     <1>13, <1>14, <1>15, <1>16, <1>17, <1>18, <1>19, <1>20, <1>21, <1>22,
     <1>23, <1>24
  DEF RunStep, Beside

LEMMA StepsTold ==
  ASSUME TypeOK, NEW r \in Runs, OnHost(r), Told(r), RunStep(r) \/ Beside(r)
  PROVE  Told(r)'
<1>kind. kind \in [Runs -> Kinds]
  BY DEF TypeOK
<1>pc. pc \in [Runs -> Places]
  BY DEF TypeOK
<1>box. box \in [Runs -> {"none", "created", "running", "exited", "gone"}]
  BY DEF TypeOK
<1>left. left \in [Runs -> {"none", "refused", "unreported"}]
  BY DEF TypeOK
<1>deaf. deaf \in [Runs -> BOOLEAN]
  BY DEF TypeOK
<1>measuring. measuring \in [Runs -> {"none", "own", "shared"}]
  BY DEF TypeOK
<1>end. end \in [Runs -> {"none", "itself", "oom", "killed"}]
  BY DEF TypeOK
<1>oomed. oomed \in [Runs -> BOOLEAN]
  BY DEF TypeOK
<1>report. report \in [Runs -> {"none", "open", "written"}]
  BY DEF TypeOK
<1>log. log \in [Runs -> {"none", "reading", "ended"}]
  BY DEF TypeOK
<1>flooded. flooded \in [Runs -> BOOLEAN]
  BY DEF TypeOK
<1>asked. asked \in [Runs -> {"none", "Decided", "Output"}]
  BY DEF TypeOK
<1>stopped. stopped \in [Runs -> Outcomes]
  BY DEF TypeOK
<1>outcome. outcome \in [Runs -> Outcomes]
  BY DEF TypeOK
<1>kept. kind'[r] = kind[r]
  BY StepsAside DEF Aside, runVars
<1>host. /\ Running(r) => pc[r] \in Within \cup {"dropped"}
         /\ pc[r] = "finish" => ~Running(r)
  BY DEF OnHost, Contained, Ending, Running
<1> USE DEF Told, Reports, Unlogged, ExitedWhy, Causes, Heard, Closing, Answered, Measured, Within
<1>1. CASE Remembered(r)
  BY <1>1, <1>kind, <1>pc, <1>box, <1>left, <1>deaf, <1>measuring, <1>end,
     <1>oomed, <1>report, <1>log, <1>flooded, <1>asked, <1>stopped, <1>outcome,
     <1>kept, <1>host
  DEF Remembered, Goto, Return, daemonVars, progVars, runVars, shimVars
<1>2. CASE Probe(r)
  BY <1>2, <1>kind, <1>pc, <1>box, <1>left, <1>deaf, <1>measuring, <1>end,
     <1>oomed, <1>report, <1>log, <1>flooded, <1>asked, <1>stopped, <1>outcome,
     <1>kept, <1>host
  DEF Probe, Goto, daemonVars, progVars, runVars
<1>3. CASE Probed(r)
  BY <1>3, <1>kind, <1>pc, <1>box, <1>left, <1>deaf, <1>measuring, <1>end,
     <1>oomed, <1>report, <1>log, <1>flooded, <1>asked, <1>stopped, <1>outcome,
     <1>kept, <1>host
  DEF Probed, Goto, Return, progVars, runVars
<1>4. CASE Begin(r)
  BY <1>4, <1>kind, <1>pc, <1>box, <1>left, <1>deaf, <1>measuring, <1>end,
     <1>oomed, <1>report, <1>log, <1>flooded, <1>asked, <1>stopped, <1>outcome,
     <1>kept, <1>host
  DEF Begin, Goto, Alongside, progVars, runVars, shimVars
<1>5. CASE MountPoint(r)
  <2>1. /\ pc[r] = "mount"
        /\ \/ pc'[r] = "create" /\ outcome' = outcome
           \/ pc'[r] = "over" /\ outcome'[r] = "error"
        /\ UNCHANGED <<kind, box, measuring, end, oomed, report, log, flooded, asked, stopped,
                       deaf>>
    BY <1>5, <1>pc, <1>outcome DEF MountPoint, Goto, Return, runVars, progVars
  <2>2. QED
    BY <2>1, <1>kept, <1>host, <1>pc, <1>outcome, <1>stopped, <1>box
<1>6. CASE Create(r)
  <2>1. /\ pc[r] = "create"
        /\ \/ /\ pc'[r] \in {"channel", "start"} /\ outcome' = outcome
              /\ box'[r] = "created"
           \/ pc'[r] = "over" /\ outcome'[r] = "error" /\ box' = box
        /\ UNCHANGED <<kind, measuring, end, oomed, report, log, flooded, asked, stopped, deaf>>
    BY <1>6, <1>pc, <1>box, <1>outcome DEF Create, Goto, Return, runVars, progVars
  <2>2. QED
    BY <2>1, <1>kept, <1>host, <1>pc, <1>outcome, <1>stopped, <1>box
<1>7. CASE Channel(r)
  <2>1. /\ pc[r] = "channel"
        /\ \/ pc'[r] = "start" /\ outcome' = outcome
           \/ pc'[r] = "over" /\ outcome'[r] = "error"
        /\ UNCHANGED <<kind, box, measuring, end, oomed, report, log, flooded, asked, stopped,
                       deaf>>
    BY <1>7, <1>pc, <1>outcome DEF Channel, Goto, Return, runVars, progVars
  <2>2. QED
    BY <2>1, <1>kept, <1>host, <1>pc, <1>outcome, <1>stopped, <1>box
<1>8. CASE Start(r)
  BY <1>8, <1>kind, <1>pc, <1>box, <1>left, <1>deaf, <1>measuring, <1>end,
     <1>oomed, <1>report, <1>log, <1>flooded, <1>asked, <1>stopped, <1>outcome,
     <1>kept, <1>host
  DEF Start, Goto, Silent, progVars, runVars, shimVars
<1>9. CASE Exited(r)
  BY <1>9, <1>kind, <1>pc, <1>box, <1>left, <1>deaf, <1>measuring, <1>end,
     <1>oomed, <1>report, <1>log, <1>flooded, <1>asked, <1>stopped, <1>outcome,
     <1>kept, <1>host
  DEF Exited, Goto, AfterStop, Silent, Collects, progVars, runVars, shimVars
<1>10. CASE Reaped(r)
  BY <1>10, <1>kind, <1>pc, <1>box, <1>left, <1>deaf, <1>measuring, <1>end,
     <1>oomed, <1>report, <1>log, <1>flooded, <1>asked, <1>stopped, <1>outcome,
     <1>kept, <1>host
  DEF Reaped, Goto, daemonVars, progVars, runVars, shimVars
<1>11. CASE Enough(r)
  BY <1>11, <1>kind, <1>pc, <1>box, <1>left, <1>deaf, <1>measuring, <1>end,
     <1>oomed, <1>report, <1>log, <1>flooded, <1>asked, <1>stopped, <1>outcome,
     <1>kept, <1>host
  DEF Enough, Goto, daemonVars, progVars, runVars, shimVars
<1>12. CASE Kill(r)
  BY <1>12, <1>kind, <1>pc, <1>box, <1>left, <1>deaf, <1>measuring, <1>end,
     <1>oomed, <1>report, <1>log, <1>flooded, <1>asked, <1>stopped, <1>outcome,
     <1>kept, <1>host
  DEF Kill, Goto, AfterStop, Killed, Silent, Collects, runVars, shimVars
<1>13. CASE Take(r)
  BY <1>13, <1>kind, <1>pc, <1>box, <1>left, <1>deaf, <1>measuring, <1>end,
     <1>oomed, <1>report, <1>log, <1>flooded, <1>asked, <1>stopped, <1>outcome,
     <1>kept, <1>host
  DEF Take, Goto, daemonVars, progVars, runVars, shimVars
<1>14. CASE Drain(r)
  BY <1>14, <1>kind, <1>pc, <1>box, <1>left, <1>deaf, <1>measuring, <1>end,
     <1>oomed, <1>report, <1>log, <1>flooded, <1>asked, <1>stopped, <1>outcome,
     <1>kept, <1>host
  DEF Drain, Goto, daemonVars, progVars, runVars, shimVars
<1>15. CASE Inspect(r)
  <2>1. /\ pc[r] = "inspect" /\ pc'[r] = "remove"
        /\ \/ oomed[r] /\ stopped'[r] = "Memory"
           \/ stopped'[r] = stopped[r]
           \/ stopped'[r] = "error"
        /\ UNCHANGED <<kind, box, measuring, end, oomed, report, log, flooded, asked, outcome,
                       deaf>>
    BY <1>15, <1>pc, <1>stopped DEF Inspect, Goto, runVars, progVars
  <2>2. QED
    BY <2>1, <1>kept, <1>host, <1>pc, <1>outcome, <1>stopped, <1>box
<1>16. CASE Remove(r)
  BY <1>16, <1>kind, <1>pc, <1>box, <1>left, <1>deaf, <1>measuring, <1>end,
     <1>oomed, <1>report, <1>log, <1>flooded, <1>asked, <1>stopped, <1>outcome,
     <1>kept, <1>host
  DEF Remove, Goto, Killed, runVars, shimVars
<1>17. CASE Finish(r)
  BY <1>17, <1>kind, <1>pc, <1>box, <1>left, <1>deaf, <1>measuring, <1>end,
     <1>oomed, <1>report, <1>log, <1>flooded, <1>asked, <1>stopped, <1>outcome,
     <1>kept, <1>host
  DEF Finish, Goto, Return, MemoryKill, daemonVars, progVars, runVars, shimVars
<1>18. CASE Report(r)
  BY <1>18, <1>kind, <1>pc, <1>box, <1>left, <1>deaf, <1>measuring, <1>end,
     <1>oomed, <1>report, <1>log, <1>flooded, <1>asked, <1>stopped, <1>outcome,
     <1>kept, <1>host
  DEF Report, Goto, Return, daemonVars, progVars, runVars, shimVars
<1>19. CASE ShimOpens(r)
  BY <1>19, <1>kind, <1>pc, <1>box, <1>left, <1>deaf, <1>measuring, <1>end,
     <1>oomed, <1>report, <1>log, <1>flooded, <1>asked, <1>stopped, <1>outcome,
     <1>kept, <1>host
  DEF ShimOpens, Running, daemonVars, runVars, shimVars
<1>20. CASE ProgramEnds(r)
  BY <1>20, <1>kind, <1>pc, <1>box, <1>left, <1>deaf, <1>measuring, <1>end,
     <1>oomed, <1>report, <1>log, <1>flooded, <1>asked, <1>stopped, <1>outcome,
     <1>kept, <1>host
  DEF ProgramEnds, Started, Running, daemonVars, runVars, shimVars
<1>21. CASE ShimReports(r)
  BY <1>21, <1>kind, <1>pc, <1>box, <1>left, <1>deaf, <1>measuring, <1>end,
     <1>oomed, <1>report, <1>log, <1>flooded, <1>asked, <1>stopped, <1>outcome,
     <1>kept, <1>host
  DEF ShimReports, Running, daemonVars, runVars, shimVars
<1>22. CASE Floods(r)
  BY <1>22, <1>kind, <1>pc, <1>box, <1>left, <1>deaf, <1>measuring, <1>end,
     <1>oomed, <1>report, <1>log, <1>flooded, <1>asked, <1>stopped, <1>outcome,
     <1>kept, <1>host
  DEF Floods, Killed, daemonVars, runVars, shimVars
<1>23. CASE LogEnds(r)
  BY <1>23, <1>kind, <1>pc, <1>box, <1>left, <1>deaf, <1>measuring, <1>end,
     <1>oomed, <1>report, <1>log, <1>flooded, <1>asked, <1>stopped, <1>outcome,
     <1>kept, <1>host
  DEF LogEnds, daemonVars, progVars, runVars, shimVars
<1>24. CASE Asks(r)
  BY <1>24, <1>kind, <1>pc, <1>box, <1>left, <1>deaf, <1>measuring, <1>end,
     <1>oomed, <1>report, <1>log, <1>flooded, <1>asked, <1>stopped, <1>outcome,
     <1>kept, <1>host
  DEF Asks, daemonVars, progVars, runVars, shimVars
<1>25. QED
  BY <1>1, <1>2, <1>3, <1>4, <1>5, <1>6, <1>7, <1>8, <1>9, <1>10, <1>11, <1>12,
     <1>13, <1>14, <1>15, <1>16, <1>17, <1>18, <1>19, <1>20, <1>21, <1>22,
     <1>23, <1>24
  DEF RunStep, Beside

-----------------------------------------------------------------------------

\* Together with the invariant of the host, what is known of every run.
TInv == SInv /\ \A r \in Runs : Told(r)

\* A run's own steps, and what moves beside it, keep it.
LEMMA RunTold ==
  ASSUME TInv, NEW r \in Runs, RunStep(r) \/ Beside(r)
  PROVE  \A s \in Runs : Told(s)'
<1>1. Told(r)'
  BY StepsTold DEF TInv, SInv
<1>2. ASSUME NEW s \in Runs \ {r}
      PROVE  Told(s)'
  <2>1. TypeOK /\ Told(s)
    BY DEF TInv, SInv
  <2>2. /\ pc'[s] = pc[s] /\ box'[s] = box[s] /\ deaf'[s] = deaf[s] /\ kind' = kind
        /\ measuring'[s] = measuring[s] /\ end'[s] = end[s] /\ oomed'[s] = oomed[s]
        /\ report'[s] = report[s] /\ log'[s] = log[s] /\ flooded'[s] = flooded[s]
        /\ asked'[s] = asked[s] /\ stopped'[s] = stopped[s] /\ outcome'[s] = outcome[s]
    BY <1>2, <2>1, StepsAside, StepsUntold DEF Aside, Untold, runVars
  <2>3. QED
    BY <2>1, <2>2
    DEF Told, Reports, Unlogged, ExitedWhy, Causes, Heard, Closing, Answered
<1>3. QED
  BY <1>1, <1>2

\* So does a call, of a run of which nothing is known yet.
LEMMA CallTold ==
  ASSUME TInv, NEW r \in Runs, NEW i \in Runners, Call(r, i)
  PROVE  \A s \in Runs : Told(s)'
<1>pc. pc \in [Runs -> Places]
  BY DEF TInv, SInv, TypeOK
<1>1. /\ pc[r] = "idle" /\ pc'[r] \in {"asking", "begin"}
      /\ \A s \in Runs \ {r} : pc'[s] = pc[s]
  BY <1>pc DEF Call, Goto
<1>2. UNCHANGED <<kind, measuring, box, end, oomed, report, log, flooded, asked, stopped,
                  outcome, deaf>>
  BY DEF Call, progVars, daemonVars
<1>3. ASSUME NEW s \in Runs
      PROVE  Told(s)'
  <2>1. Told(s)
    BY DEF TInv
  <2>2. CASE s = r
    BY <1>1, <1>2, <2>1, <2>2
    DEF Told, Reports, Unlogged, ExitedWhy, Causes, Heard, Closing, Answered
  <2>3. CASE s # r
    BY <1>1, <1>2, <2>1, <2>3
    DEF Told, Reports, Unlogged, ExitedWhy, Causes, Heard, Closing, Answered
  <2>4. QED
    BY <2>2, <2>3
<1>4. QED
  BY <1>3

\* So does a Runner that is killed or stopped: a run that has answered is
\* none of those it drops.
LEMMA DroppedTold ==
  ASSUME TInv, NEW i \in Runners, NEW how \in {"down", "stopping"}, Dropped(i, how)
  PROVE  \A s \in Runs : Told(s)'
<1> DEFINE cut == {r \in Mine(i) : pc[r] \notin {"idle", "over"}}
<1>1. /\ pc' = [r \in Runs |-> IF r \in cut THEN "dropped" ELSE pc[r]]
      /\ log' = [r \in Runs |-> IF r \in cut THEN "none" ELSE log[r]]
  BY Zenon DEF Dropped
<1>2. UNCHANGED <<kind, measuring, end, oomed, report, flooded, asked, stopped, outcome,
                  deaf>>
  BY DEF Dropped, runVars, progVars, daemonVars
<1>3. \A r \in cut : pc[r] # "over"
  OBVIOUS
<1> HIDE DEF cut
<1>4. ASSUME NEW s \in Runs
      PROVE  Told(s)'
  <2>1. Told(s)
    BY DEF TInv
  <2>2. CASE s \in cut
    BY <1>1, <1>2, <1>3, <2>1, <2>2
    DEF Told, Reports, Unlogged, ExitedWhy, Causes, Heard, Closing, Answered
  <2>3. CASE s \notin cut
    <3>1. pc'[s] = pc[s] /\ log'[s] = log[s]
      BY <1>1, <2>3
    <3>2. pc[s] = "watch" => box'[s] = box[s]
      <4>1. PICK made \in SUBSET {r \in cut : pc[r] = "create"} :
              box' = [r \in Runs |-> IF r \in made THEN "created" ELSE box[r]]
        BY Zenon DEF Dropped, cut
      <4>2. QED
        BY <4>1
    <3>3. QED
      BY <1>2, <2>1, <3>1, <3>2
      DEF Told, Reports, Unlogged, ExitedWhy, Causes, Heard, Closing, Answered
  <2>4. QED
    BY <2>2, <2>3
<1>5. QED
  BY <1>4

\* So does a sweep: it ends what had not ended, and makes nothing exit.
LEMMA SweepTold ==
  ASSUME TInv, NEW i \in Runners, Sweep(i)
  PROVE  \A s \in Runs : Told(s)'
<1>1. UNCHANGED <<kind, pc, measuring, oomed, report, log, flooded, asked, stopped,
                  outcome, deaf>>
  BY DEF Sweep, runVars
<1>2. PICK missed \in SUBSET Swept(i) :
        /\ box' = [r \in Runs |-> IF r \in Swept(i) \ missed THEN "gone" ELSE box[r]]
        /\ end' = [r \in Runs |-> IF r \in Swept(i) \ missed /\ Running(r) /\ end[r] = "none"
                                  THEN "killed" ELSE end[r]]
  BY Zenon DEF Sweep
<1>3. ASSUME NEW s \in Runs
      PROVE  Told(s)'
  <2>1. Told(s)
    BY DEF TInv
  <2>2. /\ end[s] \in {"itself", "oom"} => end'[s] = end[s]
        /\ box'[s] = "exited" => box[s] = "exited"
    BY <1>2
  <2>3. QED
    BY <1>1, <2>1, <2>2
    DEF Told, Reports, Unlogged, ExitedWhy, Causes, Heard, Closing, Answered
<1>4. QED
  BY <1>3

\* What is known of every run is known of every state.
LEMMA ToldInvariant == Spec => []TInv
<1>1. Init => TInv
  <2>1. SUFFICES ASSUME Init
                 PROVE  TInv
    OBVIOUS
  <2>2. ASSUME NEW r \in Runs
        PROVE  Told(r)
    BY <2>1
    DEF Init, Told, Reports, Unlogged, ExitedWhy, Causes, Heard, Closing, Answered
  <2>3. QED
    BY <2>1, <2>2, InitInvariant DEF TInv
<1>2. TInv /\ [Next]_vars => TInv'
  <2>1. SUFFICES ASSUME TInv, [Next]_vars
                 PROVE  TInv'
    OBVIOUS
  <2>2. SInv'
    BY <2>1, NextInvariant DEF TInv
  <2>3. CASE \E r \in Runs, i \in Runners : Call(r, i)
    BY <2>1, <2>2, <2>3, CallTold DEF TInv
  <2>4. CASE \E r \in Runs : RunStep(r) \/ Beside(r)
    BY <2>1, <2>2, <2>4, RunTold DEF TInv
  <2>5. CASE \E i \in Runners : Crash(i) \/ Stop(i)
    BY <2>1, <2>2, <2>5, DroppedTold DEF TInv, Crash, Stop
  <2>6. CASE \E i \in Runners : Sweep(i)
    BY <2>1, <2>2, <2>6, SweepTold DEF TInv
  <2>7. CASE UNCHANGED vars
    <3>1. UNCHANGED <<kind, pc, measuring, box, end, oomed, report, log, flooded, asked,
                      stopped, outcome, deaf>>
      BY <2>7 DEF vars, runVars, progVars, daemonVars
    <3>2. ASSUME NEW r \in Runs
          PROVE  Told(r)'
      <4>1. Told(r)
        BY <2>1 DEF TInv
      <4>2. QED
        BY <3>1, <4>1
        DEF Told, Reports, Unlogged, ExitedWhy, Causes, Heard, Closing, Answered
    <3>3. QED
      BY <2>2, <3>2 DEF TInv
  <2>8. QED
    BY <2>1, <2>3, <2>4, <2>5, <2>6, <2>7 DEF Next
<1>3. QED
  BY <1>1, <1>2, PTL DEF Spec

\* A verdict fits what happened, whoever of the program, the kernel, the
\* collector, the reaper and the daemon moved in between.
THEOREM VerdictsFit == Spec => []OutcomeFits
<1>1. TInv => OutcomeFits
  BY DEF TInv, Told, Answered, OutcomeFits
<1>2. QED
  BY <1>1, ToldInvariant, PTL

\* A kill by the kernel and a log over its cap are never reported as
\* anything else.
THEOREM VerdictsHideNothing == Spec => []NothingHidden
<1>1. TInv => NothingHidden
  BY DEF TInv, Told, Answered, NothingHidden
<1>2. QED
  BY <1>1, ToldInvariant, PTL

===============================================================================
