--------------------------- MODULE RunnerWork_proofs ---------------------------
(***************************************************************************)
(* What RunnerWork promises for any number of Runners, jobs and trials and *)
(* any number of crashes, outages, losses and Server restarts.             *)
(***************************************************************************)
EXTENDS RunnerWork, TLAPS

\* Places from which no call is in flight.
Silent == Places \ {"claiming", "settling", "asking", "givingBack", "attaching", "reporting"}

\* A delivery was charged for work that runs, so a release can give it back.
Charged == \A w \in Work : queue[w] = "running" => deliveries[w] > 0

\* A call is in flight only where one was made, and an attachment only while
\* one is owed.
CallsMatch ==
  \A r \in Runners :
    /\ pc[r] \in Silent => wire[r] = "quiet"
    /\ pc[r] = "attaching" /\ wire[r] # "quiet" => owed[r] > 0

TInv == TypeOK /\ Charged /\ CallsMatch

\* What happens with no Runner taking part.
World ==
  \/ ServerAway \/ ServerBack \/ ServerForgets
  \/ \E w \in Work : Lapse(w) \/ Reap(w)

-----------------------------------------------------------------------------
(* Lemmas: the shorthands keep the types                                   *)

Wires == {"quiet", "sent"} \cup Replies
Budgets == [lost : Nat, away : Nat, forgets : Nat, crashes : Nat, revoked : Nat]

LEMMA SpendTypes ==
  ASSUME NEW f \in {"lost", "away", "forgets", "crashes", "revoked"},
         budget \in Budgets, Spend(f)
  PROVE  budget' \in Budgets
  BY DEF Spend, Budgets

\* A step that only moves a main task, and its call, from one place to another.
LEMMA MoveTypes ==
  ASSUME TInv, OnlyMoves, NEW r \in Runners, NEW p \in Places, NEW v \in Wires,
         pc' = [pc EXCEPT ![r] = p], wire' = [wire EXCEPT ![r] = v],
         p \in Silent => v = "quiet",
         p = "attaching" /\ v # "quiet" => owed[r] > 0
  PROVE  TInv'
<1>1. TypeOK'
  BY DEF TInv, TypeOK, OnlyMoves, server, service, doing, kept, Wires
<1>2. Charged'
  BY DEF TInv, Charged, OnlyMoves, server
<1>3. CallsMatch'
  BY DEF TInv, TypeOK, CallsMatch, OnlyMoves, doing, Wires
<1>4. QED
  BY <1>1, <1>2, <1>3 DEF TInv

LEMMA LetGoTypes ==
  ASSUME TInv, NEW r \in Runners, NEW p \in Places, LetGo(r, p), p \in Silent
  PROVE  TInv'
<1>1. TypeOK'
  BY DEF TInv, TypeOK, LetGo, Resume, Goto, DropKeeper, server, service, kept
<1>2. Charged'
  BY DEF TInv, Charged, LetGo, server
<1>3. CallsMatch'
  BY DEF TInv, TypeOK, CallsMatch, LetGo, Resume, Goto, Silent
<1>4. QED
  BY <1>1, <1>2, <1>3 DEF TInv

LEMMA ConcludeTypes ==
  ASSUME TInv, NEW r \in Runners, NEW a \in Answers, Conclude(r, a),
         pc[r] \in {"fetching", "judging"}
  PROVE  TInv'
<1>1. TypeOK'
  BY DEF TInv, TypeOK, Conclude, Call, Goto, server, service, kept, Places
<1>2. Charged'
  BY DEF TInv, Charged, Conclude, server
<1>3. CallsMatch'
  BY DEF TInv, TypeOK, CallsMatch, Conclude, Call, Goto, Silent, Places
<1>4. QED
  BY <1>1, <1>2, <1>3 DEF TInv

-----------------------------------------------------------------------------
(* Every step keeps the types                                              *)

\* Whatever the Server answers.
LEMMA ServeTypes ==
  ASSUME TInv, NEW r \in Runners, Serve(r)
  PROVE  TInv'
<1>1. CASE ServeRefused(r)
  <2>1. TypeOK'
    BY <1>1 DEF ServeRefused, Heard, Admits, TInv, TypeOK, Wires, Replies,
       Places, server, service, doing, kept
  <2>2. Charged'
    BY <1>1 DEF ServeRefused, Heard, Admits, TInv, TypeOK, Charged, server,
       service, doing, kept
  <2>3. CallsMatch'
    BY <1>1 DEF ServeRefused, Heard, Admits, TInv, TypeOK, CallsMatch, Silent,
       Places, server, service, doing, kept
  <2>4. QED
    BY <2>1, <2>2, <2>3 DEF TInv
<1>2. CASE ServeEmpty(r)
  <2>1. TypeOK'
    BY <1>2 DEF ServeEmpty, Heard, At, TInv, TypeOK, Wires, Replies, Places,
       server, service, doing, kept
  <2>2. Charged'
    BY <1>2 DEF ServeEmpty, Heard, At, TInv, TypeOK, Charged, server, service,
       doing, kept
  <2>3. CallsMatch'
    BY <1>2 DEF ServeEmpty, Heard, At, TInv, TypeOK, CallsMatch, Silent,
       Places, server, service, doing, kept
  <2>4. QED
    BY <2>1, <2>2, <2>3 DEF TInv
<1>3. CASE ServeStale(r)
  <2>1. TypeOK'
    BY <1>3 DEF ServeStale, Heard, At, TInv, TypeOK, Wires, Replies, Places,
       server, service, doing, kept
  <2>2. Charged'
    BY <1>3 DEF ServeStale, Heard, At, TInv, TypeOK, Charged, server, service,
       doing, kept
  <2>3. CallsMatch'
    BY <1>3 DEF ServeStale, Heard, At, TInv, TypeOK, CallsMatch, Silent,
       Places, server, service, doing, kept
  <2>4. QED
    BY <2>1, <2>2, <2>3 DEF TInv
<1>4. CASE ServeRelease(r)
  <2>1. TypeOK'
    BY <1>4 DEF ServeRelease, Heard, At, Current, Lease, Charged, TInv,
       TypeOK, Wires, Replies, Places, server, service, doing, kept
  <2>2. Charged'
    BY <1>4 DEF ServeRelease, Heard, At, Current, Lease, Charged, TInv,
       TypeOK, Charged, server, service, doing, kept
  <2>3. CallsMatch'
    BY <1>4 DEF ServeRelease, Heard, At, Current, Lease, Charged, TInv,
       TypeOK, CallsMatch, Silent, Places, server, service, doing, kept
  <2>4. QED
    BY <2>1, <2>2, <2>3 DEF TInv
<1>5. CASE ServeAttach(r)
  <2>1. TypeOK'
    BY <1>5 DEF ServeAttach, Heard, At, TInv, TypeOK, Wires, Replies, Places,
       server, service, doing, kept
  <2>2. Charged'
    BY <1>5 DEF ServeAttach, Heard, At, TInv, TypeOK, Charged, server,
       service, doing, kept
  <2>3. CallsMatch'
    BY <1>5 DEF ServeAttach, Heard, At, TInv, TypeOK, CallsMatch, Silent,
       Places, server, service, doing, kept
  <2>4. QED
    BY <2>1, <2>2, <2>3 DEF TInv
<1>6. CASE ServeReport(r)
  <2>1. TypeOK'
    BY <1>6 DEF ServeReport, Heard, At, Current, Lease, TInv, TypeOK, Wires,
       Replies, Places, server, service, doing, kept
  <2>2. Charged'
    BY <1>6 DEF ServeReport, Heard, At, Current, Lease, TInv, TypeOK, Charged,
       server, service, doing, kept
  <2>3. CallsMatch'
    BY <1>6 DEF ServeReport, Heard, At, Current, Lease, TInv, TypeOK,
       CallsMatch, Silent, Places, server, service, doing, kept
  <2>4. QED
    BY <2>1, <2>2, <2>3 DEF TInv
<1>7. CASE \E w \in Work : ServeClaim(r, w)
  <2>1. TypeOK'
    BY <1>7 DEF ServeClaim, Heard, At, Lease, TInv, TypeOK, Wires, Replies,
       Places, server, service, doing, kept
  <2>2. Charged'
    BY <1>7 DEF ServeClaim, Heard, At, Lease, TInv, TypeOK, Charged, server,
       service, doing, kept
  <2>3. CallsMatch'
    BY <1>7 DEF ServeClaim, Heard, At, Lease, TInv, TypeOK, CallsMatch,
       Silent, Places, server, service, doing, kept
  <2>4. QED
    BY <2>1, <2>2, <2>3 DEF TInv
<1>8. QED
  BY <1>1, <1>2, <1>3, <1>4, <1>5, <1>6, <1>7 DEF Serve

\* What a main task does of its own accord.
LEMMA PromptTypes ==
  ASSUME TInv, NEW r \in Runners, Prompt(r)
  PROVE  TInv'
<1>1. CASE Admitted(r)
  <2>1. TypeOK'
    BY <1>1 DEF Admitted, At, Goto, TInv, TypeOK, Wires, Replies, Places,
       server, service, doing, kept
  <2>2. Charged'
    BY <1>1 DEF Admitted, At, Goto, TInv, TypeOK, Charged, server, service,
       doing, kept
  <2>3. CallsMatch'
    BY <1>1 DEF Admitted, At, Goto, TInv, TypeOK, CallsMatch, Silent, Places,
       server, service, doing, kept
  <2>4. QED
    BY <2>1, <2>2, <2>3 DEF TInv
<1>2. CASE NotAdmitted(r)
  <2>1. OnlyMoves /\ \E p \in Places, v \in Wires :
          /\ pc' = [pc EXCEPT ![r] = p] /\ wire' = [wire EXCEPT ![r] = v]
          /\ p \in Silent => v = "quiet"
          /\ p = "attaching" /\ v # "quiet" => owed[r] > 0
    BY <1>2 DEF NotAdmitted, At, Heard, Call, Resume, Goto, TInv, TypeOK,
       CallsMatch, Silent, Places, Wires, Replies
  <2>2. QED
    BY <2>1, MoveTypes
<1>3. CASE AskForJob(r)
  <2>1. OnlyMoves /\ \E p \in Places, v \in Wires :
          /\ pc' = [pc EXCEPT ![r] = p] /\ wire' = [wire EXCEPT ![r] = v]
          /\ p \in Silent => v = "quiet"
          /\ p = "attaching" /\ v # "quiet" => owed[r] > 0
    BY <1>3 DEF AskForJob, At, Heard, Call, Resume, Goto, TInv, TypeOK,
       CallsMatch, Silent, Places, Wires, Replies
  <2>2. QED
    BY <2>1, MoveTypes
<1>4. CASE LeaveLoop(r)
  <2>1. OnlyMoves /\ \E p \in Places, v \in Wires :
          /\ pc' = [pc EXCEPT ![r] = p] /\ wire' = [wire EXCEPT ![r] = v]
          /\ p \in Silent => v = "quiet"
          /\ p = "attaching" /\ v # "quiet" => owed[r] > 0
    BY <1>4 DEF LeaveLoop, At, Heard, Call, Resume, Goto, TInv, TypeOK,
       CallsMatch, Silent, Places, Wires, Replies
  <2>2. QED
    BY <2>1, MoveTypes
<1>5. CASE TakeWork(r)
  <2>1. TypeOK'
    BY <1>5 DEF TakeWork, At, Heard, Resume, Goto, TInv, TypeOK, Wires,
       Replies, Places, server, service, doing, kept
  <2>2. Charged'
    BY <1>5 DEF TakeWork, At, Heard, Resume, Goto, TInv, TypeOK, Charged,
       server, service, doing, kept
  <2>3. CallsMatch'
    BY <1>5 DEF TakeWork, At, Heard, Resume, Goto, TInv, TypeOK, CallsMatch,
       Silent, Places, server, service, doing, kept
  <2>4. QED
    BY <2>1, <2>2, <2>3 DEF TInv
<1>6. CASE NoJob(r)
  <2>1. OnlyMoves /\ \E p \in Places, v \in Wires :
          /\ pc' = [pc EXCEPT ![r] = p] /\ wire' = [wire EXCEPT ![r] = v]
          /\ p \in Silent => v = "quiet"
          /\ p = "attaching" /\ v # "quiet" => owed[r] > 0
    BY <1>6 DEF NoJob, At, Heard, Call, Resume, Goto, TInv, TypeOK,
       CallsMatch, Silent, Places, Wires, Replies
  <2>2. QED
    BY <2>1, MoveTypes
<1>7. CASE NoTrial(r)
  <2>1. OnlyMoves /\ \E p \in Places, v \in Wires :
          /\ pc' = [pc EXCEPT ![r] = p] /\ wire' = [wire EXCEPT ![r] = v]
          /\ p \in Silent => v = "quiet"
          /\ p = "attaching" /\ v # "quiet" => owed[r] > 0
    BY <1>7 DEF NoTrial, At, Heard, Call, Resume, Goto, TInv, TypeOK,
       CallsMatch, Silent, Places, Wires, Replies
  <2>2. QED
    BY <2>1, MoveTypes
<1>8. CASE ClaimFailed(r)
  <2>1. OnlyMoves /\ \E p \in Places, v \in Wires :
          /\ pc' = [pc EXCEPT ![r] = p] /\ wire' = [wire EXCEPT ![r] = v]
          /\ p \in Silent => v = "quiet"
          /\ p = "attaching" /\ v # "quiet" => owed[r] > 0
    BY <1>8 DEF ClaimFailed, At, Heard, Call, Resume, Goto, TInv, TypeOK,
       CallsMatch, Silent, Places, Wires, Replies
  <2>2. QED
    BY <2>1, MoveTypes
<1>9. CASE SettledWithJob(r)
  <2>1. TypeOK'
    BY <1>9 DEF SettledWithJob, At, Heard, Call, Goto, TInv, TypeOK, Wires,
       Replies, Places, server, service, doing, kept
  <2>2. Charged'
    BY <1>9 DEF SettledWithJob, At, Heard, Call, Goto, TInv, TypeOK, Charged,
       server, service, doing, kept
  <2>3. CallsMatch'
    BY <1>9 DEF SettledWithJob, At, Heard, Call, Goto, TInv, TypeOK,
       CallsMatch, Silent, Places, server, service, doing, kept
  <2>4. QED
    BY <2>1, <2>2, <2>3 DEF TInv
<1>10. CASE SettledWithout(r)
  <2>1. OnlyMoves /\ \E p \in Places, v \in Wires :
          /\ pc' = [pc EXCEPT ![r] = p] /\ wire' = [wire EXCEPT ![r] = v]
          /\ p \in Silent => v = "quiet"
          /\ p = "attaching" /\ v # "quiet" => owed[r] > 0
    BY <1>10 DEF SettledWithout, At, Heard, Call, Resume, Goto, TInv, TypeOK,
       CallsMatch, Silent, Places, Wires, Replies
  <2>2. QED
    BY <2>1, MoveTypes
<1>11. CASE GivenBack(r)
  BY <1>11, LetGoTypes DEF GivenBack, Silent, Places
<1>12. CASE SendAttachment(r)
  <2>1. OnlyMoves /\ \E p \in Places, v \in Wires :
          /\ pc' = [pc EXCEPT ![r] = p] /\ wire' = [wire EXCEPT ![r] = v]
          /\ p \in Silent => v = "quiet"
          /\ p = "attaching" /\ v # "quiet" => owed[r] > 0
    BY <1>12 DEF SendAttachment, At, Heard, Call, Resume, Goto, TInv, TypeOK,
       CallsMatch, Silent, Places, Wires, Replies
  <2>2. QED
    BY <2>1, MoveTypes
<1>13. CASE AttachmentAnswered(r)
  <2>1. TypeOK'
    BY <1>13 DEF AttachmentAnswered, At, Resume, Goto, CallsMatch, TInv,
       TypeOK, Wires, Replies, Places, server, service, doing, kept
  <2>2. Charged'
    BY <1>13 DEF AttachmentAnswered, At, Resume, Goto, CallsMatch, TInv,
       TypeOK, Charged, server, service, doing, kept
  <2>3. CallsMatch'
    BY <1>13 DEF AttachmentAnswered, At, Resume, Goto, CallsMatch, TInv,
       TypeOK, CallsMatch, Silent, Places, server, service, doing, kept
  <2>4. QED
    BY <2>1, <2>2, <2>3 DEF TInv
<1>14. CASE StartReport(r)
  <2>1. OnlyMoves /\ \E p \in Places, v \in Wires :
          /\ pc' = [pc EXCEPT ![r] = p] /\ wire' = [wire EXCEPT ![r] = v]
          /\ p \in Silent => v = "quiet"
          /\ p = "attaching" /\ v # "quiet" => owed[r] > 0
    BY <1>14 DEF StartReport, At, Heard, Call, Resume, Goto, TInv, TypeOK,
       CallsMatch, Silent, Places, Wires, Replies
  <2>2. QED
    BY <2>1, MoveTypes
<1>15. CASE Reported(r)
  BY <1>15, LetGoTypes DEF Reported, Silent, Places
<1>16. CASE ReportHeld(r)
  <2>1. OnlyMoves /\ \E p \in Places, v \in Wires :
          /\ pc' = [pc EXCEPT ![r] = p] /\ wire' = [wire EXCEPT ![r] = v]
          /\ p \in Silent => v = "quiet"
          /\ p = "attaching" /\ v # "quiet" => owed[r] > 0
    BY <1>16 DEF ReportHeld, At, Heard, Call, Resume, Goto, TInv, TypeOK,
       CallsMatch, Silent, Places, Wires, Replies
  <2>2. QED
    BY <2>1, MoveTypes
<1>17. CASE ReportGivenUp(r)
  BY <1>17, LetGoTypes DEF ReportGivenUp, Silent, Places
<1>18. QED
  BY <1>1, <1>2, <1>3, <1>4, <1>5, <1>6, <1>7, <1>8, <1>9, <1>10, <1>11,
     <1>12, <1>13, <1>14, <1>15, <1>16, <1>17 DEF Prompt

\* What a main task does on the word to stop.
LEMMA StopTypes ==
  ASSUME TInv, NEW r \in Runners, HearsStop(r)
  PROVE  TInv'
<1>1. CASE StopClaim(r)
  <2>1. OnlyMoves /\ \E p \in Places, v \in Wires :
          /\ pc' = [pc EXCEPT ![r] = p] /\ wire' = [wire EXCEPT ![r] = v]
          /\ p \in Silent => v = "quiet"
          /\ p = "attaching" /\ v # "quiet" => owed[r] > 0
    BY <1>1 DEF StopClaim, At, Heard, Call, Resume, Goto, TInv, TypeOK,
       CallsMatch, Silent, Places, Wires, Replies
  <2>2. QED
    BY <2>1, MoveTypes
<1>2. CASE SettleExpires(r)
  <2>1. TypeOK'
    BY <1>2 DEF SettleExpires, Spend, At, Heard, Resume, Goto, TInv, TypeOK,
       Wires, Replies, Places, server, service, doing, kept
  <2>2. Charged'
    BY <1>2 DEF SettleExpires, Spend, At, Heard, Resume, Goto, TInv, TypeOK,
       Charged, server, service, doing, kept
  <2>3. CallsMatch'
    BY <1>2 DEF SettleExpires, Spend, At, Heard, Resume, Goto, TInv, TypeOK,
       CallsMatch, Silent, Places, server, service, doing, kept
  <2>4. QED
    BY <2>1, <2>2, <2>3 DEF TInv
<1>3. CASE StopWait(r)
  <2>1. OnlyMoves /\ \E p \in Places, v \in Wires :
          /\ pc' = [pc EXCEPT ![r] = p] /\ wire' = [wire EXCEPT ![r] = v]
          /\ p \in Silent => v = "quiet"
          /\ p = "attaching" /\ v # "quiet" => owed[r] > 0
    BY <1>3 DEF StopWait, At, Heard, Call, Resume, Goto, TInv, TypeOK,
       CallsMatch, Silent, Places, Wires, Replies
  <2>2. QED
    BY <2>1, MoveTypes
<1>4. CASE StopEvaluation(r)
  <2>1. TypeOK'
    BY <1>4 DEF StopEvaluation, DropKeeper, At, Call, Goto, TInv, TypeOK,
       Wires, Replies, Places, server, service, doing, kept
  <2>2. Charged'
    BY <1>4 DEF StopEvaluation, DropKeeper, At, Call, Goto, TInv, TypeOK,
       Charged, server, service, doing, kept
  <2>3. CallsMatch'
    BY <1>4 DEF StopEvaluation, DropKeeper, At, Call, Goto, TInv, TypeOK,
       CallsMatch, Silent, Places, server, service, doing, kept
  <2>4. QED
    BY <2>1, <2>2, <2>3 DEF TInv
<1>5. CASE LockStopped(r)
  BY <1>5, LetGoTypes DEF LockStopped, Silent, Places
<1>6. CASE StopHolding(r)
  BY <1>6, LetGoTypes DEF StopHolding, Silent, Places
<1>7. QED
  BY <1>1, <1>2, <1>3, <1>4, <1>5, <1>6 DEF HearsStop

\* What a timer does.
LEMMA TimerTypes ==
  ASSUME TInv, NEW r \in Runners, Timer(r)
  PROVE  TInv'
<1>1. CASE WaitOver(r)
  <2>1. OnlyMoves /\ \E p \in Places, v \in Wires :
          /\ pc' = [pc EXCEPT ![r] = p] /\ wire' = [wire EXCEPT ![r] = v]
          /\ p \in Silent => v = "quiet"
          /\ p = "attaching" /\ v # "quiet" => owed[r] > 0
    BY <1>1 DEF WaitOver, At, Heard, Call, Resume, Goto, TInv, TypeOK,
       CallsMatch, Silent, Places, Wires, Replies
  <2>2. QED
    BY <2>1, MoveTypes
<1>2. CASE HoldOver(r)
  <2>1. OnlyMoves /\ \E p \in Places, v \in Wires :
          /\ pc' = [pc EXCEPT ![r] = p] /\ wire' = [wire EXCEPT ![r] = v]
          /\ p \in Silent => v = "quiet"
          /\ p = "attaching" /\ v # "quiet" => owed[r] > 0
    BY <1>2 DEF HoldOver, At, Heard, Call, Resume, Goto, TInv, TypeOK,
       CallsMatch, Silent, Places, Wires, Replies
  <2>2. QED
    BY <2>1, MoveTypes
<1>3. CASE DeadlinePasses(r)
  <2>1. TypeOK'
    BY <1>3 DEF DeadlinePasses, At, TInv, TypeOK, Wires, Replies, Places,
       server, service, doing, kept
  <2>2. Charged'
    BY <1>3 DEF DeadlinePasses, At, TInv, TypeOK, Charged, server, service,
       doing, kept
  <2>3. CallsMatch'
    BY <1>3 DEF DeadlinePasses, At, TInv, TypeOK, CallsMatch, Silent, Places,
       server, service, doing, kept
  <2>4. QED
    BY <2>1, <2>2, <2>3 DEF TInv
<1>4. QED
  BY <1>1, <1>2, <1>3 DEF Timer

\* What an evaluation comes to.
LEMMA EvaluateTypes ==
  ASSUME TInv, NEW r \in Runners, Evaluates(r)
  PROVE  TInv'
<1>1. CASE Fetched(r)
  <2>1. OnlyMoves /\ \E p \in Places, v \in Wires :
          /\ pc' = [pc EXCEPT ![r] = p] /\ wire' = [wire EXCEPT ![r] = v]
          /\ p \in Silent => v = "quiet"
          /\ p = "attaching" /\ v # "quiet" => owed[r] > 0
    BY <1>1 DEF Fetched, At, Heard, Call, Resume, Goto, TInv, TypeOK,
       CallsMatch, Silent, Places, Wires, Replies
  <2>2. QED
    BY <2>1, MoveTypes
<1>2. CASE FetchAway(r)
  BY <1>2, LetGoTypes DEF FetchAway, Silent, Places
<1>3. CASE FetchLost(r)
  <2>1. TypeOK'
    BY <1>3 DEF FetchLost, Spend, DropKeeper, At, Resume, Goto, TInv, TypeOK,
       Wires, Replies, Places, server, service, doing, kept
  <2>2. Charged'
    BY <1>3 DEF FetchLost, Spend, DropKeeper, At, Resume, Goto, TInv, TypeOK,
       Charged, server, service, doing, kept
  <2>3. CallsMatch'
    BY <1>3 DEF FetchLost, Spend, DropKeeper, At, Resume, Goto, TInv, TypeOK,
       CallsMatch, Silent, Places, server, service, doing, kept
  <2>4. QED
    BY <2>1, <2>2, <2>3 DEF TInv
<1>4. CASE FetchRefused(r)
  BY <1>4, ConcludeTypes DEF FetchRefused, At, Answers
<1>5. CASE MachineryBroke(r)
  BY <1>5, ConcludeTypes DEF MachineryBroke, At, Answers
<1>6. CASE Judged(r)
  BY <1>6, ConcludeTypes DEF Judged, At, Answers
<1>7. QED
  BY <1>1, <1>2, <1>3, <1>4, <1>5, <1>6 DEF Evaluates

\* What becomes of a renewal.
LEMMA RenewTypes ==
  ASSUME TInv, NEW r \in Runners, Renews(r)
  PROVE  TInv'
<1>1. CASE SendRenewal(r)
  <2>1. TypeOK'
    BY <1>1 DEF SendRenewal, TInv, TypeOK, Wires, Replies, Places, server,
       service, doing, kept
  <2>2. Charged'
    BY <1>1 DEF SendRenewal, TInv, TypeOK, Charged, server, service, doing,
       kept
  <2>3. CallsMatch'
    BY <1>1 DEF SendRenewal, TInv, TypeOK, CallsMatch, Silent, Places, server,
       service, doing, kept
  <2>4. QED
    BY <2>1, <2>2, <2>3 DEF TInv
<1>2. CASE \E m \in renewals : LandRenewal(m)
  <2> PICK m \in renewals : LandRenewal(m)
    BY <1>2
  <2>1. m \in [by : Runners, lease : Lease]
    BY DEF TInv, TypeOK
  <2>2. keeping' \in [Runners -> Lease \cup {NoLease}]
    BY <2>1 DEF LandRenewal, DropKeeper, TInv, TypeOK
  <2>3. fresh' \in [Work -> BOOLEAN]
    BY <2>1 DEF LandRenewal, Current, Lease, TInv, TypeOK
  <2>4. renewals' \subseteq [by : Runners, lease : Lease]
    BY DEF LandRenewal, TInv, TypeOK
  <2>5. UNCHANGED <<queue, leaseNo, deliveries, recorded, service, pc, wire, grant,
                    doing, told, budget>>
    BY DEF LandRenewal
  <2>6. TypeOK'
    BY <2>2, <2>3, <2>4, <2>5 DEF TInv, TypeOK, service, doing
  <2>7. Charged' /\ CallsMatch'
    BY <2>5 DEF TInv, Charged, CallsMatch, doing
  <2>8. QED
    BY <2>6, <2>7 DEF TInv
<1>3. CASE \E m \in renewals : LoseRenewal(m)
  <2>1. TypeOK'
    BY <1>3 DEF LoseRenewal, TInv, TypeOK, Wires, Replies, Places, server,
       service, doing, kept
  <2>2. Charged'
    BY <1>3 DEF LoseRenewal, TInv, TypeOK, Charged, server, service, doing,
       kept
  <2>3. CallsMatch'
    BY <1>3 DEF LoseRenewal, TInv, TypeOK, CallsMatch, Silent, Places, server,
       service, doing, kept
  <2>4. QED
    BY <2>1, <2>2, <2>3 DEF TInv
<1>4. QED
  BY <1>1, <1>2, <1>3 DEF Renews

\* What goes wrong with a Runner or its call.
LEMMA FaultTypes ==
  ASSUME TInv, NEW r \in Runners, Faults(r)
  PROVE  TInv'
<1>1. CASE LoseCall(r)
  <2>1. TypeOK'
    BY <1>1 DEF LoseCall, Spend, TInv, TypeOK, Wires, Replies, Places, server,
       service, doing, kept
  <2>2. Charged'
    BY <1>1 DEF LoseCall, Spend, TInv, TypeOK, Charged, server, service,
       doing, kept
  <2>3. CallsMatch'
    BY <1>1 DEF LoseCall, Spend, TInv, TypeOK, CallsMatch, Silent, Places,
       server, service, doing, kept
  <2>4. QED
    BY <2>1, <2>2, <2>3 DEF TInv
<1>2. CASE Tell(r)
  <2>1. TypeOK'
    BY <1>2 DEF Tell, TInv, TypeOK, Wires, Replies, Places, server, service,
       doing, kept
  <2>2. Charged'
    BY <1>2 DEF Tell, TInv, TypeOK, Charged, server, service, doing, kept
  <2>3. CallsMatch'
    BY <1>2 DEF Tell, TInv, TypeOK, CallsMatch, Silent, Places, server,
       service, doing, kept
  <2>4. QED
    BY <2>1, <2>2, <2>3 DEF TInv
<1>3. CASE Crash(r)
  <2>1. TypeOK'
    BY <1>3 DEF Crash, Spend, DropKeeper, Resume, Goto, TInv, TypeOK, Wires,
       Replies, Places, server, service, doing, kept
  <2>2. Charged'
    BY <1>3 DEF Crash, Spend, DropKeeper, Resume, Goto, TInv, TypeOK, Charged,
       server, service, doing, kept
  <2>3. CallsMatch'
    BY <1>3 DEF Crash, Spend, DropKeeper, Resume, Goto, TInv, TypeOK,
       CallsMatch, Silent, Places, server, service, doing, kept
  <2>4. QED
    BY <2>1, <2>2, <2>3 DEF TInv
<1>4. CASE Restart(r)
  <2>1. TypeOK'
    BY <1>4 DEF Restart, At, Goto, TInv, TypeOK, Wires, Replies, Places,
       server, service, doing, kept
  <2>2. Charged'
    BY <1>4 DEF Restart, At, Goto, TInv, TypeOK, Charged, server, service,
       doing, kept
  <2>3. CallsMatch'
    BY <1>4 DEF Restart, At, Goto, TInv, TypeOK, CallsMatch, Silent, Places,
       server, service, doing, kept
  <2>4. QED
    BY <2>1, <2>2, <2>3 DEF TInv
<1>5. CASE Revoke(r)
  <2>1. TypeOK'
    BY <1>5 DEF Revoke, Spend, TInv, TypeOK, Wires, Replies, Places, server,
       service, doing, kept
  <2>2. Charged'
    BY <1>5 DEF Revoke, Spend, TInv, TypeOK, Charged, server, service, doing,
       kept
  <2>3. CallsMatch'
    BY <1>5 DEF Revoke, Spend, TInv, TypeOK, CallsMatch, Silent, Places,
       server, service, doing, kept
  <2>4. QED
    BY <2>1, <2>2, <2>3 DEF TInv
<1>6. QED
  BY <1>1, <1>2, <1>3, <1>4, <1>5 DEF Faults

\* What becomes of the Server and its leases.
LEMMA WorldTypes ==
  ASSUME TInv, World
  PROVE  TInv'
<1>1. CASE ServerAway
  <2>1. open' \in BOOLEAN
    BY <1>1 DEF ServerAway
  <2>2. UNCHANGED <<server, standing, pc, wire, grant, doing, told, kept>>
    BY <1>1 DEF ServerAway
  <2>3. budget' \in Budgets
    BY <1>1, SpendTypes DEF ServerAway, TInv, TypeOK, Budgets
  <2>4. TypeOK'
    BY <2>1, <2>2, <2>3 DEF TInv, TypeOK, Budgets, server, doing, kept
  <2>5. Charged' /\ CallsMatch'
    BY <2>2 DEF TInv, Charged, CallsMatch, server, doing
  <2>6. QED
    BY <2>4, <2>5 DEF TInv
<1>2. CASE ServerBack
  <2>1. TypeOK'
    BY <1>2 DEF ServerBack, TInv, TypeOK, Wires, Replies, Places, server,
       service, doing, kept
  <2>2. Charged'
    BY <1>2 DEF ServerBack, TInv, TypeOK, Charged, server, service, doing,
       kept
  <2>3. CallsMatch'
    BY <1>2 DEF ServerBack, TInv, TypeOK, CallsMatch, Silent, Places, server,
       service, doing, kept
  <2>4. QED
    BY <2>1, <2>2, <2>3 DEF TInv
<1>3. CASE ServerForgets
  <2>1. TypeOK'
    BY <1>3 DEF ServerForgets, Spend, TInv, TypeOK, Wires, Replies, Places,
       server, service, doing, kept
  <2>2. Charged'
    BY <1>3 DEF ServerForgets, Spend, TInv, TypeOK, Charged, server, service,
       doing, kept
  <2>3. CallsMatch'
    BY <1>3 DEF ServerForgets, Spend, TInv, TypeOK, CallsMatch, Silent,
       Places, server, service, doing, kept
  <2>4. QED
    BY <2>1, <2>2, <2>3 DEF TInv
<1>4. CASE \E w \in Work : Lapse(w)
  <2>1. TypeOK'
    BY <1>4 DEF Lapse, TInv, TypeOK, Wires, Replies, Places, server, service,
       doing, kept
  <2>2. Charged'
    BY <1>4 DEF Lapse, TInv, TypeOK, Charged, server, service, doing, kept
  <2>3. CallsMatch'
    BY <1>4 DEF Lapse, TInv, TypeOK, CallsMatch, Silent, Places, server,
       service, doing, kept
  <2>4. QED
    BY <2>1, <2>2, <2>3 DEF TInv
<1>5. CASE \E w \in Work : Reap(w)
  <2>1. TypeOK'
    BY <1>5 DEF Reap, TInv, TypeOK, Wires, Replies, Places, server, service,
       doing, kept
  <2>2. Charged'
    BY <1>5 DEF Reap, TInv, TypeOK, Charged, server, service, doing, kept
  <2>3. CallsMatch'
    BY <1>5 DEF Reap, TInv, TypeOK, CallsMatch, Silent, Places, server,
       service, doing, kept
  <2>4. QED
    BY <2>1, <2>2, <2>3 DEF TInv
<1>6. QED
  BY <1>1, <1>2, <1>3, <1>4, <1>5 DEF World
LEMMA InitTypes == Init => TInv
  BY BoundAssumption DEF Init, TInv, TypeOK, Charged, CallsMatch, Silent,
     Places, Replies

LEMMA StepTypes == TInv /\ [Next]_vars => TInv'
<1> SUFFICES ASSUME TInv, [Next]_vars PROVE TInv'
  OBVIOUS
<1>1. CASE UNCHANGED vars
  BY <1>1 DEF vars, TInv, TypeOK, Charged, CallsMatch, server, service, doing,
     kept
<1>2. CASE \E r \in Runners : Prompt(r) \/ HearsStop(r) \/ Timer(r) \/ Evaluates(r)
  BY <1>2, PromptTypes, StopTypes, TimerTypes, EvaluateTypes
<1>3. CASE \E r \in Runners : Renews(r) \/ Serve(r) \/ Faults(r)
  BY <1>3, RenewTypes, ServeTypes, FaultTypes
<1>4. CASE World
  BY <1>4, WorldTypes
<1>5. QED
  BY <1>1, <1>2, <1>3, <1>4 DEF Next, World

\* Every variable keeps its type: no call is answered that was not made, no
\* more attachments are sent than were owed, and no delivery is given back
\* that was not charged (run.rs).
THEOREM RunnerTypes == Spec => []TypeOK
<1>1. Init => TInv
  BY InitTypes
<1>2. TInv /\ [Next]_vars => TInv'
  BY StepTypes
<1>3. TInv => TypeOK
  BY DEF TInv
<1>4. QED
  BY <1>1, <1>2, <1>3, PTL DEF Spec

-----------------------------------------------------------------------------
(* An outage is never anybody's failure                                    *)

\* An answer is there exactly while it is being delivered, and one that an
\* outage made belongs to a Runner the Server will not listen to: it has to
\* ask for a new token first, and it does so only with nothing in hand.
AnswerFits ==
  \A r \in Runners :
    /\ pc[r] \in Answering <=> answer[r] # "none"
    /\ answer[r] = "outage" => standing[r] # "known"

\* Every step keeps the answers where they belong.
LEMMA StepAnswerFits ==
  ASSUME TInv, AnswerFits, [Next]_vars
  PROVE  AnswerFits'
<1>1. ASSUME NEW r \in Runners, Prompt(r) PROVE AnswerFits'
  <2>1. CASE Admitted(r)
    BY <2>1 DEF Admitted, At, Goto, AnswerFits, Answering, TInv, TypeOK,
       Answers, server, service, doing, kept
  <2>2. CASE NotAdmitted(r)
    BY <2>2 DEF NotAdmitted, At, Goto, OnlyMoves, AnswerFits, Answering, TInv,
       TypeOK, Answers, server, service, doing, kept
  <2>3. CASE AskForJob(r)
    BY <2>3 DEF AskForJob, At, Heard, Call, Resume, Goto, OnlyMoves,
       AnswerFits, Answering, TInv, TypeOK, Answers, server, service, doing,
       kept
  <2>4. CASE LeaveLoop(r)
    BY <2>4 DEF LeaveLoop, At, Heard, Resume, Goto, OnlyMoves, AnswerFits,
       Answering, TInv, TypeOK, Answers, server, service, doing, kept
  <2>5. CASE TakeWork(r)
    BY <2>5 DEF TakeWork, At, Heard, Resume, Goto, AnswerFits, Answering,
       TInv, TypeOK, Answers, server, service, doing, kept
  <2>6. CASE NoJob(r)
    BY <2>6 DEF NoJob, At, Heard, Call, Resume, Goto, OnlyMoves, AnswerFits,
       Answering, TInv, TypeOK, Answers, server, service, doing, kept
  <2>7. CASE NoTrial(r)
    BY <2>7 DEF NoTrial, At, Heard, Resume, Goto, OnlyMoves, AnswerFits,
       Answering, TInv, TypeOK, Answers, server, service, doing, kept
  <2>8. CASE ClaimFailed(r)
    BY <2>8 DEF ClaimFailed, At, Heard, Resume, Goto, OnlyMoves, AnswerFits,
       Answering, TInv, TypeOK, Answers, server, service, doing, kept
  <2>9. CASE SettledWithJob(r)
    BY <2>9 DEF SettledWithJob, At, Heard, Call, Goto, AnswerFits, Answering,
       TInv, TypeOK, Answers, server, service, doing, kept
  <2>10. CASE SettledWithout(r)
    BY <2>10 DEF SettledWithout, At, Heard, Resume, Goto, OnlyMoves,
       AnswerFits, Answering, TInv, TypeOK, Answers, server, service, doing,
       kept
  <2>11. CASE GivenBack(r)
    BY <2>11 DEF GivenBack, LetGo, DropKeeper, At, Resume, Goto, AnswerFits,
       Answering, TInv, TypeOK, Answers, server, service, doing, kept
  <2>12. CASE SendAttachment(r)
    BY <2>12 DEF SendAttachment, At, OnlyMoves, AnswerFits, Answering, TInv,
       TypeOK, Answers, server, service, doing, kept
  <2>13. CASE AttachmentAnswered(r)
    BY <2>13 DEF AttachmentAnswered, At, Resume, Goto, AnswerFits, Answering,
       TInv, TypeOK, Answers, server, service, doing, kept
  <2>14. CASE StartReport(r)
    BY <2>14 DEF StartReport, At, Heard, Call, Goto, OnlyMoves, AnswerFits,
       Answering, TInv, TypeOK, Answers, server, service, doing, kept
  <2>15. CASE Reported(r)
    BY <2>15 DEF Reported, LetGo, DropKeeper, At, Resume, Goto, AnswerFits,
       Answering, TInv, TypeOK, Answers, server, service, doing, kept
  <2>16. CASE ReportHeld(r)
    BY <2>16 DEF ReportHeld, At, Heard, Resume, Goto, OnlyMoves, AnswerFits,
       Answering, TInv, TypeOK, Answers, server, service, doing, kept
  <2>17. CASE ReportGivenUp(r)
    BY <2>17 DEF ReportGivenUp, LetGo, DropKeeper, At, Resume, Goto,
       AnswerFits, Answering, TInv, TypeOK, Answers, server, service, doing,
       kept
  <2>18. QED
    BY <1>1, <2>1, <2>2, <2>3, <2>4, <2>5, <2>6, <2>7, <2>8, <2>9, <2>10,
       <2>11, <2>12, <2>13, <2>14, <2>15, <2>16, <2>17 DEF Prompt
<1>2. ASSUME NEW r \in Runners, HearsStop(r) PROVE AnswerFits'
  <2>1. CASE StopClaim(r)
    BY <2>1 DEF StopClaim, At, Goto, OnlyMoves, AnswerFits, Answering, TInv,
       TypeOK, Answers, server, service, doing, kept
  <2>2. CASE SettleExpires(r)
    BY <2>2 DEF SettleExpires, At, Resume, Goto, AnswerFits, Answering, TInv,
       TypeOK, Answers, server, service, doing, kept
  <2>3. CASE StopWait(r)
    BY <2>3 DEF StopWait, At, Goto, OnlyMoves, AnswerFits, Answering, TInv,
       TypeOK, Answers, server, service, doing, kept
  <2>4. CASE StopEvaluation(r)
    BY <2>4 DEF StopEvaluation, DropKeeper, At, Call, Goto, AnswerFits,
       Answering, TInv, TypeOK, Answers, server, service, doing, kept
  <2>5. CASE LockStopped(r)
    BY <2>5 DEF LockStopped, LetGo, DropKeeper, At, Resume, Goto, AnswerFits,
       Answering, TInv, TypeOK, Answers, server, service, doing, kept
  <2>6. CASE StopHolding(r)
    BY <2>6 DEF StopHolding, LetGo, DropKeeper, At, Resume, Goto, AnswerFits,
       Answering, TInv, TypeOK, Answers, server, service, doing, kept
  <2>7. QED
    BY <1>2, <2>1, <2>2, <2>3, <2>4, <2>5, <2>6 DEF HearsStop
<1>3. ASSUME NEW r \in Runners, Timer(r) PROVE AnswerFits'
  <2>1. CASE WaitOver(r)
    BY <2>1 DEF WaitOver, At, Goto, OnlyMoves, AnswerFits, Answering, TInv,
       TypeOK, Answers, server, service, doing, kept
  <2>2. CASE HoldOver(r)
    BY <2>2 DEF HoldOver, At, Heard, Call, Resume, Goto, OnlyMoves,
       AnswerFits, Answering, TInv, TypeOK, Answers, server, service, doing,
       kept
  <2>3. CASE DeadlinePasses(r)
    BY <2>3 DEF DeadlinePasses, At, AnswerFits, Answering, TInv, TypeOK,
       Answers, server, service, doing, kept
  <2>4. QED
    BY <1>3, <2>1, <2>2, <2>3 DEF Timer
<1>4. ASSUME NEW r \in Runners, Evaluates(r) PROVE AnswerFits'
  <2>1. CASE Fetched(r)
    BY <2>1 DEF Fetched, At, Goto, OnlyMoves, AnswerFits, Answering, TInv,
       TypeOK, Answers, server, service, doing, kept
  <2>2. CASE FetchAway(r)
    BY <2>2 DEF FetchAway, LetGo, DropKeeper, At, Resume, Goto, AnswerFits,
       Answering, TInv, TypeOK, Answers, server, service, doing, kept
  <2>3. CASE FetchLost(r)
    BY <2>3 DEF FetchLost, DropKeeper, At, Resume, Goto, AnswerFits,
       Answering, TInv, TypeOK, Answers, server, service, doing, kept
  <2>4. CASE FetchRefused(r)
    BY <2>4 DEF FetchRefused, Conclude, At, Call, Goto, AnswerFits, Answering,
       TInv, TypeOK, Answers, server, service, doing, kept
  <2>5. CASE MachineryBroke(r)
    BY <2>5 DEF MachineryBroke, Conclude, At, Call, Goto, AnswerFits,
       Answering, TInv, TypeOK, Answers, server, service, doing, kept
  <2>6. CASE Judged(r)
    BY <2>6 DEF Judged, Conclude, At, Call, Goto, AnswerFits, Answering, TInv,
       TypeOK, Answers, server, service, doing, kept
  <2>7. QED
    BY <1>4, <2>1, <2>2, <2>3, <2>4, <2>5, <2>6 DEF Evaluates
<1>5. ASSUME NEW r \in Runners, Renews(r) PROVE AnswerFits'
  <2>1. CASE SendRenewal(r)
    BY <2>1 DEF SendRenewal, AnswerFits, Answering, TInv, TypeOK, Answers,
       server, service, doing, kept
  <2>2. CASE \E m \in renewals : LandRenewal(m)
    BY <2>2 DEF LandRenewal, DropKeeper, AnswerFits, Answering, TInv, TypeOK,
       Answers, server, service, doing, kept
  <2>3. CASE \E m \in renewals : LoseRenewal(m)
    BY <2>3 DEF LoseRenewal, AnswerFits, Answering, TInv, TypeOK, Answers,
       server, service, doing, kept
  <2>4. QED
    BY <1>5, <2>1, <2>2, <2>3 DEF Renews
<1>6. ASSUME NEW r \in Runners, Serve(r) PROVE AnswerFits'
  <2>1. CASE ServeRefused(r)
    BY <2>1 DEF ServeRefused, AnswerFits, Answering, TInv, TypeOK, Answers,
       server, service, doing, kept
  <2>2. CASE ServeEmpty(r)
    BY <2>2 DEF ServeEmpty, AnswerFits, Answering, TInv, TypeOK, Answers,
       server, service, doing, kept
  <2>3. CASE ServeStale(r)
    BY <2>3 DEF ServeStale, AnswerFits, Answering, TInv, TypeOK, Answers,
       server, service, doing, kept
  <2>4. CASE ServeRelease(r)
    BY <2>4 DEF ServeRelease, Current, At, AnswerFits, Answering, TInv,
       TypeOK, Answers, server, service, doing, kept
  <2>5. CASE ServeAttach(r)
    BY <2>5 DEF ServeAttach, AnswerFits, Answering, TInv, TypeOK, Answers,
       server, service, doing, kept
  <2>6. CASE ServeReport(r)
    BY <2>6 DEF ServeReport, Heard, At, Admits, Current, AnswerFits,
       Answering, TInv, TypeOK, Answers, server, service, doing, kept
  <2>7. CASE \E w \in Work : ServeClaim(r, w)
    BY <2>7 DEF ServeClaim, Heard, At, AnswerFits, Answering, TInv, TypeOK,
       Answers, server, service, doing, kept
  <2>8. QED
    BY <1>6, <2>1, <2>2, <2>3, <2>4, <2>5, <2>6, <2>7 DEF Serve
<1>7. ASSUME NEW r \in Runners, Faults(r) PROVE AnswerFits'
  <2>1. CASE LoseCall(r)
    BY <2>1 DEF LoseCall, AnswerFits, Answering, TInv, TypeOK, Answers,
       server, service, doing, kept
  <2>2. CASE Tell(r)
    BY <2>2 DEF Tell, At, AnswerFits, Answering, TInv, TypeOK, Answers,
       server, service, doing, kept
  <2>3. CASE Crash(r)
    BY <2>3 DEF Crash, DropKeeper, Resume, Goto, AnswerFits, Answering, TInv,
       TypeOK, Answers, server, service, doing, kept
  <2>4. CASE Restart(r)
    BY <2>4 DEF Restart, At, Goto, AnswerFits, Answering, TInv, TypeOK,
       Answers, server, service, doing, kept
  <2>5. CASE Revoke(r)
    BY <2>5 DEF Revoke, AnswerFits, Answering, TInv, TypeOK, Answers, server,
       service, doing, kept
  <2>6. QED
    BY <1>7, <2>1, <2>2, <2>3, <2>4, <2>5 DEF Faults
<1>8. CASE World
  <2>1. CASE ServerAway
    BY <2>1 DEF ServerAway, AnswerFits, Answering, TInv, TypeOK, Answers,
       server, service, doing, kept
  <2>2. CASE ServerBack
    BY <2>2 DEF ServerBack, AnswerFits, Answering, TInv, TypeOK, Answers,
       server, service, doing, kept
  <2>3. CASE ServerForgets
    BY <2>3 DEF ServerForgets, AnswerFits, Answering, TInv, TypeOK, Answers,
       server, service, doing, kept
  <2>4. CASE \E w \in Work : Lapse(w)
    BY <2>4 DEF Lapse, AnswerFits, Answering, TInv, TypeOK, Answers, server,
       service, doing, kept
  <2>5. CASE \E w \in Work : Reap(w)
    BY <2>5 DEF Reap, AnswerFits, Answering, TInv, TypeOK, Answers, server,
       service, doing, kept
  <2>6. QED
    BY <1>8, <2>1, <2>2, <2>3, <2>4, <2>5 DEF World
<1>9. CASE UNCHANGED vars
  BY <1>9 DEF vars, AnswerFits, Answering, TInv, TypeOK, Answers, server,
     service, doing, kept
<1>10. QED
  BY <1>1, <1>2, <1>3, <1>4, <1>5, <1>6, <1>7, <1>8, <1>9 DEF Next, World

\* The Server's account of a piece of work changes by a claim, a release, a
\* report or its reaper, and by nothing a Runner does on its own.
LEMMA QueueMoves ==
  ASSUME [Next]_vars
  PROVE  \/ UNCHANGED <<queue, recorded>>
         \/ \E r \in Runners : ServeRelease(r) \/ ServeReport(r)
         \/ \E r \in Runners, w \in Work : ServeClaim(r, w)
         \/ \E w \in Work : Reap(w)
<1>1. ASSUME NEW r \in Runners, Prompt(r) PROVE UNCHANGED <<queue, recorded>>
  BY <1>1 DEF Prompt, Admitted, Goto, NotAdmitted, OnlyMoves, AskForJob, Call,
     Resume, LeaveLoop, TakeWork, NoJob, NoTrial, ClaimFailed, SettledWithJob,
     SettledWithout, GivenBack, LetGo, DropKeeper, SendAttachment,
     AttachmentAnswered, StartReport, Reported, ReportHeld, ReportGivenUp,
     server
<1>2. ASSUME NEW r \in Runners, HearsStop(r) \/ Timer(r) PROVE UNCHANGED <<queue, recorded>>
  BY <1>2 DEF HearsStop, StopClaim, Goto, OnlyMoves, SettleExpires, Resume,
     StopWait, StopEvaluation, DropKeeper, Call, LockStopped, LetGo,
     StopHolding, Timer, WaitOver, HoldOver, DeadlinePasses, server
<1>3. ASSUME NEW r \in Runners, Evaluates(r) PROVE UNCHANGED <<queue, recorded>>
  BY <1>3 DEF Evaluates, Fetched, Goto, OnlyMoves, FetchAway, LetGo,
     DropKeeper, Resume, FetchLost, FetchRefused, Conclude, Call,
     MachineryBroke, Judged, server
<1>4. ASSUME NEW r \in Runners, Renews(r) \/ Faults(r) PROVE UNCHANGED <<queue, recorded>>
  BY <1>4 DEF Renews, SendRenewal, LandRenewal, DropKeeper, LoseRenewal,
     Faults, LoseCall, Tell, Crash, Resume, Goto, Restart, Revoke, server
<1>5. ASSUME NEW r \in Runners, Serve(r)
      PROVE  \/ UNCHANGED <<queue, recorded>>
             \/ ServeRelease(r) \/ ServeReport(r) \/ \E w \in Work : ServeClaim(r, w)
  BY <1>5 DEF Serve, ServeRefused, ServeEmpty, ServeStale, ServeAttach, server
<1>6. CASE World
  BY <1>6 DEF World, ServerAway, ServerBack, ServerForgets, Lapse, server
<1>7. CASE UNCHANGED vars
  BY <1>7 DEF vars, server
<1>8. QED
  BY <1>1, <1>2, <1>3, <1>4, <1>5, <1>6, <1>7 DEF Next, World

\* A report that is recorded is about the work: the Server listens to its
\* Runner, so no outage made it.
LEMMA ReportIsHonest ==
  ASSUME TInv, AnswerFits, NEW r \in Runners, ServeReport(r)
  PROVE  /\ hand[r] \in Lease /\ queue[hand[r].work] = "running"
         /\ answer[r] \in Queue!Answers
  BY DEF ServeReport, At, Admits, Current, AnswerFits, Answering, TInv,
     TypeOK,
         Answers, Queue!Answers

LEMMA StepRecorded ==
  ASSUME TInv, AnswerFits, OutageIsNeverAFailure, [Next]_vars
  PROVE  OutageIsNeverAFailure'
<1>1. ASSUME NEW r \in Runners, ServeReport(r) PROVE OutageIsNeverAFailure'
  <2>1. recorded' = [recorded EXCEPT ![hand[r].work] = answer[r]]
    BY <1>1 DEF ServeReport
  <2>2. answer[r] # "outage"
    BY <1>1, ReportIsHonest DEF Queue!Answers
  <2>3. recorded = [w \in Work |-> recorded[w]]
    BY DEF TInv, TypeOK
  <2>4. \A w \in Work : recorded'[w] \in {recorded[w], answer[r]}
    BY <2>1, <2>3
  <2>5. QED
    BY <2>2, <2>4 DEF OutageIsNeverAFailure
<1>2. ASSUME UNCHANGED recorded PROVE OutageIsNeverAFailure'
  BY <1>2 DEF OutageIsNeverAFailure
<1>3. QED
  BY <1>1, <1>2, QueueMoves DEF ServeRelease, ServeClaim, Reap

OInv == TInv /\ AnswerFits /\ OutageIsNeverAFailure

LEMMA InitOutage == Init => OInv
  BY InitTypes DEF Init, OInv, AnswerFits, Answering, OutageIsNeverAFailure

LEMMA StepOutage == OInv /\ [Next]_vars => OInv'
  BY StepTypes, StepAnswerFits, StepRecorded DEF OInv

\* However often the Server goes away or forgets its Runners, and whatever the
\* network loses, no outage is ever recorded as the failure of somebody's work
\* (run.rs, Trouble).
THEOREM OutagesAreNotFailures == Spec => []OutageIsNeverAFailure
<1>1. OInv => OutageIsNeverAFailure
  BY DEF OInv
<1>2. QED
  BY InitOutage, StepOutage, <1>1, PTL DEF Spec

-----------------------------------------------------------------------------
(* RunnerWork implements WorkQueue                                         *)

LEMMA ReportFinishes ==
  ASSUME OInv, NEW r \in Runners, ServeReport(r)
  PROVE  Queue!Next
<1>1. hand[r].work \in Work
  BY ReportIsHonest DEF OInv, Lease
<1>2. Queue!Finish(hand[r].work, answer[r])
  BY ReportIsHonest DEF OInv, ServeReport, Queue!Finish, Queue!Move
<1>3. QED
  BY <1>1, <1>2, ReportIsHonest DEF OInv, Queue!Next

LEMMA ReleaseReturns ==
  ASSUME OInv, NEW r \in Runners, ServeRelease(r)
  PROVE  Queue!Next
<1>1. hand[r].work \in Work /\ Queue!Return(hand[r].work)
  BY DEF OInv, TInv, TypeOK, ServeRelease, Current, Lease, Queue!Return,
     Queue!Move
<1>2. QED
  BY <1>1 DEF Queue!Next

LEMMA ClaimTakes ==
  ASSUME NEW r \in Runners, NEW w \in Work, ServeClaim(r, w)
  PROVE  Queue!Next
<1>1. Queue!Take(w)
  BY DEF ServeClaim, Queue!Take, Queue!Move
<1>2. QED
  BY <1>1 DEF Queue!Next

LEMMA ReapReturnsOrGivesUp ==
  ASSUME NEW w \in Work, Reap(w)
  PROVE  Queue!Next
<1>1. Queue!Return(w) \/ Queue!GiveUp(w)
  BY DEF Reap, Queue!Return, Queue!GiveUp, Queue!Move
<1>2. QED
  BY <1>1 DEF Queue!Next

LEMMA StepImplements == OInv /\ [Next]_vars => [Queue!Next]_(Queue!vars)
<1> SUFFICES ASSUME OInv, [Next]_vars PROVE [Queue!Next]_(Queue!vars)
  OBVIOUS
<1>1. QED
  BY QueueMoves, ReportFinishes, ReleaseReturns, ClaimTakes,
     ReapReturnsOrGivesUp
     DEF Queue!vars

\* With any number of Runners, crashes and losses, work is taken, returned and
\* ended as the abstract queue says: once, and with an answer about the work
\* (run.rs; the Server's part as client.rs relies on it).
THEOREM RunnersImplementQueue == Spec => QueueSpec
<1>1. Init => Queue!Init
  BY DEF Init, Queue!Init
<1>2. QED
  BY <1>1, InitOutage, StepOutage, StepImplements, PTL DEF Spec, QueueSpec,
     Queue!Spec

-----------------------------------------------------------------------------
(* A Keeper never outlives the work it keeps                               *)

\* Every step keeps a Keeper and the work it renews together.
LEMMA StepKept ==
  ASSUME TInv, KeptOnlyWhileHeld, [Next]_vars
  PROVE  KeptOnlyWhileHeld'
<1>1. ASSUME NEW r \in Runners, Prompt(r) PROVE KeptOnlyWhileHeld'
  <2>1. CASE Admitted(r)
    BY <2>1 DEF Admitted, At, Goto, KeptOnlyWhileHeld, Handling, TInv, TypeOK,
       server, service, doing, kept
  <2>2. CASE NotAdmitted(r)
    BY <2>2 DEF NotAdmitted, At, Goto, OnlyMoves, KeptOnlyWhileHeld, Handling,
       TInv, TypeOK, server, service, doing, kept
  <2>3. CASE AskForJob(r)
    BY <2>3 DEF AskForJob, At, Heard, Call, Resume, Goto, OnlyMoves,
       KeptOnlyWhileHeld, Handling, TInv, TypeOK, server, service, doing, kept
  <2>4. CASE LeaveLoop(r)
    BY <2>4 DEF LeaveLoop, At, Heard, Resume, Goto, OnlyMoves,
       KeptOnlyWhileHeld, Handling, TInv, TypeOK, server, service, doing, kept
  <2>5. CASE TakeWork(r)
    BY <2>5 DEF TakeWork, At, Heard, Resume, Goto, KeptOnlyWhileHeld,
       Handling, TInv, TypeOK, server, service, doing, kept
  <2>6. CASE NoJob(r)
    BY <2>6 DEF NoJob, At, Heard, Call, Resume, Goto, OnlyMoves,
       KeptOnlyWhileHeld, Handling, TInv, TypeOK, server, service, doing, kept
  <2>7. CASE NoTrial(r)
    BY <2>7 DEF NoTrial, At, Heard, Resume, Goto, OnlyMoves,
       KeptOnlyWhileHeld, Handling, TInv, TypeOK, server, service, doing, kept
  <2>8. CASE ClaimFailed(r)
    BY <2>8 DEF ClaimFailed, At, Heard, Resume, Goto, OnlyMoves,
       KeptOnlyWhileHeld, Handling, TInv, TypeOK, server, service, doing, kept
  <2>9. CASE SettledWithJob(r)
    BY <2>9 DEF SettledWithJob, At, Heard, Call, Goto, KeptOnlyWhileHeld,
       Handling, TInv, TypeOK, server, service, doing, kept
  <2>10. CASE SettledWithout(r)
    BY <2>10 DEF SettledWithout, At, Heard, Resume, Goto, OnlyMoves,
       KeptOnlyWhileHeld, Handling, TInv, TypeOK, server, service, doing, kept
  <2>11. CASE GivenBack(r)
    BY <2>11 DEF GivenBack, LetGo, DropKeeper, At, Resume, Goto,
       KeptOnlyWhileHeld, Handling, TInv, TypeOK, server, service, doing, kept
  <2>12. CASE SendAttachment(r)
    BY <2>12 DEF SendAttachment, At, OnlyMoves, KeptOnlyWhileHeld, Handling,
       TInv, TypeOK, server, service, doing, kept
  <2>13. CASE AttachmentAnswered(r)
    BY <2>13 DEF AttachmentAnswered, At, Resume, Goto, KeptOnlyWhileHeld,
       Handling, TInv, TypeOK, server, service, doing, kept
  <2>14. CASE StartReport(r)
    BY <2>14 DEF StartReport, At, Heard, Call, Goto, OnlyMoves,
       KeptOnlyWhileHeld, Handling, TInv, TypeOK, server, service, doing, kept
  <2>15. CASE Reported(r)
    BY <2>15 DEF Reported, LetGo, DropKeeper, At, Resume, Goto,
       KeptOnlyWhileHeld, Handling, TInv, TypeOK, server, service, doing, kept
  <2>16. CASE ReportHeld(r)
    BY <2>16 DEF ReportHeld, At, Heard, Resume, Goto, OnlyMoves,
       KeptOnlyWhileHeld, Handling, TInv, TypeOK, server, service, doing, kept
  <2>17. CASE ReportGivenUp(r)
    BY <2>17 DEF ReportGivenUp, LetGo, DropKeeper, At, Resume, Goto,
       KeptOnlyWhileHeld, Handling, TInv, TypeOK, server, service, doing, kept
  <2>18. QED
    BY <1>1, <2>1, <2>2, <2>3, <2>4, <2>5, <2>6, <2>7, <2>8, <2>9, <2>10,
       <2>11, <2>12, <2>13, <2>14, <2>15, <2>16, <2>17 DEF Prompt
<1>2. ASSUME NEW r \in Runners, HearsStop(r) PROVE KeptOnlyWhileHeld'
  <2>1. CASE StopClaim(r)
    BY <2>1 DEF StopClaim, At, Goto, OnlyMoves, KeptOnlyWhileHeld, Handling,
       TInv, TypeOK, server, service, doing, kept
  <2>2. CASE SettleExpires(r)
    BY <2>2 DEF SettleExpires, At, Resume, Goto, KeptOnlyWhileHeld, Handling,
       TInv, TypeOK, server, service, doing, kept
  <2>3. CASE StopWait(r)
    BY <2>3 DEF StopWait, At, Goto, OnlyMoves, KeptOnlyWhileHeld, Handling,
       TInv, TypeOK, server, service, doing, kept
  <2>4. CASE StopEvaluation(r)
    BY <2>4 DEF StopEvaluation, DropKeeper, At, Call, Goto, KeptOnlyWhileHeld,
       Handling, TInv, TypeOK, server, service, doing, kept
  <2>5. CASE LockStopped(r)
    BY <2>5 DEF LockStopped, LetGo, DropKeeper, At, Resume, Goto,
       KeptOnlyWhileHeld, Handling, TInv, TypeOK, server, service, doing, kept
  <2>6. CASE StopHolding(r)
    BY <2>6 DEF StopHolding, LetGo, DropKeeper, At, Resume, Goto,
       KeptOnlyWhileHeld, Handling, TInv, TypeOK, server, service, doing, kept
  <2>7. QED
    BY <1>2, <2>1, <2>2, <2>3, <2>4, <2>5, <2>6 DEF HearsStop
<1>3. ASSUME NEW r \in Runners, Timer(r) PROVE KeptOnlyWhileHeld'
  <2>1. CASE WaitOver(r)
    BY <2>1 DEF WaitOver, At, Goto, OnlyMoves, KeptOnlyWhileHeld, Handling,
       TInv, TypeOK, server, service, doing, kept
  <2>2. CASE HoldOver(r)
    BY <2>2 DEF HoldOver, At, Heard, Call, Resume, Goto, OnlyMoves,
       KeptOnlyWhileHeld, Handling, TInv, TypeOK, server, service, doing, kept
  <2>3. CASE DeadlinePasses(r)
    BY <2>3 DEF DeadlinePasses, At, KeptOnlyWhileHeld, Handling, TInv, TypeOK,
       server, service, doing, kept
  <2>4. QED
    BY <1>3, <2>1, <2>2, <2>3 DEF Timer
<1>4. ASSUME NEW r \in Runners, Evaluates(r) PROVE KeptOnlyWhileHeld'
  <2>1. CASE Fetched(r)
    BY <2>1 DEF Fetched, At, Goto, OnlyMoves, KeptOnlyWhileHeld, Handling,
       TInv, TypeOK, server, service, doing, kept
  <2>2. CASE FetchAway(r)
    BY <2>2 DEF FetchAway, LetGo, DropKeeper, At, Resume, Goto,
       KeptOnlyWhileHeld, Handling, TInv, TypeOK, server, service, doing, kept
  <2>3. CASE FetchLost(r)
    BY <2>3 DEF FetchLost, DropKeeper, At, Resume, Goto, KeptOnlyWhileHeld,
       Handling, TInv, TypeOK, server, service, doing, kept
  <2>4. CASE FetchRefused(r)
    BY <2>4 DEF FetchRefused, Conclude, At, Call, Goto, KeptOnlyWhileHeld,
       Handling, TInv, TypeOK, server, service, doing, kept
  <2>5. CASE MachineryBroke(r)
    BY <2>5 DEF MachineryBroke, Conclude, At, Call, Goto, KeptOnlyWhileHeld,
       Handling, TInv, TypeOK, server, service, doing, kept
  <2>6. CASE Judged(r)
    BY <2>6 DEF Judged, Conclude, At, Call, Goto, KeptOnlyWhileHeld, Handling,
       TInv, TypeOK, server, service, doing, kept
  <2>7. QED
    BY <1>4, <2>1, <2>2, <2>3, <2>4, <2>5, <2>6 DEF Evaluates
<1>5. ASSUME NEW r \in Runners, Renews(r) PROVE KeptOnlyWhileHeld'
  <2>1. CASE SendRenewal(r)
    BY <2>1 DEF SendRenewal, KeptOnlyWhileHeld, Handling, At, TInv, TypeOK,
       server, service, doing, kept
  <2>2. CASE \E m \in renewals : LandRenewal(m)
    BY <2>2 DEF LandRenewal, DropKeeper, KeptOnlyWhileHeld, Handling, At,
       TInv, TypeOK, server, service, doing, kept
  <2>3. CASE \E m \in renewals : LoseRenewal(m)
    BY <2>3 DEF LoseRenewal, KeptOnlyWhileHeld, Handling, At, TInv, TypeOK,
       server, service, doing, kept
  <2>4. QED
    BY <1>5, <2>1, <2>2, <2>3 DEF Renews
<1>6. ASSUME NEW r \in Runners, Serve(r) PROVE KeptOnlyWhileHeld'
  <2>1. CASE ServeRefused(r)
    BY <2>1 DEF ServeRefused, KeptOnlyWhileHeld, Handling, At, TInv, TypeOK,
       server, service, doing, kept
  <2>2. CASE ServeEmpty(r)
    BY <2>2 DEF ServeEmpty, KeptOnlyWhileHeld, Handling, At, TInv, TypeOK,
       server, service, doing, kept
  <2>3. CASE ServeStale(r)
    BY <2>3 DEF ServeStale, KeptOnlyWhileHeld, Handling, At, TInv, TypeOK,
       server, service, doing, kept
  <2>4. CASE ServeRelease(r)
    BY <2>4 DEF ServeRelease, Current, At, KeptOnlyWhileHeld, Handling, TInv,
       TypeOK, server, service, doing, kept
  <2>5. CASE ServeAttach(r)
    BY <2>5 DEF ServeAttach, KeptOnlyWhileHeld, Handling, At, TInv, TypeOK,
       server, service, doing, kept
  <2>6. CASE ServeReport(r)
    BY <2>6 DEF ServeReport, Heard, At, Admits, Current, KeptOnlyWhileHeld,
       Handling, TInv, TypeOK, server, service, doing, kept
  <2>7. CASE \E w \in Work : ServeClaim(r, w)
    BY <2>7 DEF ServeClaim, Heard, At, KeptOnlyWhileHeld, Handling, TInv,
       TypeOK, server, service, doing, kept
  <2>8. QED
    BY <1>6, <2>1, <2>2, <2>3, <2>4, <2>5, <2>6, <2>7 DEF Serve
<1>7. ASSUME NEW r \in Runners, Faults(r) PROVE KeptOnlyWhileHeld'
  <2>1. CASE LoseCall(r)
    BY <2>1 DEF LoseCall, KeptOnlyWhileHeld, Handling, At, TInv, TypeOK,
       server, service, doing, kept
  <2>2. CASE Tell(r)
    BY <2>2 DEF Tell, At, KeptOnlyWhileHeld, Handling, TInv, TypeOK, server,
       service, doing, kept
  <2>3. CASE Crash(r)
    BY <2>3 DEF Crash, DropKeeper, Resume, Goto, KeptOnlyWhileHeld, Handling,
       At, TInv, TypeOK, server, service, doing, kept
  <2>4. CASE Restart(r)
    BY <2>4 DEF Restart, At, Goto, KeptOnlyWhileHeld, Handling, TInv, TypeOK,
       server, service, doing, kept
  <2>5. CASE Revoke(r)
    BY <2>5 DEF Revoke, KeptOnlyWhileHeld, Handling, At, TInv, TypeOK, server,
       service, doing, kept
  <2>6. QED
    BY <1>7, <2>1, <2>2, <2>3, <2>4, <2>5 DEF Faults
<1>8. CASE World
  <2>1. CASE ServerAway
    BY <2>1 DEF ServerAway, KeptOnlyWhileHeld, Handling, At, TInv, TypeOK,
       server, service, doing, kept
  <2>2. CASE ServerBack
    BY <2>2 DEF ServerBack, KeptOnlyWhileHeld, Handling, At, TInv, TypeOK,
       server, service, doing, kept
  <2>3. CASE ServerForgets
    BY <2>3 DEF ServerForgets, KeptOnlyWhileHeld, Handling, At, TInv, TypeOK,
       server, service, doing, kept
  <2>4. CASE \E w \in Work : Lapse(w)
    BY <2>4 DEF Lapse, KeptOnlyWhileHeld, Handling, At, TInv, TypeOK, server,
       service, doing, kept
  <2>5. CASE \E w \in Work : Reap(w)
    BY <2>5 DEF Reap, KeptOnlyWhileHeld, Handling, At, TInv, TypeOK, server,
       service, doing, kept
  <2>6. QED
    BY <1>8, <2>1, <2>2, <2>3, <2>4, <2>5 DEF World
<1>9. CASE UNCHANGED vars
  BY <1>9 DEF vars, KeptOnlyWhileHeld, Handling, At, TInv, TypeOK, server,
     service, doing, kept
<1>10. QED
  BY <1>1, <1>2, <1>3, <1>4, <1>5, <1>6, <1>7, <1>8, <1>9 DEF Next, World

KInv == TInv /\ KeptOnlyWhileHeld

\* Whatever path leads out of an evaluation, a crash included, the lease is no
\* longer renewed once the work is not in hand (keeper.rs, Drop for Keeper).
THEOREM KeepersEnd == Spec => []KeptOnlyWhileHeld
<1>1. Init => KInv
  BY InitTypes DEF Init, KInv, KeptOnlyWhileHeld
<1>2. KInv /\ [Next]_vars => KInv'
  BY StepTypes, StepKept DEF KInv
<1>3. KInv => KeptOnlyWhileHeld
  BY DEF KInv
<1>4. QED
  BY <1>1, <1>2, <1>3, PTL DEF Spec

-----------------------------------------------------------------------------
(* Leases: whose one is, and what may still be done under it once its work *)
(* has an answer.                                                          *)

\* A main task gives up what it held, what it was being given, or both.
Drops(r) ==
  /\ hand' \in {hand, [hand EXCEPT ![r] = NoLease]}
  /\ grant' \in {grant, [grant EXCEPT ![r] = NoLease]}
  /\ UNCHANGED leaseNo

\* The answer to a claim is read.
Takes(r) ==
  /\ hand' = [hand EXCEPT ![r] = grant[r]]
  /\ grant' = [grant EXCEPT ![r] = NoLease]
  /\ UNCHANGED leaseNo

\* No lease is in anybody's hands before the Server granted it.
GrantedBefore ==
  \A r \in Runners : \A l \in {hand[r], grant[r]} :
    l # NoLease => l.no <= leaseNo[l.work]

\* No two Runners work under one lease, nor are about to: a lease the Server grants
\* is new.
OneRunnerPerLease ==
  \A r, s \in Runners : \A l \in {hand[r], grant[r]} \cap {hand[s], grant[s]} :
    r # s => l = NoLease

\* A lease is on its way to a Runner exactly while the answer to its claim is.
GrantCarried ==
  \A r \in Runners :
    grant[r] # NoLease <=> wire[r] = "ok" /\ pc[r] \in {"claiming", "settling", "asking"}

\* What is worked on, reported or given back is held under a lease.
HandThere ==
  \A r \in Runners : pc[r] \in Handling \cup {"givingBack"} => hand[r] # NoLease

\* An answer is the end of the work it is recorded for.
RecordedIsDone == \A w \in Work : recorded[w] # "none" => queue[w] = "done"

\* Neither the lease a Runner works under before its report, nor one it is
\* being given, has an answer recorded under it.
Unanswered(l) == recorded[l.work] # "none" => leaseNo[l.work] # l.no

NothingEarly ==
  \A r \in Runners :
    /\ pc[r] \in {"fetching", "judging", "attaching"} => Unanswered(hand[r])
    /\ grant[r] # NoLease => Unanswered(grant[r])

LInv == TInv /\ GrantedBefore /\ OneRunnerPerLease
AInv == LInv /\ GrantCarried /\ HandThere /\ RecordedIsDone /\ NothingEarly

-----------------------------------------------------------------------------
(* A lease is one Runner's                                                 *)

\* Leases move only by a claim that is served, an answer that is read, and a
\* Runner letting go.
LEMMA LeaseMoves ==
  ASSUME TInv, [Next]_vars
  PROVE  \/ UNCHANGED <<hand, grant, leaseNo>>
         \/ \E r \in Runners : Drops(r) \/ Takes(r)
         \/ \E r \in Runners, w \in Work : ServeClaim(r, w)
<1>1. ASSUME NEW r \in Runners, Prompt(r) PROVE Drops(r) \/ Takes(r)
  BY <1>1 DEF Prompt, Admitted, Goto, NotAdmitted, OnlyMoves, AskForJob, Call,
     Resume, LeaveLoop, TakeWork, NoJob, NoTrial, ClaimFailed, SettledWithJob,
     SettledWithout, GivenBack, LetGo, DropKeeper, SendAttachment,
     AttachmentAnswered, StartReport, Reported, ReportHeld, ReportGivenUp,
     server, doing, Drops, Takes
<1>2. ASSUME NEW r \in Runners, HearsStop(r) \/ Timer(r) PROVE Drops(r)
  BY <1>2 DEF HearsStop, StopClaim, Goto, OnlyMoves, SettleExpires, Resume,
     StopWait, StopEvaluation, DropKeeper, Call, LockStopped, LetGo,
     StopHolding, Timer, WaitOver, HoldOver, DeadlinePasses, server, doing,
     Drops
<1>3. ASSUME NEW r \in Runners, Evaluates(r) PROVE Drops(r)
  BY <1>3 DEF Evaluates, Fetched, Goto, OnlyMoves, FetchAway, LetGo,
     DropKeeper, Resume, FetchLost, FetchRefused, Conclude, Call,
     MachineryBroke, Judged, server, doing, Drops
<1>4. ASSUME NEW r \in Runners, Renews(r) \/ Faults(r) PROVE Drops(r)
  BY <1>4 DEF Renews, SendRenewal, LandRenewal, DropKeeper, LoseRenewal,
     Faults, LoseCall, Tell, Crash, Resume, Goto, Restart, Revoke, server,
     doing, Drops
<1>5. ASSUME NEW r \in Runners, Serve(r)
      PROVE  UNCHANGED <<hand, grant, leaseNo>> \/ \E w \in Work : ServeClaim(r, w)
  BY <1>5 DEF Serve, ServeRefused, ServeEmpty, ServeStale, ServeAttach,
     ServeRelease,
     ServeReport, server, doing
<1>6. CASE World
  BY <1>6 DEF World, ServerAway, ServerBack, ServerForgets, Lapse, Reap,
     server, doing
<1>7. CASE UNCHANGED vars
  BY <1>7 DEF vars, server, doing
<1>8. QED
  BY <1>1, <1>2, <1>3, <1>4, <1>5, <1>6, <1>7 DEF Next, World

LEMMA StepLeases == LInv /\ [Next]_vars => LInv'
<1> SUFFICES ASSUME LInv, [Next]_vars PROVE LInv'
  OBVIOUS
<1>1. ASSUME NEW r \in Runners, Drops(r) PROVE GrantedBefore' /\ OneRunnerPerLease'
  BY <1>1 DEF Drops, LInv, TInv, TypeOK, GrantedBefore, OneRunnerPerLease
<1>2. ASSUME NEW r \in Runners, Takes(r) PROVE GrantedBefore' /\ OneRunnerPerLease'
  BY <1>2 DEF Takes, LInv, TInv, TypeOK, GrantedBefore, OneRunnerPerLease
<1>3. ASSUME NEW r \in Runners, NEW w \in Work, ServeClaim(r, w)
      PROVE  GrantedBefore' /\ OneRunnerPerLease'
  <2> DEFINE new == [work |-> w, no |-> leaseNo[w] + 1]
  <2>1. /\ hand' = hand /\ grant' = [grant EXCEPT ![r] = new]
        /\ leaseNo' = [leaseNo EXCEPT ![w] = @ + 1]
    BY <1>3 DEF ServeClaim, doing
  <2>2. ASSUME NEW s \in Runners, NEW l \in {hand[s], grant[s]} PROVE l # new
    <3>1. new \in Lease
      BY DEF LInv, TInv, TypeOK, Lease
    <3>2. l # NoLease => l.no <= leaseNo[l.work]
      BY DEF LInv, GrantedBefore
    <3>3. leaseNo[w] \in Nat
      BY DEF LInv, TInv, TypeOK
    <3>4. QED
      BY <3>1, <3>2, <3>3, WorkAssumption
  <2>3. GrantedBefore'
    BY <2>1 DEF LInv, TInv, TypeOK, GrantedBefore, Lease
  <2>4. OneRunnerPerLease'
    BY <2>1, <2>2 DEF LInv, TInv, TypeOK, OneRunnerPerLease
  <2>5. QED
    BY <2>3, <2>4
<1>4. ASSUME UNCHANGED <<hand, grant, leaseNo>>
      PROVE  GrantedBefore' /\ OneRunnerPerLease'
  BY <1>4 DEF LInv, GrantedBefore, OneRunnerPerLease
<1>5. QED
  BY <1>1, <1>2, <1>3, <1>4, LeaseMoves, StepTypes DEF LInv

LEMMA InitLeases == Init => LInv
  BY InitTypes DEF Init, LInv, GrantedBefore, OneRunnerPerLease

-----------------------------------------------------------------------------
(* Nothing is attached after the report                                    *)

\* Every step keeps a grant and the answer that carries it together.
LEMMA StepCarried ==
  ASSUME TInv, GrantCarried, [Next]_vars
  PROVE  GrantCarried'
<1>1. ASSUME NEW r \in Runners, Prompt(r) PROVE GrantCarried'
  <2>1. CASE Admitted(r)
    BY <2>1 DEF Admitted, At, Goto, GrantCarried, TInv, TypeOK, CallsMatch,
       Silent, Places, server, service, doing, kept
  <2>2. CASE NotAdmitted(r)
    BY <2>2 DEF NotAdmitted, At, Goto, OnlyMoves, GrantCarried, TInv, TypeOK,
       CallsMatch, Silent, Places, server, service, doing, kept
  <2>3. CASE AskForJob(r)
    BY <2>3 DEF AskForJob, At, Heard, Call, Resume, Goto, OnlyMoves,
       GrantCarried, TInv, TypeOK, CallsMatch, Silent, Places, server,
       service, doing, kept
  <2>4. CASE LeaveLoop(r)
    BY <2>4 DEF LeaveLoop, At, Heard, Resume, Goto, OnlyMoves, GrantCarried,
       TInv, TypeOK, CallsMatch, Silent, Places, server, service, doing, kept
  <2>5. CASE TakeWork(r)
    BY <2>5 DEF TakeWork, At, Heard, Resume, Goto, GrantCarried, TInv, TypeOK,
       CallsMatch, Silent, Places, server, service, doing, kept
  <2>6. CASE NoJob(r)
    BY <2>6 DEF NoJob, At, Heard, Call, Resume, Goto, OnlyMoves, GrantCarried,
       TInv, TypeOK, CallsMatch, Silent, Places, server, service, doing, kept
  <2>7. CASE NoTrial(r)
    BY <2>7 DEF NoTrial, At, Heard, Resume, Goto, OnlyMoves, GrantCarried,
       TInv, TypeOK, CallsMatch, Silent, Places, server, service, doing, kept
  <2>8. CASE ClaimFailed(r)
    BY <2>8 DEF ClaimFailed, At, Heard, Resume, Goto, OnlyMoves, GrantCarried,
       TInv, TypeOK, CallsMatch, Silent, Places, server, service, doing, kept
  <2>9. CASE SettledWithJob(r)
    BY <2>9 DEF SettledWithJob, At, Heard, Call, Goto, GrantCarried, TInv,
       TypeOK, CallsMatch, Silent, Places, server, service, doing, kept
  <2>10. CASE SettledWithout(r)
    BY <2>10 DEF SettledWithout, At, Heard, Resume, Goto, OnlyMoves,
       GrantCarried, TInv, TypeOK, CallsMatch, Silent, Places, server,
       service, doing, kept
  <2>11. CASE GivenBack(r)
    BY <2>11 DEF GivenBack, LetGo, DropKeeper, At, Resume, Goto, GrantCarried,
       TInv, TypeOK, CallsMatch, Silent, Places, server, service, doing, kept
  <2>12. CASE SendAttachment(r)
    BY <2>12 DEF SendAttachment, At, OnlyMoves, GrantCarried, TInv, TypeOK,
       CallsMatch, Silent, Places, server, service, doing, kept
  <2>13. CASE AttachmentAnswered(r)
    BY <2>13 DEF AttachmentAnswered, At, Resume, Goto, GrantCarried, TInv,
       TypeOK, CallsMatch, Silent, Places, server, service, doing, kept
  <2>14. CASE StartReport(r)
    BY <2>14 DEF StartReport, At, Heard, Call, Goto, OnlyMoves, GrantCarried,
       TInv, TypeOK, CallsMatch, Silent, Places, server, service, doing, kept
  <2>15. CASE Reported(r)
    BY <2>15 DEF Reported, LetGo, DropKeeper, At, Resume, Goto, GrantCarried,
       TInv, TypeOK, CallsMatch, Silent, Places, server, service, doing, kept
  <2>16. CASE ReportHeld(r)
    BY <2>16 DEF ReportHeld, At, Heard, Resume, Goto, OnlyMoves, GrantCarried,
       TInv, TypeOK, CallsMatch, Silent, Places, server, service, doing, kept
  <2>17. CASE ReportGivenUp(r)
    BY <2>17 DEF ReportGivenUp, LetGo, DropKeeper, At, Resume, Goto,
       GrantCarried, TInv, TypeOK, CallsMatch, Silent, Places, server,
       service, doing, kept
  <2>18. QED
    BY <1>1, <2>1, <2>2, <2>3, <2>4, <2>5, <2>6, <2>7, <2>8, <2>9, <2>10,
       <2>11, <2>12, <2>13, <2>14, <2>15, <2>16, <2>17 DEF Prompt
<1>2. ASSUME NEW r \in Runners, HearsStop(r) PROVE GrantCarried'
  <2>1. CASE StopClaim(r)
    BY <2>1 DEF StopClaim, At, Goto, OnlyMoves, GrantCarried, TInv, TypeOK,
       CallsMatch, Silent, Places, server, service, doing, kept
  <2>2. CASE SettleExpires(r)
    BY <2>2 DEF SettleExpires, At, Resume, Goto, GrantCarried, TInv, TypeOK,
       CallsMatch, Silent, Places, server, service, doing, kept
  <2>3. CASE StopWait(r)
    BY <2>3 DEF StopWait, At, Goto, OnlyMoves, GrantCarried, TInv, TypeOK,
       CallsMatch, Silent, Places, server, service, doing, kept
  <2>4. CASE StopEvaluation(r)
    BY <2>4 DEF StopEvaluation, DropKeeper, At, Call, Goto, GrantCarried,
       TInv, TypeOK, CallsMatch, Silent, Places, server, service, doing, kept
  <2>5. CASE LockStopped(r)
    BY <2>5 DEF LockStopped, LetGo, DropKeeper, At, Resume, Goto,
       GrantCarried, TInv, TypeOK, CallsMatch, Silent, Places, server,
       service, doing, kept
  <2>6. CASE StopHolding(r)
    BY <2>6 DEF StopHolding, LetGo, DropKeeper, At, Resume, Goto,
       GrantCarried, TInv, TypeOK, CallsMatch, Silent, Places, server,
       service, doing, kept
  <2>7. QED
    BY <1>2, <2>1, <2>2, <2>3, <2>4, <2>5, <2>6 DEF HearsStop
<1>3. ASSUME NEW r \in Runners, Timer(r) PROVE GrantCarried'
  <2>1. CASE WaitOver(r)
    BY <2>1 DEF WaitOver, At, Goto, OnlyMoves, GrantCarried, TInv, TypeOK,
       CallsMatch, Silent, Places, server, service, doing, kept
  <2>2. CASE HoldOver(r)
    BY <2>2 DEF HoldOver, At, Heard, Call, Resume, Goto, OnlyMoves,
       GrantCarried, TInv, TypeOK, CallsMatch, Silent, Places, server,
       service, doing, kept
  <2>3. CASE DeadlinePasses(r)
    BY <2>3 DEF DeadlinePasses, At, GrantCarried, TInv, TypeOK, CallsMatch,
       Silent, Places, server, service, doing, kept
  <2>4. QED
    BY <1>3, <2>1, <2>2, <2>3 DEF Timer
<1>4. ASSUME NEW r \in Runners, Evaluates(r) PROVE GrantCarried'
  <2>1. CASE Fetched(r)
    BY <2>1 DEF Fetched, At, Goto, OnlyMoves, GrantCarried, TInv, TypeOK,
       CallsMatch, Silent, Places, server, service, doing, kept
  <2>2. CASE FetchAway(r)
    BY <2>2 DEF FetchAway, LetGo, DropKeeper, At, Resume, Goto, GrantCarried,
       TInv, TypeOK, CallsMatch, Silent, Places, server, service, doing, kept
  <2>3. CASE FetchLost(r)
    BY <2>3 DEF FetchLost, DropKeeper, At, Resume, Goto, GrantCarried, TInv,
       TypeOK, CallsMatch, Silent, Places, server, service, doing, kept
  <2>4. CASE FetchRefused(r)
    BY <2>4 DEF FetchRefused, Conclude, At, Call, Goto, GrantCarried, TInv,
       TypeOK, CallsMatch, Silent, Places, server, service, doing, kept
  <2>5. CASE MachineryBroke(r)
    BY <2>5 DEF MachineryBroke, Conclude, At, Call, Goto, GrantCarried, TInv,
       TypeOK, CallsMatch, Silent, Places, server, service, doing, kept
  <2>6. CASE Judged(r)
    BY <2>6 DEF Judged, Conclude, At, Call, Goto, GrantCarried, TInv, TypeOK,
       CallsMatch, Silent, Places, server, service, doing, kept
  <2>7. QED
    BY <1>4, <2>1, <2>2, <2>3, <2>4, <2>5, <2>6 DEF Evaluates
<1>5. ASSUME NEW r \in Runners, Renews(r) PROVE GrantCarried'
  <2>1. CASE SendRenewal(r)
    BY <2>1 DEF SendRenewal, GrantCarried, TInv, TypeOK, CallsMatch, Silent,
       Places, server, service, doing, kept
  <2>2. CASE \E m \in renewals : LandRenewal(m)
    BY <2>2 DEF LandRenewal, DropKeeper, GrantCarried, TInv, TypeOK,
       CallsMatch, Silent, Places, server, service, doing, kept
  <2>3. CASE \E m \in renewals : LoseRenewal(m)
    BY <2>3 DEF LoseRenewal, GrantCarried, TInv, TypeOK, CallsMatch, Silent,
       Places, server, service, doing, kept
  <2>4. QED
    BY <1>5, <2>1, <2>2, <2>3 DEF Renews
<1>6. ASSUME NEW r \in Runners, Serve(r) PROVE GrantCarried'
  <2>1. CASE ServeRefused(r)
    BY <2>1 DEF ServeRefused, Heard, At, GrantCarried, TInv, TypeOK,
       CallsMatch, Silent, Places, server, service, doing, kept
  <2>2. CASE ServeEmpty(r)
    BY <2>2 DEF ServeEmpty, Heard, At, GrantCarried, TInv, TypeOK, CallsMatch,
       Silent, Places, server, service, doing, kept
  <2>3. CASE ServeStale(r)
    BY <2>3 DEF ServeStale, Heard, At, GrantCarried, TInv, TypeOK, CallsMatch,
       Silent, Places, server, service, doing, kept
  <2>4. CASE ServeRelease(r)
    BY <2>4 DEF ServeRelease, Heard, At, Current, GrantCarried, TInv, TypeOK,
       CallsMatch, Silent, Places, server, service, doing, kept
  <2>5. CASE ServeAttach(r)
    BY <2>5 DEF ServeAttach, Heard, At, GrantCarried, TInv, TypeOK,
       CallsMatch, Silent, Places, server, service, doing, kept
  <2>6. CASE ServeReport(r)
    BY <2>6 DEF ServeReport, Heard, At, Admits, Current, GrantCarried, TInv,
       TypeOK, CallsMatch, Silent, Places, server, service, doing, kept
  <2>7. CASE \E w \in Work : ServeClaim(r, w)
    <3> PICK w \in Work : ServeClaim(r, w)
      BY <2>7
    <3>1. [work |-> w, no |-> leaseNo[w] + 1] \in Lease
      BY DEF TInv, TypeOK, Lease
    <3>2. grant'[r] # NoLease /\ wire'[r] = "ok" /\ pc'[r] \in {"claiming", "settling", "asking"}
      BY <3>1, WorkAssumption DEF ServeClaim, At, TInv, TypeOK
    <3>3. \A s \in Runners \ {r} :
            grant'[s] = grant[s] /\ wire'[s] = wire[s] /\ pc'[s] = pc[s]
      BY DEF ServeClaim, TInv, TypeOK
    <3>4. QED
      BY <3>2, <3>3 DEF GrantCarried
  <2>8. QED
    BY <1>6, <2>1, <2>2, <2>3, <2>4, <2>5, <2>6, <2>7 DEF Serve
<1>7. ASSUME NEW r \in Runners, Faults(r) PROVE GrantCarried'
  <2>1. CASE LoseCall(r)
    BY <2>1 DEF LoseCall, GrantCarried, TInv, TypeOK, CallsMatch, Silent,
       Places, server, service, doing, kept
  <2>2. CASE Tell(r)
    BY <2>2 DEF Tell, At, GrantCarried, TInv, TypeOK, CallsMatch, Silent,
       Places, server, service, doing, kept
  <2>3. CASE Crash(r)
    BY <2>3 DEF Crash, DropKeeper, Resume, Goto, GrantCarried, TInv, TypeOK,
       CallsMatch, Silent, Places, server, service, doing, kept
  <2>4. CASE Restart(r)
    BY <2>4 DEF Restart, At, Goto, GrantCarried, TInv, TypeOK, CallsMatch,
       Silent, Places, server, service, doing, kept
  <2>5. CASE Revoke(r)
    BY <2>5 DEF Revoke, GrantCarried, TInv, TypeOK, CallsMatch, Silent,
       Places, server, service, doing, kept
  <2>6. QED
    BY <1>7, <2>1, <2>2, <2>3, <2>4, <2>5 DEF Faults
<1>8. CASE World
  <2>1. CASE ServerAway
    BY <2>1 DEF ServerAway, GrantCarried, TInv, TypeOK, CallsMatch, Silent,
       Places, server, service, doing, kept
  <2>2. CASE ServerBack
    BY <2>2 DEF ServerBack, GrantCarried, TInv, TypeOK, CallsMatch, Silent,
       Places, server, service, doing, kept
  <2>3. CASE ServerForgets
    BY <2>3 DEF ServerForgets, GrantCarried, TInv, TypeOK, CallsMatch, Silent,
       Places, server, service, doing, kept
  <2>4. CASE \E w \in Work : Lapse(w)
    BY <2>4 DEF Lapse, GrantCarried, TInv, TypeOK, CallsMatch, Silent, Places,
       server, service, doing, kept
  <2>5. CASE \E w \in Work : Reap(w)
    BY <2>5 DEF Reap, GrantCarried, TInv, TypeOK, CallsMatch, Silent, Places,
       server, service, doing, kept
  <2>6. QED
    BY <1>8, <2>1, <2>2, <2>3, <2>4, <2>5 DEF World
<1>9. CASE UNCHANGED vars
  BY <1>9 DEF vars, GrantCarried, TInv, TypeOK, CallsMatch, Silent, Places,
     server, service, doing, kept
<1>10. QED
  BY <1>1, <1>2, <1>3, <1>4, <1>5, <1>6, <1>7, <1>8, <1>9 DEF Next, World

\* Every step that starts on work has a lease to work under.
LEMMA StepHand ==
  ASSUME TInv, GrantCarried, HandThere, [Next]_vars
  PROVE  HandThere'
<1>1. ASSUME NEW r \in Runners, Prompt(r) PROVE HandThere'
  <2>1. CASE Admitted(r)
    BY <2>1 DEF Admitted, At, Goto, HandThere, Handling, GrantCarried, Heard,
       TInv, TypeOK, server, service, doing, kept
  <2>2. CASE NotAdmitted(r)
    BY <2>2 DEF NotAdmitted, At, Goto, OnlyMoves, HandThere, Handling,
       GrantCarried, Heard, TInv, TypeOK, server, service, doing, kept
  <2>3. CASE AskForJob(r)
    BY <2>3 DEF AskForJob, At, Heard, Call, Resume, Goto, OnlyMoves,
       HandThere, Handling, GrantCarried, TInv, TypeOK, server, service,
       doing, kept
  <2>4. CASE LeaveLoop(r)
    BY <2>4 DEF LeaveLoop, At, Heard, Resume, Goto, OnlyMoves, HandThere,
       Handling, GrantCarried, TInv, TypeOK, server, service, doing, kept
  <2>5. CASE TakeWork(r)
    BY <2>5 DEF TakeWork, At, Heard, Resume, Goto, HandThere, Handling,
       GrantCarried, TInv, TypeOK, server, service, doing, kept
  <2>6. CASE NoJob(r)
    BY <2>6 DEF NoJob, At, Heard, Call, Resume, Goto, OnlyMoves, HandThere,
       Handling, GrantCarried, TInv, TypeOK, server, service, doing, kept
  <2>7. CASE NoTrial(r)
    BY <2>7 DEF NoTrial, At, Heard, Resume, Goto, OnlyMoves, HandThere,
       Handling, GrantCarried, TInv, TypeOK, server, service, doing, kept
  <2>8. CASE ClaimFailed(r)
    BY <2>8 DEF ClaimFailed, At, Heard, Resume, Goto, OnlyMoves, HandThere,
       Handling, GrantCarried, TInv, TypeOK, server, service, doing, kept
  <2>9. CASE SettledWithJob(r)
    BY <2>9 DEF SettledWithJob, At, Heard, Call, Goto, HandThere, Handling,
       GrantCarried, TInv, TypeOK, server, service, doing, kept
  <2>10. CASE SettledWithout(r)
    BY <2>10 DEF SettledWithout, At, Heard, Resume, Goto, OnlyMoves,
       HandThere, Handling, GrantCarried, TInv, TypeOK, server, service,
       doing, kept
  <2>11. CASE GivenBack(r)
    BY <2>11 DEF GivenBack, LetGo, DropKeeper, At, Resume, Goto, HandThere,
       Handling, GrantCarried, Heard, TInv, TypeOK, server, service, doing,
       kept
  <2>12. CASE SendAttachment(r)
    BY <2>12 DEF SendAttachment, At, OnlyMoves, HandThere, Handling,
       GrantCarried, Heard, TInv, TypeOK, server, service, doing, kept
  <2>13. CASE AttachmentAnswered(r)
    BY <2>13 DEF AttachmentAnswered, At, Resume, Goto, HandThere, Handling,
       GrantCarried, Heard, TInv, TypeOK, server, service, doing, kept
  <2>14. CASE StartReport(r)
    BY <2>14 DEF StartReport, At, Heard, Call, Goto, OnlyMoves, HandThere,
       Handling, GrantCarried, TInv, TypeOK, server, service, doing, kept
  <2>15. CASE Reported(r)
    BY <2>15 DEF Reported, LetGo, DropKeeper, At, Resume, Goto, HandThere,
       Handling, GrantCarried, Heard, TInv, TypeOK, server, service, doing,
       kept
  <2>16. CASE ReportHeld(r)
    BY <2>16 DEF ReportHeld, At, Heard, Resume, Goto, OnlyMoves, HandThere,
       Handling, GrantCarried, TInv, TypeOK, server, service, doing, kept
  <2>17. CASE ReportGivenUp(r)
    BY <2>17 DEF ReportGivenUp, LetGo, DropKeeper, At, Resume, Goto,
       HandThere, Handling, GrantCarried, Heard, TInv, TypeOK, server,
       service, doing, kept
  <2>18. QED
    BY <1>1, <2>1, <2>2, <2>3, <2>4, <2>5, <2>6, <2>7, <2>8, <2>9, <2>10,
       <2>11, <2>12, <2>13, <2>14, <2>15, <2>16, <2>17 DEF Prompt
<1>2. ASSUME NEW r \in Runners, HearsStop(r) PROVE HandThere'
  <2>1. CASE StopClaim(r)
    BY <2>1 DEF StopClaim, At, Goto, OnlyMoves, HandThere, Handling,
       GrantCarried, Heard, TInv, TypeOK, server, service, doing, kept
  <2>2. CASE SettleExpires(r)
    BY <2>2 DEF SettleExpires, At, Resume, Goto, HandThere, Handling,
       GrantCarried, Heard, TInv, TypeOK, server, service, doing, kept
  <2>3. CASE StopWait(r)
    BY <2>3 DEF StopWait, At, Goto, OnlyMoves, HandThere, Handling,
       GrantCarried, Heard, TInv, TypeOK, server, service, doing, kept
  <2>4. CASE StopEvaluation(r)
    BY <2>4 DEF StopEvaluation, DropKeeper, At, Call, Goto, HandThere,
       Handling, GrantCarried, Heard, TInv, TypeOK, server, service, doing,
       kept
  <2>5. CASE LockStopped(r)
    BY <2>5 DEF LockStopped, LetGo, DropKeeper, At, Resume, Goto, HandThere,
       Handling, GrantCarried, Heard, TInv, TypeOK, server, service, doing,
       kept
  <2>6. CASE StopHolding(r)
    BY <2>6 DEF StopHolding, LetGo, DropKeeper, At, Resume, Goto, HandThere,
       Handling, GrantCarried, Heard, TInv, TypeOK, server, service, doing,
       kept
  <2>7. QED
    BY <1>2, <2>1, <2>2, <2>3, <2>4, <2>5, <2>6 DEF HearsStop
<1>3. ASSUME NEW r \in Runners, Timer(r) PROVE HandThere'
  <2>1. CASE WaitOver(r)
    BY <2>1 DEF WaitOver, At, Goto, OnlyMoves, HandThere, Handling,
       GrantCarried, Heard, TInv, TypeOK, server, service, doing, kept
  <2>2. CASE HoldOver(r)
    BY <2>2 DEF HoldOver, At, Heard, Call, Resume, Goto, OnlyMoves, HandThere,
       Handling, GrantCarried, TInv, TypeOK, server, service, doing, kept
  <2>3. CASE DeadlinePasses(r)
    BY <2>3 DEF DeadlinePasses, At, HandThere, Handling, GrantCarried, Heard,
       TInv, TypeOK, server, service, doing, kept
  <2>4. QED
    BY <1>3, <2>1, <2>2, <2>3 DEF Timer
<1>4. ASSUME NEW r \in Runners, Evaluates(r) PROVE HandThere'
  <2>1. CASE Fetched(r)
    BY <2>1 DEF Fetched, At, Goto, OnlyMoves, HandThere, Handling,
       GrantCarried, Heard, TInv, TypeOK, server, service, doing, kept
  <2>2. CASE FetchAway(r)
    BY <2>2 DEF FetchAway, LetGo, DropKeeper, At, Resume, Goto, HandThere,
       Handling, GrantCarried, Heard, TInv, TypeOK, server, service, doing,
       kept
  <2>3. CASE FetchLost(r)
    BY <2>3 DEF FetchLost, DropKeeper, At, Resume, Goto, HandThere, Handling,
       GrantCarried, Heard, TInv, TypeOK, server, service, doing, kept
  <2>4. CASE FetchRefused(r)
    BY <2>4 DEF FetchRefused, Conclude, At, Call, Goto, HandThere, Handling,
       GrantCarried, Heard, TInv, TypeOK, server, service, doing, kept
  <2>5. CASE MachineryBroke(r)
    BY <2>5 DEF MachineryBroke, Conclude, At, Call, Goto, HandThere, Handling,
       GrantCarried, Heard, TInv, TypeOK, server, service, doing, kept
  <2>6. CASE Judged(r)
    BY <2>6 DEF Judged, Conclude, At, Call, Goto, HandThere, Handling,
       GrantCarried, Heard, TInv, TypeOK, server, service, doing, kept
  <2>7. QED
    BY <1>4, <2>1, <2>2, <2>3, <2>4, <2>5, <2>6 DEF Evaluates
<1>5. ASSUME NEW r \in Runners, Renews(r) PROVE HandThere'
  <2>1. CASE SendRenewal(r)
    BY <2>1 DEF SendRenewal, HandThere, Handling, GrantCarried, Heard, TInv,
       TypeOK, server, service, doing, kept
  <2>2. CASE \E m \in renewals : LandRenewal(m)
    BY <2>2 DEF LandRenewal, DropKeeper, HandThere, Handling, GrantCarried,
       Heard, TInv, TypeOK, server, service, doing, kept
  <2>3. CASE \E m \in renewals : LoseRenewal(m)
    BY <2>3 DEF LoseRenewal, HandThere, Handling, GrantCarried, Heard, TInv,
       TypeOK, server, service, doing, kept
  <2>4. QED
    BY <1>5, <2>1, <2>2, <2>3 DEF Renews
<1>6. ASSUME NEW r \in Runners, Serve(r) PROVE HandThere'
  <2>1. CASE ServeRefused(r)
    BY <2>1 DEF ServeRefused, Heard, At, HandThere, Handling, GrantCarried,
       TInv, TypeOK, server, service, doing, kept
  <2>2. CASE ServeEmpty(r)
    BY <2>2 DEF ServeEmpty, Heard, At, HandThere, Handling, GrantCarried,
       TInv, TypeOK, server, service, doing, kept
  <2>3. CASE ServeStale(r)
    BY <2>3 DEF ServeStale, Heard, At, HandThere, Handling, GrantCarried,
       TInv, TypeOK, server, service, doing, kept
  <2>4. CASE ServeRelease(r)
    BY <2>4 DEF ServeRelease, Heard, At, Current, HandThere, Handling,
       GrantCarried, TInv, TypeOK, server, service, doing, kept
  <2>5. CASE ServeAttach(r)
    BY <2>5 DEF ServeAttach, Heard, At, HandThere, Handling, GrantCarried,
       TInv, TypeOK, server, service, doing, kept
  <2>6. CASE ServeReport(r)
    BY <2>6 DEF ServeReport, Heard, At, Admits, Current, HandThere, Handling,
       GrantCarried, TInv, TypeOK, server, service, doing, kept
  <2>7. CASE \E w \in Work : ServeClaim(r, w)
    BY <2>7 DEF ServeClaim, Heard, At, HandThere, Handling, GrantCarried,
       TInv, TypeOK, server, service, doing, kept
  <2>8. QED
    BY <1>6, <2>1, <2>2, <2>3, <2>4, <2>5, <2>6, <2>7 DEF Serve
<1>7. ASSUME NEW r \in Runners, Faults(r) PROVE HandThere'
  <2>1. CASE LoseCall(r)
    BY <2>1 DEF LoseCall, HandThere, Handling, GrantCarried, Heard, TInv,
       TypeOK, server, service, doing, kept
  <2>2. CASE Tell(r)
    BY <2>2 DEF Tell, At, HandThere, Handling, GrantCarried, Heard, TInv,
       TypeOK, server, service, doing, kept
  <2>3. CASE Crash(r)
    BY <2>3 DEF Crash, DropKeeper, Resume, Goto, HandThere, Handling,
       GrantCarried, Heard, TInv, TypeOK, server, service, doing, kept
  <2>4. CASE Restart(r)
    BY <2>4 DEF Restart, At, Goto, HandThere, Handling, GrantCarried, Heard,
       TInv, TypeOK, server, service, doing, kept
  <2>5. CASE Revoke(r)
    BY <2>5 DEF Revoke, HandThere, Handling, GrantCarried, Heard, TInv,
       TypeOK, server, service, doing, kept
  <2>6. QED
    BY <1>7, <2>1, <2>2, <2>3, <2>4, <2>5 DEF Faults
<1>8. CASE World
  <2>1. CASE ServerAway
    BY <2>1 DEF ServerAway, HandThere, Handling, GrantCarried, Heard, TInv,
       TypeOK, server, service, doing, kept
  <2>2. CASE ServerBack
    BY <2>2 DEF ServerBack, HandThere, Handling, GrantCarried, Heard, TInv,
       TypeOK, server, service, doing, kept
  <2>3. CASE ServerForgets
    BY <2>3 DEF ServerForgets, HandThere, Handling, GrantCarried, Heard, TInv,
       TypeOK, server, service, doing, kept
  <2>4. CASE \E w \in Work : Lapse(w)
    BY <2>4 DEF Lapse, HandThere, Handling, GrantCarried, Heard, TInv, TypeOK,
       server, service, doing, kept
  <2>5. CASE \E w \in Work : Reap(w)
    BY <2>5 DEF Reap, HandThere, Handling, GrantCarried, Heard, TInv, TypeOK,
       server, service, doing, kept
  <2>6. QED
    BY <1>8, <2>1, <2>2, <2>3, <2>4, <2>5 DEF World
<1>9. CASE UNCHANGED vars
  BY <1>9 DEF vars, HandThere, Handling, GrantCarried, Heard, TInv, TypeOK,
     server, service, doing, kept
<1>10. QED
  BY <1>1, <1>2, <1>3, <1>4, <1>5, <1>6, <1>7, <1>8, <1>9 DEF Next, World

LEMMA StepDone ==
  ASSUME TInv, RecordedIsDone, [Next]_vars
  PROVE  RecordedIsDone'
<1>1. ASSUME NEW r \in Runners, ServeRelease(r) \/ ServeReport(r) PROVE RecordedIsDone'
  BY <1>1 DEF ServeRelease, ServeReport, Current, RecordedIsDone, TInv, TypeOK
<1>2. ASSUME NEW r \in Runners, NEW w \in Work, ServeClaim(r, w) PROVE RecordedIsDone'
  BY <1>2 DEF ServeClaim, RecordedIsDone, TInv, TypeOK
<1>3. ASSUME NEW w \in Work, Reap(w) PROVE RecordedIsDone'
  BY <1>3 DEF Reap, RecordedIsDone, TInv, TypeOK
<1>4. ASSUME UNCHANGED <<queue, recorded>> PROVE RecordedIsDone'
  BY <1>4 DEF RecordedIsDone
<1>5. QED
  BY <1>1, <1>2, <1>3, <1>4, QueueMoves

\* Every step leaves what is before its report without an answer.
LEMMA StepEarly ==
  ASSUME AInv, [Next]_vars
  PROVE  NothingEarly'
<1>1. ASSUME NEW r \in Runners, Prompt(r) PROVE NothingEarly'
  <2>1. CASE Admitted(r)
    BY <2>1 DEF Admitted, At, Goto, NothingEarly, Unanswered, AInv, LInv,
       TInv, TypeOK, server, service, doing, kept
  <2>2. CASE NotAdmitted(r)
    BY <2>2 DEF NotAdmitted, At, Goto, OnlyMoves, NothingEarly, Unanswered,
       AInv, LInv, TInv, TypeOK, server, service, doing, kept
  <2>3. CASE AskForJob(r)
    BY <2>3 DEF AskForJob, At, Heard, Call, Resume, Goto, OnlyMoves,
       NothingEarly, Unanswered, AInv, LInv, TInv, TypeOK, server, service,
       doing, kept
  <2>4. CASE LeaveLoop(r)
    BY <2>4 DEF LeaveLoop, At, Heard, Resume, Goto, OnlyMoves, NothingEarly,
       Unanswered, AInv, LInv, TInv, TypeOK, server, service, doing, kept
  <2>5. CASE TakeWork(r)
    BY <2>5 DEF TakeWork, At, Heard, Resume, Goto, GrantCarried, NothingEarly,
       Unanswered, AInv, LInv, TInv, TypeOK, server, service, doing, kept
  <2>6. CASE NoJob(r)
    BY <2>6 DEF NoJob, At, Heard, Call, Resume, Goto, OnlyMoves, NothingEarly,
       Unanswered, AInv, LInv, TInv, TypeOK, server, service, doing, kept
  <2>7. CASE NoTrial(r)
    BY <2>7 DEF NoTrial, At, Heard, Resume, Goto, OnlyMoves, NothingEarly,
       Unanswered, AInv, LInv, TInv, TypeOK, server, service, doing, kept
  <2>8. CASE ClaimFailed(r)
    BY <2>8 DEF ClaimFailed, At, Heard, Resume, Goto, OnlyMoves, NothingEarly,
       Unanswered, AInv, LInv, TInv, TypeOK, server, service, doing, kept
  <2>9. CASE SettledWithJob(r)
    BY <2>9 DEF SettledWithJob, At, Heard, Call, Goto, NothingEarly,
       Unanswered, AInv, LInv, TInv, TypeOK, server, service, doing, kept
  <2>10. CASE SettledWithout(r)
    BY <2>10 DEF SettledWithout, At, Heard, Resume, Goto, OnlyMoves,
       NothingEarly, Unanswered, AInv, LInv, TInv, TypeOK, server, service,
       doing, kept
  <2>11. CASE GivenBack(r)
    BY <2>11 DEF GivenBack, LetGo, DropKeeper, At, Resume, Goto, NothingEarly,
       Unanswered, AInv, LInv, TInv, TypeOK, server, service, doing, kept
  <2>12. CASE SendAttachment(r)
    BY <2>12 DEF SendAttachment, At, OnlyMoves, NothingEarly, Unanswered,
       AInv, LInv, TInv, TypeOK, server, service, doing, kept
  <2>13. CASE AttachmentAnswered(r)
    BY <2>13 DEF AttachmentAnswered, At, Resume, Goto, NothingEarly,
       Unanswered, AInv, LInv, TInv, TypeOK, server, service, doing, kept
  <2>14. CASE StartReport(r)
    BY <2>14 DEF StartReport, At, Heard, Call, Goto, OnlyMoves, NothingEarly,
       Unanswered, AInv, LInv, TInv, TypeOK, server, service, doing, kept
  <2>15. CASE Reported(r)
    BY <2>15 DEF Reported, LetGo, DropKeeper, At, Resume, Goto, NothingEarly,
       Unanswered, AInv, LInv, TInv, TypeOK, server, service, doing, kept
  <2>16. CASE ReportHeld(r)
    BY <2>16 DEF ReportHeld, At, Heard, Resume, Goto, OnlyMoves, NothingEarly,
       Unanswered, AInv, LInv, TInv, TypeOK, server, service, doing, kept
  <2>17. CASE ReportGivenUp(r)
    BY <2>17 DEF ReportGivenUp, LetGo, DropKeeper, At, Resume, Goto,
       NothingEarly, Unanswered, AInv, LInv, TInv, TypeOK, server, service,
       doing, kept
  <2>18. QED
    BY <1>1, <2>1, <2>2, <2>3, <2>4, <2>5, <2>6, <2>7, <2>8, <2>9, <2>10,
       <2>11, <2>12, <2>13, <2>14, <2>15, <2>16, <2>17 DEF Prompt
<1>2. ASSUME NEW r \in Runners, HearsStop(r) PROVE NothingEarly'
  <2>1. CASE StopClaim(r)
    BY <2>1 DEF StopClaim, At, Goto, OnlyMoves, NothingEarly, Unanswered,
       AInv, LInv, TInv, TypeOK, server, service, doing, kept
  <2>2. CASE SettleExpires(r)
    BY <2>2 DEF SettleExpires, At, Resume, Goto, NothingEarly, Unanswered,
       AInv, LInv, TInv, TypeOK, server, service, doing, kept
  <2>3. CASE StopWait(r)
    BY <2>3 DEF StopWait, At, Goto, OnlyMoves, NothingEarly, Unanswered, AInv,
       LInv, TInv, TypeOK, server, service, doing, kept
  <2>4. CASE StopEvaluation(r)
    BY <2>4 DEF StopEvaluation, DropKeeper, At, Call, Goto, NothingEarly,
       Unanswered, AInv, LInv, TInv, TypeOK, server, service, doing, kept
  <2>5. CASE LockStopped(r)
    BY <2>5 DEF LockStopped, LetGo, DropKeeper, At, Resume, Goto,
       NothingEarly, Unanswered, AInv, LInv, TInv, TypeOK, server, service,
       doing, kept
  <2>6. CASE StopHolding(r)
    BY <2>6 DEF StopHolding, LetGo, DropKeeper, At, Resume, Goto,
       NothingEarly, Unanswered, AInv, LInv, TInv, TypeOK, server, service,
       doing, kept
  <2>7. QED
    BY <1>2, <2>1, <2>2, <2>3, <2>4, <2>5, <2>6 DEF HearsStop
<1>3. ASSUME NEW r \in Runners, Timer(r) PROVE NothingEarly'
  <2>1. CASE WaitOver(r)
    BY <2>1 DEF WaitOver, At, Goto, OnlyMoves, NothingEarly, Unanswered, AInv,
       LInv, TInv, TypeOK, server, service, doing, kept
  <2>2. CASE HoldOver(r)
    BY <2>2 DEF HoldOver, At, Heard, Call, Resume, Goto, OnlyMoves,
       NothingEarly, Unanswered, AInv, LInv, TInv, TypeOK, server, service,
       doing, kept
  <2>3. CASE DeadlinePasses(r)
    BY <2>3 DEF DeadlinePasses, At, NothingEarly, Unanswered, AInv, LInv,
       TInv, TypeOK, server, service, doing, kept
  <2>4. QED
    BY <1>3, <2>1, <2>2, <2>3 DEF Timer
<1>4. ASSUME NEW r \in Runners, Evaluates(r) PROVE NothingEarly'
  <2>1. CASE Fetched(r)
    BY <2>1 DEF Fetched, At, Goto, OnlyMoves, NothingEarly, Unanswered, AInv,
       LInv, TInv, TypeOK, server, service, doing, kept
  <2>2. CASE FetchAway(r)
    BY <2>2 DEF FetchAway, LetGo, DropKeeper, At, Resume, Goto, NothingEarly,
       Unanswered, AInv, LInv, TInv, TypeOK, server, service, doing, kept
  <2>3. CASE FetchLost(r)
    BY <2>3 DEF FetchLost, DropKeeper, At, Resume, Goto, NothingEarly,
       Unanswered, AInv, LInv, TInv, TypeOK, server, service, doing, kept
  <2>4. CASE FetchRefused(r)
    BY <2>4 DEF FetchRefused, Conclude, At, Call, Goto, NothingEarly,
       Unanswered, AInv, LInv, TInv, TypeOK, server, service, doing, kept
  <2>5. CASE MachineryBroke(r)
    BY <2>5 DEF MachineryBroke, Conclude, At, Call, Goto, NothingEarly,
       Unanswered, AInv, LInv, TInv, TypeOK, server, service, doing, kept
  <2>6. CASE Judged(r)
    BY <2>6 DEF Judged, Conclude, At, Call, Goto, NothingEarly, Unanswered,
       AInv, LInv, TInv, TypeOK, server, service, doing, kept
  <2>7. QED
    BY <1>4, <2>1, <2>2, <2>3, <2>4, <2>5, <2>6 DEF Evaluates
<1>5. ASSUME NEW r \in Runners, Renews(r) PROVE NothingEarly'
  <2>1. CASE SendRenewal(r)
    BY <2>1 DEF SendRenewal, NothingEarly, Unanswered, AInv, LInv, TInv,
       TypeOK, server, service, doing, kept
  <2>2. CASE \E m \in renewals : LandRenewal(m)
    BY <2>2 DEF LandRenewal, DropKeeper, NothingEarly, Unanswered, AInv, LInv,
       TInv, TypeOK, server, service, doing, kept
  <2>3. CASE \E m \in renewals : LoseRenewal(m)
    BY <2>3 DEF LoseRenewal, NothingEarly, Unanswered, AInv, LInv, TInv,
       TypeOK, server, service, doing, kept
  <2>4. QED
    BY <1>5, <2>1, <2>2, <2>3 DEF Renews
<1>6. ASSUME NEW r \in Runners, Serve(r) PROVE NothingEarly'
  <2>1. CASE ServeRefused(r)
    BY <2>1 DEF ServeRefused, Heard, At, NothingEarly, Unanswered, AInv, LInv,
       TInv, TypeOK, server, service, doing, kept
  <2>2. CASE ServeEmpty(r)
    BY <2>2 DEF ServeEmpty, Heard, At, NothingEarly, Unanswered, AInv, LInv,
       TInv, TypeOK, server, service, doing, kept
  <2>3. CASE ServeStale(r)
    BY <2>3 DEF ServeStale, Heard, At, NothingEarly, Unanswered, AInv, LInv,
       TInv, TypeOK, server, service, doing, kept
  <2>4. CASE ServeRelease(r)
    BY <2>4 DEF ServeRelease, Heard, At, Current, NothingEarly, Unanswered,
       AInv, LInv, TInv, TypeOK, server, service, doing, kept
  <2>5. CASE ServeAttach(r)
    BY <2>5 DEF ServeAttach, Heard, At, NothingEarly, Unanswered, AInv, LInv,
       TInv, TypeOK, server, service, doing, kept
  <2>6. CASE ServeReport(r)
    <3>1. /\ recorded' = [recorded EXCEPT ![hand[r].work] = answer[r]]
          /\ UNCHANGED <<leaseNo, pc, grant, hand>>
          /\ pc[r] = "reporting" /\ Current(hand[r])
      BY <2>6 DEF ServeReport, At, doing
    <3>2. grant[r] = NoLease
      BY <3>1 DEF AInv, GrantCarried
    <3>3. ASSUME NEW s \in Runners, NEW l \in Lease, Unanswered(l),
                 \/ l = grant[s]
                 \/ l = hand[s] /\ pc[s] \in {"fetching", "judging", "attaching"}
          PROVE  Unanswered(l)'
      <4>1. l # hand[r]
        <5>1. CASE s = r
          BY <3>1, <3>2, <3>3, <5>1, WorkAssumption
        <5>2. CASE s # r
          BY <3>3, <5>2, WorkAssumption DEF AInv, LInv, OneRunnerPerLease
        <5>3. QED
          BY <5>1, <5>2
      <4>2. CASE l.work = hand[r].work
        BY <3>1, <4>1, <4>2 DEF Current, Unanswered, Lease, AInv, LInv, TInv,
           TypeOK
      <4>3. CASE l.work # hand[r].work
        BY <3>1, <3>3, <4>3 DEF Unanswered, Lease, AInv, LInv, TInv, TypeOK
      <4>4. QED
        BY <4>2, <4>3
    <3>4. QED
      BY <3>1, <3>3 DEF NothingEarly, AInv, LInv, TInv, TypeOK, HandThere,
         Handling, Unanswered
  <2>7. CASE \E w \in Work : ServeClaim(r, w)
    <3> PICK w \in Work : ServeClaim(r, w)
      BY <2>7
    <3> DEFINE new == [work |-> w, no |-> leaseNo[w] + 1]
    <3>1. /\ recorded[w] = "none" /\ UNCHANGED <<recorded, pc, hand>>
          /\ grant' = [grant EXCEPT ![r] = new]
          /\ leaseNo' = [leaseNo EXCEPT ![w] = @ + 1]
      BY DEF ServeClaim, doing, AInv, RecordedIsDone
    <3>2. ASSUME NEW l \in Lease, Unanswered(l) PROVE Unanswered(l)'
      BY <3>1, <3>2 DEF Unanswered, AInv, LInv, TInv, TypeOK, Lease
    <3>3. Unanswered(new)'
      BY <3>1 DEF Unanswered, AInv, LInv, TInv, TypeOK
    <3>4. QED
      BY <3>1, <3>2, <3>3 DEF NothingEarly, AInv, LInv, TInv, TypeOK,
         HandThere, Handling, Unanswered
  <2>8. QED
    BY <1>6, <2>1, <2>2, <2>3, <2>4, <2>5, <2>6, <2>7 DEF Serve
<1>7. ASSUME NEW r \in Runners, Faults(r) PROVE NothingEarly'
  <2>1. CASE LoseCall(r)
    BY <2>1 DEF LoseCall, NothingEarly, Unanswered, AInv, LInv, TInv, TypeOK,
       server, service, doing, kept
  <2>2. CASE Tell(r)
    BY <2>2 DEF Tell, At, NothingEarly, Unanswered, AInv, LInv, TInv, TypeOK,
       server, service, doing, kept
  <2>3. CASE Crash(r)
    BY <2>3 DEF Crash, DropKeeper, Resume, Goto, NothingEarly, Unanswered,
       AInv, LInv, TInv, TypeOK, server, service, doing, kept
  <2>4. CASE Restart(r)
    BY <2>4 DEF Restart, At, Goto, NothingEarly, Unanswered, AInv, LInv, TInv,
       TypeOK, server, service, doing, kept
  <2>5. CASE Revoke(r)
    BY <2>5 DEF Revoke, NothingEarly, Unanswered, AInv, LInv, TInv, TypeOK,
       server, service, doing, kept
  <2>6. QED
    BY <1>7, <2>1, <2>2, <2>3, <2>4, <2>5 DEF Faults
<1>8. CASE World
  <2>1. CASE ServerAway
    BY <2>1 DEF ServerAway, NothingEarly, Unanswered, AInv, LInv, TInv,
       TypeOK, server, service, doing, kept
  <2>2. CASE ServerBack
    BY <2>2 DEF ServerBack, NothingEarly, Unanswered, AInv, LInv, TInv,
       TypeOK, server, service, doing, kept
  <2>3. CASE ServerForgets
    BY <2>3 DEF ServerForgets, NothingEarly, Unanswered, AInv, LInv, TInv,
       TypeOK, server, service, doing, kept
  <2>4. CASE \E w \in Work : Lapse(w)
    BY <2>4 DEF Lapse, NothingEarly, Unanswered, AInv, LInv, TInv, TypeOK,
       server, service, doing, kept
  <2>5. CASE \E w \in Work : Reap(w)
    BY <2>5 DEF Reap, NothingEarly, Unanswered, AInv, LInv, TInv, TypeOK,
       server, service, doing, kept
  <2>6. QED
    BY <1>8, <2>1, <2>2, <2>3, <2>4, <2>5 DEF World
<1>9. CASE UNCHANGED vars
  BY <1>9 DEF vars, NothingEarly, Unanswered, AInv, LInv, TInv, TypeOK,
     server, service, doing, kept
<1>10. QED
  BY <1>1, <1>2, <1>3, <1>4, <1>5, <1>6, <1>7, <1>8, <1>9 DEF Next, World

LEMMA StepAttached == AInv /\ [Next]_vars => AInv'
  BY StepLeases, StepCarried, StepHand, StepDone, StepEarly DEF AInv, LInv

LEMMA InitAttached == Init => AInv
  BY InitLeases DEF Init, AInv, GrantCarried, HandThere, Handling,
     RecordedIsDone, NothingEarly

\* No attachment is ever sent under the lease its report was recorded under:
\* the Server would refuse it, and the log would be lost (run.rs, handle).
THEOREM AttachmentsComeFirst == Spec => []AttachedBeforeReported
<1>1. AInv => AttachedBeforeReported
  BY DEF AInv, NothingEarly, Unanswered, AttachedBeforeReported, At
<1>2. QED
  BY InitAttached, StepAttached, <1>1, PTL DEF Spec

-----------------------------------------------------------------------------
(* An answer is carried until it lands or nobody wants it                  *)

\* What the Server said of a report is still so when it is read.
ReplyStands ==
  \A r \in Runners :
    pc[r] = "reporting" =>
      /\ wire[r] \in {"ok", "stale"} => ~Current(hand[r])
      /\ wire[r] = "unknown" => standing[r] # "known"
      /\ wire[r] = "revoked" => standing[r] = "revoked"

RInv == AInv /\ ReplyStands

\* What is not current stays so: work handed out again has another lease.
LEMMA StaleStays ==
  ASSUME LInv, [Next]_vars, NEW l \in Lease, l.no <= leaseNo[l.work], ~Current(l)
  PROVE  ~Current(l)'
<1>1. l.work \in Work /\ l.no \in Nat /\ leaseNo \in [Work -> Nat] /\ l # NoLease
  BY WorkAssumption DEF Lease, LInv, TInv, TypeOK
<1>2. queue \in [Work -> {"queued", "running", "done", "failed"}]
  BY DEF LInv, TInv, TypeOK
<1>3. queue[l.work] # "running" \/ leaseNo[l.work] # l.no
  BY <1>1 DEF Current
<1>4. ASSUME NEW r \in Runners, NEW w \in Work, ServeClaim(r, w) PROVE ~Current(l)'
  <2>1. queue' = [queue EXCEPT ![w] = "running"] /\ leaseNo' = [leaseNo EXCEPT ![w] = @ + 1]
    BY <1>4 DEF ServeClaim
  <2>2. CASE w = l.work
    <3>1. leaseNo'[l.work] = leaseNo[l.work] + 1
      BY <1>1, <2>1, <2>2
    <3>2. QED
      BY <1>1, <3>1 DEF Current
  <2>3. CASE w # l.work
    BY <1>1, <1>2, <1>3, <2>1, <2>3 DEF Current
  <2>4. QED
    BY <2>2, <2>3
<1>5. CASE ~\E r \in Runners, w \in Work : ServeClaim(r, w)
  <2>1. UNCHANGED leaseNo
    BY <1>5, LeaseMoves DEF LInv, Drops, Takes
  <2>2. queue'[l.work] = "running" => queue[l.work] = "running"
    <3>1. CASE UNCHANGED queue
      BY <3>1
    <3>2. ASSUME NEW r \in Runners, ServeRelease(r) \/ ServeReport(r)
          PROVE  queue'[l.work] = "running" => queue[l.work] = "running"
      BY <1>1, <1>2, <3>2 DEF ServeRelease, ServeReport
    <3>3. ASSUME NEW w \in Work, Reap(w)
          PROVE  queue'[l.work] = "running" => queue[l.work] = "running"
      BY <1>1, <1>2, <3>3 DEF Reap
    <3>4. QED
      BY <1>5, <3>1, <3>2, <3>3, QueueMoves
  <2>3. QED
    BY <1>3, <2>1, <2>2 DEF Current
<1>6. QED
  BY <1>4, <1>5

\* A report that has been answered is the same report until the answer is read.
LEMMA ReplyKept ==
  ASSUME TypeOK, [Next]_vars, NEW r \in Runners, ~Serve(r), pc'[r] = "reporting",
         wire'[r] \in {"ok", "stale", "unknown", "revoked"}
  PROVE  /\ pc[r] = "reporting" /\ wire'[r] = wire[r] /\ hand'[r] = hand[r]
         /\ standing'[r] \in {standing[r], "revoked"} \/ standing[r] = "known"
<1> DEFINE Kept ==
             /\ pc[r] = "reporting" /\ wire'[r] = wire[r] /\ hand'[r] = hand[r]
             /\ standing'[r] \in {standing[r], "revoked"} \/ standing[r] = "known"
<1>1. ASSUME NEW q \in Runners, Prompt(q) \/ HearsStop(q) \/ Timer(q) \/ Evaluates(q) \/ Faults(q)
      PROVE  Kept
  <2>1. CASE Prompt(q)
    <3>1. CASE Admitted(q)
      BY <3>1 DEF Admitted, At, Heard, Call, Resume, Goto, OnlyMoves, LetGo,
         Conclude, DropKeeper, TypeOK, server, service, doing, kept
    <3>2. CASE NotAdmitted(q)
      BY <3>2 DEF NotAdmitted, At, Heard, Call, Resume, Goto, OnlyMoves,
         LetGo, Conclude, DropKeeper, TypeOK, server, service, doing, kept
    <3>3. CASE AskForJob(q)
      BY <3>3 DEF AskForJob, At, Heard, Call, Resume, Goto, OnlyMoves, LetGo,
         Conclude, DropKeeper, TypeOK, server, service, doing, kept
    <3>4. CASE LeaveLoop(q)
      BY <3>4 DEF LeaveLoop, At, Heard, Call, Resume, Goto, OnlyMoves, LetGo,
         Conclude, DropKeeper, TypeOK, server, service, doing, kept
    <3>5. CASE TakeWork(q)
      BY <3>5 DEF TakeWork, At, Heard, Call, Resume, Goto, OnlyMoves, LetGo,
         Conclude, DropKeeper, TypeOK, server, service, doing, kept
    <3>6. CASE NoJob(q)
      BY <3>6 DEF NoJob, At, Heard, Call, Resume, Goto, OnlyMoves, LetGo,
         Conclude, DropKeeper, TypeOK, server, service, doing, kept
    <3>7. CASE NoTrial(q)
      BY <3>7 DEF NoTrial, At, Heard, Call, Resume, Goto, OnlyMoves, LetGo,
         Conclude, DropKeeper, TypeOK, server, service, doing, kept
    <3>8. CASE ClaimFailed(q)
      BY <3>8 DEF ClaimFailed, At, Heard, Call, Resume, Goto, OnlyMoves,
         LetGo, Conclude, DropKeeper, TypeOK, server, service, doing, kept
    <3>9. CASE SettledWithJob(q)
      BY <3>9 DEF SettledWithJob, At, Heard, Call, Resume, Goto, OnlyMoves,
         LetGo, Conclude, DropKeeper, TypeOK, server, service, doing, kept
    <3>10. CASE SettledWithout(q)
      BY <3>10 DEF SettledWithout, At, Heard, Call, Resume, Goto, OnlyMoves,
         LetGo, Conclude, DropKeeper, TypeOK, server, service, doing, kept
    <3>11. CASE GivenBack(q)
      BY <3>11 DEF GivenBack, At, Heard, Call, Resume, Goto, OnlyMoves, LetGo,
         Conclude, DropKeeper, TypeOK, server, service, doing, kept
    <3>12. CASE SendAttachment(q)
      BY <3>12 DEF SendAttachment, At, Heard, Call, Resume, Goto, OnlyMoves,
         LetGo, Conclude, DropKeeper, TypeOK, server, service, doing, kept
    <3>13. CASE AttachmentAnswered(q)
      BY <3>13 DEF AttachmentAnswered, At, Heard, Call, Resume, Goto,
         OnlyMoves, LetGo, Conclude, DropKeeper, TypeOK, server, service,
         doing, kept
    <3>14. CASE StartReport(q)
      BY <3>14 DEF StartReport, At, Heard, Call, Resume, Goto, OnlyMoves,
         LetGo, Conclude, DropKeeper, TypeOK, server, service, doing, kept
    <3>15. CASE Reported(q)
      BY <3>15 DEF Reported, At, Heard, Call, Resume, Goto, OnlyMoves, LetGo,
         Conclude, DropKeeper, TypeOK, server, service, doing, kept
    <3>16. CASE ReportHeld(q)
      BY <3>16 DEF ReportHeld, At, Heard, Call, Resume, Goto, OnlyMoves,
         LetGo, Conclude, DropKeeper, TypeOK, server, service, doing, kept
    <3>17. CASE ReportGivenUp(q)
      BY <3>17 DEF ReportGivenUp, At, Heard, Call, Resume, Goto, OnlyMoves,
         LetGo, Conclude, DropKeeper, TypeOK, server, service, doing, kept
    <3>18. QED
      BY <2>1, <3>1, <3>2, <3>3, <3>4, <3>5, <3>6, <3>7, <3>8, <3>9, <3>10,
         <3>11, <3>12, <3>13, <3>14, <3>15, <3>16, <3>17 DEF Prompt
  <2>2. CASE HearsStop(q)
    <3>1. CASE StopClaim(q)
      BY <3>1 DEF StopClaim, At, Heard, Call, Resume, Goto, OnlyMoves, LetGo,
         Conclude, DropKeeper, TypeOK, server, service, doing, kept
    <3>2. CASE SettleExpires(q)
      BY <3>2 DEF SettleExpires, At, Heard, Call, Resume, Goto, OnlyMoves,
         LetGo, Conclude, DropKeeper, TypeOK, server, service, doing, kept
    <3>3. CASE StopWait(q)
      BY <3>3 DEF StopWait, At, Heard, Call, Resume, Goto, OnlyMoves, LetGo,
         Conclude, DropKeeper, TypeOK, server, service, doing, kept
    <3>4. CASE StopEvaluation(q)
      BY <3>4 DEF StopEvaluation, At, Heard, Call, Resume, Goto, OnlyMoves,
         LetGo, Conclude, DropKeeper, TypeOK, server, service, doing, kept
    <3>5. CASE LockStopped(q)
      BY <3>5 DEF LockStopped, At, Heard, Call, Resume, Goto, OnlyMoves,
         LetGo, Conclude, DropKeeper, TypeOK, server, service, doing, kept
    <3>6. CASE StopHolding(q)
      BY <3>6 DEF StopHolding, At, Heard, Call, Resume, Goto, OnlyMoves,
         LetGo, Conclude, DropKeeper, TypeOK, server, service, doing, kept
    <3>7. QED
      BY <2>2, <3>1, <3>2, <3>3, <3>4, <3>5, <3>6 DEF HearsStop
  <2>3. CASE Timer(q)
    <3>1. CASE WaitOver(q)
      BY <3>1 DEF WaitOver, At, Heard, Call, Resume, Goto, OnlyMoves, LetGo,
         Conclude, DropKeeper, TypeOK, server, service, doing, kept
    <3>2. CASE HoldOver(q)
      BY <3>2 DEF HoldOver, At, Heard, Call, Resume, Goto, OnlyMoves, LetGo,
         Conclude, DropKeeper, TypeOK, server, service, doing, kept
    <3>3. CASE DeadlinePasses(q)
      BY <3>3 DEF DeadlinePasses, At, Heard, Call, Resume, Goto, OnlyMoves,
         LetGo, Conclude, DropKeeper, TypeOK, server, service, doing, kept
    <3>4. QED
      BY <2>3, <3>1, <3>2, <3>3 DEF Timer
  <2>4. CASE Evaluates(q)
    <3>1. CASE Fetched(q)
      BY <3>1 DEF Fetched, At, Heard, Call, Resume, Goto, OnlyMoves, LetGo,
         Conclude, DropKeeper, TypeOK, server, service, doing, kept
    <3>2. CASE FetchAway(q)
      BY <3>2 DEF FetchAway, At, Heard, Call, Resume, Goto, OnlyMoves, LetGo,
         Conclude, DropKeeper, TypeOK, server, service, doing, kept
    <3>3. CASE FetchLost(q)
      BY <3>3 DEF FetchLost, At, Heard, Call, Resume, Goto, OnlyMoves, LetGo,
         Conclude, DropKeeper, TypeOK, server, service, doing, kept
    <3>4. CASE FetchRefused(q)
      BY <3>4 DEF FetchRefused, At, Heard, Call, Resume, Goto, OnlyMoves,
         LetGo, Conclude, DropKeeper, TypeOK, server, service, doing, kept
    <3>5. CASE MachineryBroke(q)
      BY <3>5 DEF MachineryBroke, At, Heard, Call, Resume, Goto, OnlyMoves,
         LetGo, Conclude, DropKeeper, TypeOK, server, service, doing, kept
    <3>6. CASE Judged(q)
      BY <3>6 DEF Judged, At, Heard, Call, Resume, Goto, OnlyMoves, LetGo,
         Conclude, DropKeeper, TypeOK, server, service, doing, kept
    <3>7. QED
      BY <2>4, <3>1, <3>2, <3>3, <3>4, <3>5, <3>6 DEF Evaluates
  <2>5. CASE Faults(q)
    <3>1. CASE LoseCall(q)
      BY <3>1 DEF LoseCall, At, Heard, Call, Resume, Goto, OnlyMoves, LetGo,
         Conclude, DropKeeper, TypeOK, server, service, doing, kept
    <3>2. CASE Tell(q)
      BY <3>2 DEF Tell, At, Heard, Call, Resume, Goto, OnlyMoves, LetGo,
         Conclude, DropKeeper, TypeOK, server, service, doing, kept
    <3>3. CASE Crash(q)
      BY <3>3 DEF Crash, At, Heard, Call, Resume, Goto, OnlyMoves, LetGo,
         Conclude, DropKeeper, TypeOK, server, service, doing, kept
    <3>4. CASE Restart(q)
      BY <3>4 DEF Restart, At, Heard, Call, Resume, Goto, OnlyMoves, LetGo,
         Conclude, DropKeeper, TypeOK, server, service, doing, kept
    <3>5. CASE Revoke(q)
      BY <3>5 DEF Revoke, At, Heard, Call, Resume, Goto, OnlyMoves, LetGo,
         Conclude, DropKeeper, TypeOK, server, service, doing, kept
    <3>6. QED
      BY <2>5, <3>1, <3>2, <3>3, <3>4, <3>5 DEF Faults
  <2>6. QED
    BY <1>1, <2>1, <2>2, <2>3, <2>4, <2>5
<1>2. ASSUME NEW q \in Runners, Renews(q) PROVE Kept
  BY <1>2 DEF Renews, SendRenewal, LandRenewal, LoseRenewal, service, doing
<1>3. ASSUME NEW q \in Runners, Serve(q) PROVE Kept
  <2>1. UNCHANGED <<pc, hand, standing>> /\ q # r
    BY <1>3 DEF Serve, ServeRefused, ServeEmpty, ServeStale, ServeRelease,
       ServeAttach, ServeReport, ServeClaim, service, doing
  <2>2. \E v : wire' = [wire EXCEPT ![q] = v]
    BY <1>3 DEF Serve, ServeRefused, ServeEmpty, ServeStale, ServeRelease,
       ServeAttach, ServeReport, ServeClaim
  <2>3. wire'[r] = wire[r]
    BY <2>1, <2>2 DEF TypeOK
  <2>4. QED
    BY <2>1, <2>3
<1>4. CASE World
  BY <1>4 DEF World, ServerAway, ServerBack, ServerForgets, Lapse, Reap,
     service, doing, TypeOK
<1>5. CASE UNCHANGED vars
  BY <1>5 DEF vars, service, doing
<1>6. QED
  BY <1>1, <1>2, <1>3, <1>4, <1>5 DEF Next, World

\* What the Server says of a report is so when it says it.
LEMMA ReplyIsSo ==
  ASSUME AInv, NEW r \in Runners, Serve(r), pc[r] = "reporting"
  PROVE  /\ UNCHANGED <<hand, standing>>
         /\ wire'[r] \in {"ok", "stale"} => ~Current(hand[r])'
         /\ wire'[r] = "unknown" => standing[r] # "known"
         /\ wire'[r] = "revoked" => standing[r] = "revoked"
<1> USE DEF AInv, LInv, TInv, TypeOK
<1>1. CASE ServeRefused(r)
  BY <1>1 DEF ServeRefused, Admits, service, doing
<1>2. CASE ServeEmpty(r)
  BY <1>2 DEF ServeEmpty, At
<1>3. CASE ServeStale(r)
  BY <1>3 DEF ServeStale, Current, server, service, doing
<1>4. CASE ServeReport(r)
  <2>1. hand[r] \in Lease /\ hand[r].work \in Work
    BY <1>4 DEF ServeReport, Current, Lease
  <2>2. queue'[hand[r].work] = "done"
    BY <1>4, <2>1 DEF ServeReport
  <2>3. UNCHANGED <<hand, standing>> /\ wire' = [wire EXCEPT ![r] = "ok"]
    BY <1>4 DEF ServeReport, service, doing
  <2>4. wire'[r] = "ok"
    BY <2>3
  <2>5. QED
    BY <2>2, <2>3, <2>4 DEF Current
<1>5. QED
  BY <1>1, <1>2, <1>3, <1>4
     DEF Serve, ServeRelease, ServeAttach, ServeClaim, At

LEMMA StepReplies ==
  ASSUME RInv, [Next]_vars
  PROVE  ReplyStands'
<1>1. ASSUME NEW r \in Runners, pc'[r] = "reporting",
             wire'[r] \in {"ok", "stale", "unknown", "revoked"}
      PROVE  /\ wire'[r] \in {"ok", "stale"} => ~Current(hand[r])'
             /\ wire'[r] = "unknown" => standing'[r] # "known"
             /\ wire'[r] = "revoked" => standing'[r] = "revoked"
  <2>1. CASE Serve(r)
    <3>1. pc[r] = "reporting"
      BY <1>1, <2>1 DEF Serve, ServeRefused, ServeEmpty, ServeStale,
         ServeRelease, ServeAttach, ServeReport, ServeClaim
    <3>2. QED
      BY <2>1, <3>1, ReplyIsSo DEF RInv
  <2>2. CASE ~Serve(r)
    <3>1. /\ pc[r] = "reporting" /\ wire'[r] = wire[r] /\ hand'[r] = hand[r]
          /\ standing'[r] \in {standing[r], "revoked"} \/ standing[r] = "known"
      BY <1>1, <2>2, ReplyKept DEF RInv, AInv, LInv, TInv
    <3>2. /\ wire[r] \in {"ok", "stale"} => ~Current(hand[r])
          /\ wire[r] = "unknown" => standing[r] # "known"
          /\ wire[r] = "revoked" => standing[r] = "revoked"
      BY <3>1 DEF RInv, ReplyStands
    <3>3. hand[r] \in Lease /\ hand[r].no <= leaseNo[hand[r].work]
      BY <3>1, WorkAssumption
         DEF RInv, AInv, LInv, TInv, TypeOK, HandThere, Handling, GrantedBefore
    <3>4. ASSUME NEW l \in Lease, l = hand[r], ~Current(l) PROVE ~Current(hand[r])'
      <4>1. ~Current(l)'
        BY <3>3, <3>4, StaleStays DEF RInv, AInv
      <4>2. QED
        BY <3>1, <3>4, <4>1 DEF Current
    <3>5. QED
      BY <3>1, <3>2, <3>3, <3>4
  <2>3. QED
    BY <2>1, <2>2
<1>2. QED
  BY <1>1 DEF ReplyStands

LEMMA StepRInv == RInv /\ [Next]_vars => RInv'
  BY StepAttached, StepReplies DEF RInv

\* An answer is let go of only in the ways the loop that reports it names.
LEMMA LetGoOfAnswer ==
  ASSUME TypeOK, [Next]_vars, NEW r \in Runners, pc[r] \in Answering, pc'[r] = "top"
  PROVE  \/ pc[r] = "reporting" /\ wire[r] \in {"ok", "stale", "unknown", "revoked"}
         \/ overdue[r] \/ told[r]
<1> DEFINE Why ==
             \/ pc[r] = "reporting" /\ wire[r] \in {"ok", "stale", "unknown", "revoked"}
             \/ overdue[r] \/ told[r]
<1>1. ASSUME NEW q \in Runners, Prompt(q) \/ HearsStop(q) \/ Timer(q) \/ Evaluates(q) \/ Faults(q)
      PROVE  Why
  <2>1. CASE Prompt(q)
    <3>1. CASE Admitted(q)
      BY <3>1 DEF Admitted, At, Heard, Call, Resume, Goto, OnlyMoves, LetGo,
         Conclude, DropKeeper, TypeOK, server, service, doing, kept,
         Answering, Retryable
    <3>2. CASE NotAdmitted(q)
      BY <3>2 DEF NotAdmitted, At, Heard, Call, Resume, Goto, OnlyMoves,
         LetGo, Conclude, DropKeeper, TypeOK, server, service, doing, kept,
         Answering, Retryable
    <3>3. CASE AskForJob(q)
      BY <3>3 DEF AskForJob, At, Heard, Call, Resume, Goto, OnlyMoves, LetGo,
         Conclude, DropKeeper, TypeOK, server, service, doing, kept,
         Answering, Retryable
    <3>4. CASE LeaveLoop(q)
      BY <3>4 DEF LeaveLoop, At, Heard, Call, Resume, Goto, OnlyMoves, LetGo,
         Conclude, DropKeeper, TypeOK, server, service, doing, kept,
         Answering, Retryable
    <3>5. CASE TakeWork(q)
      BY <3>5 DEF TakeWork, At, Heard, Call, Resume, Goto, OnlyMoves, LetGo,
         Conclude, DropKeeper, TypeOK, server, service, doing, kept,
         Answering, Retryable
    <3>6. CASE NoJob(q)
      BY <3>6 DEF NoJob, At, Heard, Call, Resume, Goto, OnlyMoves, LetGo,
         Conclude, DropKeeper, TypeOK, server, service, doing, kept,
         Answering, Retryable
    <3>7. CASE NoTrial(q)
      BY <3>7 DEF NoTrial, At, Heard, Call, Resume, Goto, OnlyMoves, LetGo,
         Conclude, DropKeeper, TypeOK, server, service, doing, kept,
         Answering, Retryable
    <3>8. CASE ClaimFailed(q)
      BY <3>8 DEF ClaimFailed, At, Heard, Call, Resume, Goto, OnlyMoves,
         LetGo, Conclude, DropKeeper, TypeOK, server, service, doing, kept,
         Answering, Retryable
    <3>9. CASE SettledWithJob(q)
      BY <3>9 DEF SettledWithJob, At, Heard, Call, Resume, Goto, OnlyMoves,
         LetGo, Conclude, DropKeeper, TypeOK, server, service, doing, kept,
         Answering, Retryable
    <3>10. CASE SettledWithout(q)
      BY <3>10 DEF SettledWithout, At, Heard, Call, Resume, Goto, OnlyMoves,
         LetGo, Conclude, DropKeeper, TypeOK, server, service, doing, kept,
         Answering, Retryable
    <3>11. CASE GivenBack(q)
      BY <3>11 DEF GivenBack, At, Heard, Call, Resume, Goto, OnlyMoves, LetGo,
         Conclude, DropKeeper, TypeOK, server, service, doing, kept,
         Answering, Retryable
    <3>12. CASE SendAttachment(q)
      BY <3>12 DEF SendAttachment, At, Heard, Call, Resume, Goto, OnlyMoves,
         LetGo, Conclude, DropKeeper, TypeOK, server, service, doing, kept,
         Answering, Retryable
    <3>13. CASE AttachmentAnswered(q)
      BY <3>13 DEF AttachmentAnswered, At, Heard, Call, Resume, Goto,
         OnlyMoves, LetGo, Conclude, DropKeeper, TypeOK, server, service,
         doing, kept, Answering, Retryable
    <3>14. CASE StartReport(q)
      BY <3>14 DEF StartReport, At, Heard, Call, Resume, Goto, OnlyMoves,
         LetGo, Conclude, DropKeeper, TypeOK, server, service, doing, kept,
         Answering, Retryable
    <3>15. CASE Reported(q)
      BY <3>15 DEF Reported, At, Heard, Call, Resume, Goto, OnlyMoves, LetGo,
         Conclude, DropKeeper, TypeOK, server, service, doing, kept,
         Answering, Retryable
    <3>16. CASE ReportHeld(q)
      BY <3>16 DEF ReportHeld, At, Heard, Call, Resume, Goto, OnlyMoves,
         LetGo, Conclude, DropKeeper, TypeOK, server, service, doing, kept,
         Answering, Retryable
    <3>17. CASE ReportGivenUp(q)
      BY <3>17 DEF ReportGivenUp, At, Heard, Call, Resume, Goto, OnlyMoves,
         LetGo, Conclude, DropKeeper, TypeOK, server, service, doing, kept,
         Answering, Retryable
    <3>18. QED
      BY <2>1, <3>1, <3>2, <3>3, <3>4, <3>5, <3>6, <3>7, <3>8, <3>9, <3>10,
         <3>11, <3>12, <3>13, <3>14, <3>15, <3>16, <3>17 DEF Prompt
  <2>2. CASE HearsStop(q)
    <3>1. CASE StopClaim(q)
      BY <3>1 DEF StopClaim, At, Heard, Call, Resume, Goto, OnlyMoves, LetGo,
         Conclude, DropKeeper, TypeOK, server, service, doing, kept,
         Answering, Retryable
    <3>2. CASE SettleExpires(q)
      BY <3>2 DEF SettleExpires, At, Heard, Call, Resume, Goto, OnlyMoves,
         LetGo, Conclude, DropKeeper, TypeOK, server, service, doing, kept,
         Answering, Retryable
    <3>3. CASE StopWait(q)
      BY <3>3 DEF StopWait, At, Heard, Call, Resume, Goto, OnlyMoves, LetGo,
         Conclude, DropKeeper, TypeOK, server, service, doing, kept,
         Answering, Retryable
    <3>4. CASE StopEvaluation(q)
      BY <3>4 DEF StopEvaluation, At, Heard, Call, Resume, Goto, OnlyMoves,
         LetGo, Conclude, DropKeeper, TypeOK, server, service, doing, kept,
         Answering, Retryable
    <3>5. CASE LockStopped(q)
      BY <3>5 DEF LockStopped, At, Heard, Call, Resume, Goto, OnlyMoves,
         LetGo, Conclude, DropKeeper, TypeOK, server, service, doing, kept,
         Answering, Retryable
    <3>6. CASE StopHolding(q)
      BY <3>6 DEF StopHolding, At, Heard, Call, Resume, Goto, OnlyMoves,
         LetGo, Conclude, DropKeeper, TypeOK, server, service, doing, kept,
         Answering, Retryable
    <3>7. QED
      BY <2>2, <3>1, <3>2, <3>3, <3>4, <3>5, <3>6 DEF HearsStop
  <2>3. CASE Timer(q)
    <3>1. CASE WaitOver(q)
      BY <3>1 DEF WaitOver, At, Heard, Call, Resume, Goto, OnlyMoves, LetGo,
         Conclude, DropKeeper, TypeOK, server, service, doing, kept,
         Answering, Retryable
    <3>2. CASE HoldOver(q)
      BY <3>2 DEF HoldOver, At, Heard, Call, Resume, Goto, OnlyMoves, LetGo,
         Conclude, DropKeeper, TypeOK, server, service, doing, kept,
         Answering, Retryable
    <3>3. CASE DeadlinePasses(q)
      BY <3>3 DEF DeadlinePasses, At, Heard, Call, Resume, Goto, OnlyMoves,
         LetGo, Conclude, DropKeeper, TypeOK, server, service, doing, kept,
         Answering, Retryable
    <3>4. QED
      BY <2>3, <3>1, <3>2, <3>3 DEF Timer
  <2>4. CASE Evaluates(q)
    <3>1. CASE Fetched(q)
      BY <3>1 DEF Fetched, At, Heard, Call, Resume, Goto, OnlyMoves, LetGo,
         Conclude, DropKeeper, TypeOK, server, service, doing, kept,
         Answering, Retryable
    <3>2. CASE FetchAway(q)
      BY <3>2 DEF FetchAway, At, Heard, Call, Resume, Goto, OnlyMoves, LetGo,
         Conclude, DropKeeper, TypeOK, server, service, doing, kept,
         Answering, Retryable
    <3>3. CASE FetchLost(q)
      BY <3>3 DEF FetchLost, At, Heard, Call, Resume, Goto, OnlyMoves, LetGo,
         Conclude, DropKeeper, TypeOK, server, service, doing, kept,
         Answering, Retryable
    <3>4. CASE FetchRefused(q)
      BY <3>4 DEF FetchRefused, At, Heard, Call, Resume, Goto, OnlyMoves,
         LetGo, Conclude, DropKeeper, TypeOK, server, service, doing, kept,
         Answering, Retryable
    <3>5. CASE MachineryBroke(q)
      BY <3>5 DEF MachineryBroke, At, Heard, Call, Resume, Goto, OnlyMoves,
         LetGo, Conclude, DropKeeper, TypeOK, server, service, doing, kept,
         Answering, Retryable
    <3>6. CASE Judged(q)
      BY <3>6 DEF Judged, At, Heard, Call, Resume, Goto, OnlyMoves, LetGo,
         Conclude, DropKeeper, TypeOK, server, service, doing, kept,
         Answering, Retryable
    <3>7. QED
      BY <2>4, <3>1, <3>2, <3>3, <3>4, <3>5, <3>6 DEF Evaluates
  <2>5. CASE Faults(q)
    <3>1. CASE LoseCall(q)
      BY <3>1 DEF LoseCall, At, Heard, Call, Resume, Goto, OnlyMoves, LetGo,
         Conclude, DropKeeper, TypeOK, server, service, doing, kept,
         Answering, Retryable
    <3>2. CASE Tell(q)
      BY <3>2 DEF Tell, At, Heard, Call, Resume, Goto, OnlyMoves, LetGo,
         Conclude, DropKeeper, TypeOK, server, service, doing, kept,
         Answering, Retryable
    <3>3. CASE Crash(q)
      BY <3>3 DEF Crash, At, Heard, Call, Resume, Goto, OnlyMoves, LetGo,
         Conclude, DropKeeper, TypeOK, server, service, doing, kept,
         Answering, Retryable
    <3>4. CASE Restart(q)
      BY <3>4 DEF Restart, At, Heard, Call, Resume, Goto, OnlyMoves, LetGo,
         Conclude, DropKeeper, TypeOK, server, service, doing, kept,
         Answering, Retryable
    <3>5. CASE Revoke(q)
      BY <3>5 DEF Revoke, At, Heard, Call, Resume, Goto, OnlyMoves, LetGo,
         Conclude, DropKeeper, TypeOK, server, service, doing, kept,
         Answering, Retryable
    <3>6. QED
      BY <2>5, <3>1, <3>2, <3>3, <3>4, <3>5 DEF Faults
  <2>6. QED
    BY <1>1, <2>1, <2>2, <2>3, <2>4, <2>5
<1>2. ASSUME NEW q \in Runners, Renews(q) \/ Serve(q) PROVE UNCHANGED pc
  BY <1>2 DEF Renews, SendRenewal, LandRenewal, LoseRenewal, Serve,
     ServeRefused, ServeEmpty, ServeStale, ServeRelease, ServeAttach,
     ServeReport, ServeClaim
<1>3. CASE World
  BY <1>3 DEF World, ServerAway, ServerBack, ServerForgets, Lapse, Reap, Answering
<1>4. CASE UNCHANGED pc
  BY <1>4 DEF Answering
<1>5. QED
  BY <1>1, <1>2, <1>3, <1>4 DEF Next, World, vars

\* Whatever the Server does and however often it goes away or restarts, and however
\* many calls are lost, an answer it still waits for is let go only because its
\* time is up, because this Runner is stopping, or because the Server does not take
\* its calls any more and has said so (run.rs, KeepTrying).
THEOREM AnswersAreCarried == Spec => AnswerCarried
<1>1. Init => RInv
  BY InitAttached DEF Init, RInv, ReplyStands
<1>2. ASSUME RInv, [Next]_vars, NEW r \in Runners,
             At(r, Answering), pc'[r] = "top", Current(hand[r])
      PROVE  \/ overdue[r] \/ told[r]
             \/ wire[r] \in {"unknown", "revoked"} /\ standing[r] # "known"
  <2>1. CASE pc[r] = "reporting" /\ wire[r] \in {"ok", "stale", "unknown", "revoked"}
    BY <1>2, <2>1 DEF RInv, ReplyStands
  <2>2. QED
    BY <1>2, <2>1, LetGoOfAnswer DEF RInv, AInv, LInv, TInv, At
<1>3. RInv /\ [Next]_vars =>
        [\A r \in Runners :
           At(r, Answering) /\ pc'[r] = "top" /\ Current(hand[r])
             => \/ overdue[r] \/ told[r]
                \/ wire[r] \in {"unknown", "revoked"} /\ standing[r] # "known"]_vars
  BY <1>2
<1>4. QED
  BY <1>1, <1>3, StepRInv, PTL DEF Spec, AnswerCarried
=============================================================================
