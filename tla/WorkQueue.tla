------------------------------ MODULE WorkQueue ------------------------------
(***************************************************************************)
(* What the whole system promises about one piece of work, a grading job   *)
(* or a trial, with no Runner, no network and no lease in sight: it waits, *)
(* it is worked on, it comes back if nobody finishes it, and it ends once, *)
(* either with an answer that is about the work or because the Server gave *)
(* up on delivering it.  RunnerWork is shown to implement this module.     *)
(***************************************************************************)

CONSTANT Work

VARIABLES state,    \* state[w]: where w stands
          result    \* result[w]: the answer recorded for w, or "none"

vars == <<state, result>>

States == {"queued", "running", "done", "failed"}

\* A verdict on what was submitted, or an honest report that the machinery
\* broke.  An outage of the Server is neither, and is not in this set.
Answers == {"verdict", "broken"}

TypeOK ==
  /\ state \in [Work -> States]
  /\ result \in [Work -> Answers \cup {"none"}]

Init ==
  /\ state = [w \in Work |-> "queued"]
  /\ result = [w \in Work |-> "none"]

Move(w, from, to) ==
  /\ state[w] = from
  /\ state' = [state EXCEPT ![w] = to]

Take(w) == Move(w, "queued", "running") /\ UNCHANGED result

Return(w) == Move(w, "running", "queued") /\ UNCHANGED result

GiveUp(w) == Move(w, "running", "failed") /\ UNCHANGED result

Finish(w, a) ==
  /\ Move(w, "running", "done")
  /\ result' = [result EXCEPT ![w] = a]

Next ==
  \E w \in Work :
    \/ Take(w)
    \/ Return(w)
    \/ GiveUp(w)
    \/ \E a \in Answers : Finish(w, a)

Spec == Init /\ [][Next]_vars
=============================================================================
