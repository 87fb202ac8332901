----------------------------- MODULE MCJudgedTest -----------------------------
(* Problems for TLC.  A limit above three seconds lets a run outlast its   *)
(* judge, and a checker that does not read needs one above six.            *)
EXTENDS JudgedTest

Problem(l, a, r) == [limit |-> l, aside |-> a, reads |-> r]

Ordinary ==
    {Problem(l, a, TRUE) : l \in {1, 3}, a \in {"none", "checker", "interactor"}}
        \cup {Problem(7, "checker", FALSE)}
===============================================================================
