-------------------------------- MODULE MCLanes --------------------------------
(* Submissions for TLC: with no flaw, or with any two.                     *)
EXTENDS Lanes

AtMostTwo == {S \in SUBSET {Checks[k] : k \in DOMAIN Checks} : Cardinality(S) <= 2}
================================================================================
