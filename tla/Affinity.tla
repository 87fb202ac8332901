-------------------------------- MODULE Affinity --------------------------------
(***************************************************************************)
(* Cutting the processors a Runner was given into lanes: affinity.rs.  A   *)
(* list is the processors it names in order; the kernel prints a set.      *)
(***************************************************************************)
EXTENDS Integers, SequencesExt

(* No list: nobody narrowed this process, or it could not be asked.        *)
Unpinned == <<>>

(* A range that runs back, and one no machine is as wide as.               *)
Refused(range) == range[2] < range[1] \/ range[2] - range[1] > 4096

(* The ranges of a list.  A Runner's own is what the kernel makes of what  *)
(* an operator wrote, so it climbs, whatever order that was in.            *)
Parse(ranges) ==
    IF \E i \in DOMAIN ranges : Refused(ranges[i]) THEN Unpinned
    ELSE FlattenSeq([i \in DOMAIN ranges |->
            [k \in 1..ranges[i][2] - ranges[i][1] + 1 |-> ranges[i][1] + k - 1]])

(* What is the whole machine is no instruction to pin anything.            *)
Restricted(mine, online) ==
    IF mine = Unpinned \/ online = Unpinned \/ Len(mine) >= Len(online) THEN Unpinned ELSE mine

(* Mutant of WidthOf: the remainder is nobody's.                           *)
WidthOfEqual(lane, found, lanes) == Len(found) \div lanes

(* The first lanes take the remainder.                                     *)
WidthOf(lane, found, lanes) ==
    Len(found) \div lanes + (IF lane <= Len(found) % lanes THEN 1 ELSE 0)

StartOf(lane, found, lanes) ==
    FoldLeft(LAMBDA at, before : at + WidthOf(before, found, lanes), 0, [k \in 1..lane - 1 |-> k])

(* One lane keeps the list as it is; and so does every lane of a set too   *)
(* small to cut.                                                           *)
Split(mine, lanes) ==
    IF lanes <= 1 THEN <<mine>>
    ELSE IF mine = Unpinned \/ Len(mine) < lanes THEN [lane \in 1..lanes |-> mine]
    ELSE [lane \in 1..lanes |->
            LET at == StartOf(lane, mine, lanes)
            IN SubSeq(mine, at + 1, at + WidthOf(lane, mine, lanes))]

(* The processors that were separated from a sibling, with the lane.       *)
Thin(cut, siblings) ==
    {t \in (DOMAIN cut) \X (DOMAIN siblings) \X (DOMAIN siblings) :
        LET lane == t[1]
            cpu == t[2]
            kin == t[3]
        IN /\ Contains(cut[lane], cpu) /\ ~Contains(cut[lane], kin)
           /\ kin \in siblings[cpu] \ {cpu}}

-----------------------------------------------------------------------------
(* Every lane is a piece of the Runner's own list, in its order, and never *)
(* the empty one the daemon would refuse; together they are all of it; no  *)
(* two share a processor, unless there is not one for each and all share   *)
(* all; and none is wider than another by more than one.  A Runner given   *)
(* the whole machine pins nothing, however it is spelled; and a core is    *)
(* reported exactly where it is cut.                                       *)
LanesFit(ranges, online, lanes, siblings) ==
    LET mine == Restricted(Parse(ranges), Parse(online))
        cut == Split(mine, lanes)
        shared == mine # Unpinned /\ Len(mine) < lanes
    IN /\ Len(cut) = IF lanes = 0 THEN 1 ELSE lanes
       /\ ToSet(Parse(ranges)) = ToSet(Parse(online)) => mine = Unpinned
       /\ mine = Unpinned => \A lane \in DOMAIN cut : cut[lane] = Unpinned
       /\ mine # Unpinned /\ ~shared =>
            /\ FlattenSeq(cut) = mine
            /\ \A i, j \in DOMAIN cut :
                 /\ cut[i] # <<>>
                 /\ i # j => ToSet(cut[i]) \cap ToSet(cut[j]) = {}
                 /\ Len(cut[i]) - Len(cut[j]) \in -1..1
       /\ shared => \A lane \in DOMAIN cut : cut[lane] = mine
       /\ Thin(cut, siblings) = {} <=>
            \A lane \in DOMAIN cut : \A cpu \in ToSet(cut[lane]) :
                cpu \in DOMAIN siblings => siblings[cpu] \cap DOMAIN siblings \subseteq ToSet(cut[lane])
================================================================================
