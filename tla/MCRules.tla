-------------------------------- MODULE MCRules --------------------------------
(***************************************************************************)
(* The rules that work alone, one at a time: three small machines, the     *)
(* lease against the clock, the reaper and a Runner's start, and the      *)
(* algorithms that have no state, each over every case within the bounds.  *)
(***************************************************************************)
EXTENDS LeaseClock, Reaping, Startup, PackageRules

CONSTANTS
    Rules,      \* those this run looks at
    MaxSource   \* bound: the characters of a source in Python, one fewer in C

VARIABLES
    rule,  \* the rule being looked at
    case   \* the case, for one that has no state

Scored == INSTANCE Scoring
Compared == INSTANCE Comparing
Scanned == INSTANCE Policy
Cores == INSTANCE Affinity

ClockAtRest == left = Granted /\ phase = "asleep" /\ timer = 0 /\ committed = FALSE /\ misses = 0

SeqUpTo(S, n) == UNION {[1..k -> S] : k \in 0..n}

-----------------------------------------------------------------------------
(* The cases                                                               *)

Said == [exit : {0}, word : {"OK", "WRONG"}, stated : {Scored!Absent, 50, 99}]
TestsJudged ==
    [group : 1..2, ended : {"by itself"}, said : Said]
      \cup [group : 1..2, ended : {"TimeLimit"}, said : [exit : {0}, word : {"none"}, stated : {0}]]
Submissions == [points : [1..2 -> {1, 10}], tests : SeqUpTo(TestsJudged, 3)]

(* A layer states a limit of its own for each field it names.              *)
Stated(base, fields) ==
    [f \in Fields |-> IF f \in fields THEN base ELSE Unset]
Entries(keys, base) == UNION {[K -> {Stated(base, F) : F \in SUBSET Fields}] : K \in SUBSET keys}
Configurations ==
    [limits : {[f \in Fields |-> 9]}, overrideLimits : Entries({"cpp", "cpp17"}, 7),
     groupLimits : [1..2 -> {Stated(5, F) : F \in SUBSET Fields}]]
Overlays ==
    [limits : {Stated(8, F) : F \in SUBSET Fields} \cup {Stated(Null, {"memory"})},
     overrideLimits : (UNION {[{"cpp"} -> {Stated(v, F) : F \in SUBSET Fields}] : v \in {6, 0, Null}})
                        \cup {[k \in {} |-> Stated(0, {})]},
     groupLimits : Entries({1}, 4) \cup Entries({1}, Null)]

Counts == UNION {[G -> {Unset, 0, 1, 2, 3}] : G \in SUBSET (1..2)}
Filed == [(1..2) \X (1..2) -> SUBSET {"in", "out"}]
Judges == SUBSET {"checker", "interactor"}

Chunked == SeqUpTo(SeqUpTo(Compared!Bytes, 2), 3)
References == {<<>>, <<"a">>, <<"a", "a">>, <<"a", "space", "a">>, <<"lost">>}

(* A triple, another that does not close it and what follows are seven.    *)
LongestSource(python) == IF python THEN MaxSource ELSE MaxSource - 1
Characters(python) ==
    IF python THEN {"w", "n", "hash", "q", "a", "b"} ELSE {"n", "slash", "star", "q", "a", "b"}

ReportedCharacters(python) ==
    {"w", "n", "i", "blank"} \cup IF python THEN {"hash"} ELSE {"slash", "star"}

(* As the kernel prints a set: in order, and never touching.               *)
Ranges ==
    {s \in SeqUpTo({<<0, 0>>, <<0, 2>>, <<0, 6>>, <<2, 3>>, <<3, 2>>, <<4, 4>>,
                    <<5, 6>>, <<4, 4101>>}, 3) :
        \A i \in DOMAIN s : i > 1 => s[i - 1][2] + 1 < s[i][1]}
Online == <<<<0, 6>>>>
Kin(together) == [c \in 0..6 |-> IF together THEN {c, IF c % 2 = 0 THEN c + 1 ELSE c - 1} ELSE {c, (c + 3) % 7}]

Cases ==
    \/ rule = "score" /\ case \in Submissions
    \/ rule = "limits" /\ case \in Configurations \X Overlays
    \/ rule = "tests" /\ case \in Judges \X Counts \X Filed
    \/ rule = "compare" /\ case \in References \X Chunked
    \/ rule = "strip" /\ \E python \in BOOLEAN :
         case \in {python} \X SeqUpTo(Characters(python), LongestSource(python))
    \/ rule = "report" /\ \E python \in BOOLEAN :
         case \in {python} \X SeqUpTo(ReportedCharacters(python), 5)
    \/ rule = "lanes" /\ case \in Ranges \X (0..4) \X BOOLEAN

-----------------------------------------------------------------------------
RulesInit ==
    /\ rule \in Rules
    /\ \/ rule = "lease" /\ case = "none" /\ Init /\ ReaperRest /\ StartRest
       \/ rule = "reap" /\ case = "none" /\ ClockAtRest /\ ReaperInit /\ StartRest
       \/ rule = "start" /\ case = "none" /\ ClockAtRest /\ ReaperRest /\ StartInit
       \/ Cases /\ ClockAtRest /\ ReaperRest /\ StartRest

RulesNext ==
    \/ rule = "lease" /\ Next /\ UNCHANGED <<rule, case, reaperVars, startVars>>
    \/ rule = "reap" /\ ReaperNext /\ UNCHANGED <<rule, case, vars, startVars>>
    \/ rule = "start" /\ StartNext /\ UNCHANGED <<rule, case, vars, reaperVars>>

RulesSpec == RulesInit /\ [][RulesNext]_<<rule, case, vars, reaperVars, startVars>>

-----------------------------------------------------------------------------
(* Points are for tests that pass, all of a group's or none, and the score,*)
(* the tests' own and the verdict tell one story (score.rs, judge).        *)
ScoreIsEarned == rule = "score" => Scored!Earned(case.points, case.tests)

(* A test runs under what its package and the overlay say of it, the most  *)
(* specific first (config.rs, overlaid and effective).                     *)
LimitsHold == rule = "limits" => LimitsStated(case[1], case[2], "cpp", "cpp17")

(* No test an author wrote is passed over, and no group has more or fewer  *)
(* than it declares (testset.rs, read).                                    *)
TestsAreCounted == rule = "tests" => Counted(case[1], case[2], case[3])

(* A verdict does not depend on where the output was cut (compare.rs).     *)
ComparedAsWhole == rule = "compare" => Compared!AsWhole(case[1], case[2])

(* What is searched for forbidden words is the source less what begins in  *)
(* it as a comment or a literal, to the end of each, and all the rest is   *)
(* where it was (policy.rs, strip).                                        *)
StrippedInPlace == rule = "strip" => Scanned!InPlace(case[1], case[2])


(* The lanes are the Runner's own processors, cut and not shared           *)
(* (affinity.rs, split).                                                   *)
LanesAreCut ==
    rule = "lanes" => Cores!LanesFit(case[1], Online, case[2], Kin(case[3]))
================================================================================
