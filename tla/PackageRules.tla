----------------------------- MODULE PackageRules -----------------------------
(***************************************************************************)
(* What a package's configuration means: config.rs and testset.rs of       *)
(* aj-package.  A configuration states limits in layers, the package's own,*)
(* a language family's, a toolchain's and a group's; the Server sends one  *)
(* more document to lay over it; and the tests are what the files and the  *)
(* groups' counts name between them.                                       *)
(***************************************************************************)
EXTENDS Integers, Sequences, FiniteSetsExt

CONSTANT MostTests \* the most tests a group may declare: a letter each

Fields == {"time", "memory"}
Unset == -1 \* a member that is not there
Null == -2  \* one that is there and is null, which only an overlay's is

(* One partial statement over another, field by field.                     *)
Apply(limits, over) ==
    [f \in Fields |-> IF over[f] = Unset THEN limits[f] ELSE over[f]]

(* Mutant of Merge: what an overlay names replaces what was there.         *)
MergeWhole(below, above) ==
    IF above = [f \in Fields |-> Unset] THEN below ELSE above

(* Objects merge a member at a time; a member the overlay does not name is *)
(* left, and one that it does name is replaced, be it by null.             *)
Merge(below, above) == Apply(below, above)

(* What is read back of a partial statement: null states nothing.          *)
ReadBack(limits) == [f \in Fields |-> IF limits[f] = Null THEN Unset ELSE limits[f]]

(* `overlaid`: entries are merged by key, a group's by its number; an entry*)
(* the package does not have is an addition.                               *)
MergeKeyed(below, above) ==
    [k \in DOMAIN below \cup DOMAIN above |->
        ReadBack(IF k \notin DOMAIN above THEN below[k]
                 ELSE IF k \notin DOMAIN below THEN above[k] ELSE Merge(below[k], above[k]))]

Overlaid(config, overlay) ==
    [config EXCEPT !.limits = Merge(@, overlay.limits),
                   !.overrideLimits = MergeKeyed(@, overlay.overrideLimits),
                   !.groupLimits = MergeKeyed(@, overlay.groupLimits)]

(* Zero is not "inherit": it is a limit nothing can pass.  The package's   *)
(* own limits are required, so where they are null it is not read at all.  *)
Validated(config) ==
    /\ \A f \in Fields : config.limits[f] > 0
    /\ \A k \in DOMAIN config.overrideLimits : \A f \in Fields : config.overrideLimits[k][f] # 0
    /\ \A g \in DOMAIN config.groupLimits : \A f \in Fields : config.groupLimits[g][f] # 0
    /\ DOMAIN config.groupLimits # {}

Keyed(config, key) ==
    IF key \in DOMAIN config.overrideLimits THEN config.overrideLimits[key]
    ELSE [f \in Fields |-> Unset]

(* The family and then the toolchain: least specific first.                *)
ForLanguage(config, family, toolchain) ==
    Apply(Apply(config.limits, Keyed(config, family)), Keyed(config, toolchain))

(* A group's own limits beat a language's.                                 *)
Effective(config, group, family, toolchain) ==
    Apply(ForLanguage(config, family, toolchain), config.groupLimits[group])

-----------------------------------------------------------------------------
(* A test is a group and a letter; `tests` of a group is its declared count*)
(* or Unset; files[n] is which of the two files of a name there are.       *)

Named(counts) ==
    UNION {{<<g, letter>> : letter \in 1..counts[g]} : g \in {h \in DOMAIN counts : counts[h] # Unset}}
Found(files) == {n \in DOMAIN files : files[n] # {}}

(* A checker and an interactor decide the same question; a count is an     *)
(* interactive problem's alone.                                            *)
JudgedBy(judges, counts) ==
    /\ judges # {"checker", "interactor"}
    /\ DOMAIN counts # {}
    /\ \A g \in DOMAIN counts :
         counts[g] # Unset => "interactor" \in judges /\ counts[g] \in 1..MostTests

Tests(counts, files) == Named(counts) \cup Found(files)

(* Mutant of OutsideACount: a file the count does not reach is passed over.*)
OutsideACountIgnored(counts, files) == {}

(* A file outside a declared count is refused, not ignored.                *)
OutsideACount(counts, files) ==
    {n \in Found(files) :
        n[1] \in DOMAIN counts /\ counts[n[1]] # Unset /\ n \notin Named(counts)}

(* What judges decides which of the two files a test cannot be without.    *)
Required(judges) ==
    IF "interactor" \in judges THEN {}
    ELSE IF "checker" \in judges THEN {"in"} ELSE {"in", "out"}

InGroup(tests, g) == Cardinality({n \in tests : n[1] = g})

(* Whether the package is read at all, and its tests if so.                *)
Reads(judges, counts, files) ==
    /\ JudgedBy(judges, counts)
    /\ OutsideACount(counts, files) = {}
    /\ \A n \in Tests(counts, files) :
         /\ n[1] \in DOMAIN counts
         /\ n \in DOMAIN files => Required(judges) \subseteq files[n]
         /\ n \notin DOMAIN files => Required(judges) = {}
    /\ \A g \in DOMAIN counts : InGroup(Tests(counts, files), g) > 0

-----------------------------------------------------------------------------
(* What a layer says of a field for a key, and the package for all of them:*)
(* the overlay's word before the package's, which its null takes back.     *)
SaidIn(config, overlay, layer, key, f) ==
    IF key \in DOMAIN overlay[layer] /\ overlay[layer][key][f] # Unset
    THEN IF overlay[layer][key][f] = Null THEN Unset ELSE overlay[layer][key][f]
    ELSE IF key \in DOMAIN config[layer] THEN config[layer][key][f] ELSE Unset
SaidOfAll(config, overlay, f) ==
    IF overlay.limits[f] # Unset THEN overlay.limits[f] ELSE config.limits[f]

FirstSaid(candidates) ==
    candidates[CHOOSE i \in DOMAIN candidates :
        candidates[i] # Unset /\ \A j \in 1..i - 1 : candidates[j] = Unset]

(* The overlay, naming these groups and no other.                          *)
OnlyGroups(overlay, groups) ==
    [overlay EXCEPT !.groupLimits = [g \in groups |-> [f \in Fields |-> 1]]]

(* The layer that says most wins, a field at a time: the group, then the   *)
(* toolchain, then the family, then the package; on each the overlay before*)
(* the package, and never over a layer below it.  A null of the overlay    *)
(* makes its layer silent.  An overlay of one group changes nothing for    *)
(* another, and what is accepted can be passed.                            *)
LimitsStated(config, overlay, family, toolchain) ==
    LET merged == Overlaid(config, overlay)
        limit(g, f) == Effective(merged, g, family, toolchain)[f]
        under(groups, g) ==
            Effective(Overlaid(config, OnlyGroups(overlay, groups)), g, family, toolchain)
    IN Validated(config) /\ Validated(merged) =>
         \A g \in DOMAIN merged.groupLimits : \A f \in Fields :
            /\ limit(g, f) = FirstSaid(<<SaidIn(config, overlay, "groupLimits", g, f),
                                         SaidIn(config, overlay, "overrideLimits", toolchain, f),
                                         SaidIn(config, overlay, "overrideLimits", family, f),
                                         SaidOfAll(config, overlay, f)>>)
            /\ limit(g, f) > 0
            /\ \A h \in DOMAIN config.groupLimits \ {g} : under({g}, h) = under({}, h)

(* Of a package that is read, every file is of a test and every test is of *)
(* a declared group; no group is passed by having none; a group with a     *)
(* count has that many, whatever files there are; and a test has what its  *)
(* judge cannot do without.                                                *)
Counted(judges, counts, files) ==
    Reads(judges, counts, files) =>
        LET tests == Tests(counts, files) IN
        /\ \A n \in DOMAIN files : files[n] # {} => n \in tests
        /\ \A g \in DOMAIN counts :
             /\ InGroup(tests, g) > 0
             /\ counts[g] # Unset => InGroup(tests, g) = counts[g]
        /\ \A n \in tests :
             /\ n[1] \in DOMAIN counts
             /\ judges = {} => n \in DOMAIN files /\ files[n] = {"in", "out"}
             /\ judges = {"checker"} => n \in DOMAIN files /\ "in" \in files[n]
        /\ Cardinality(judges) < 2
================================================================================
