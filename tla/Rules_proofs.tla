------------------------------ MODULE Rules_proofs ------------------------------
(***************************************************************************)
(* The small machines, for every value of their constants: the lease       *)
(* against the clock, the reaper and a Runner's start; and what a package's*)
(* configuration and files mean, for every one of them.                    *)
(***************************************************************************)
EXTENDS MCRules, FiniteSetTheorems, TLAPS

-----------------------------------------------------------------------------
(* The lease.  A Keeper that misses two renewals in a row keeps its work,  *)
(* provided three intervals and two failures fit in the lease.             *)

\* Three intervals, two renewals that hung, the answer to the claim and the
\* third renewal all fit in the lease.
Margin == 3 * Interval + 2 * Hang + 2 * Prompt < Granted

\* Time behind that the failed renewals account for.
Behind ==
  IF misses = 0 THEN 0 ELSE IF misses = 1 THEN Interval + Hang ELSE 2 * (Interval + Hang)

\* Time since the Server last granted the lease in full, at most.
Spent == Prompt + Behind + timer + (IF phase = "out" THEN Interval ELSE 0)

\* The inductive invariant: what is left of the lease is what was granted less
\* what was spent since.
IInv ==
  /\ TypeOK
  /\ phase = "asleep" => timer <= Interval
  /\ phase = "out" => timer <= Hang
  /\ committed => phase # "asleep"
  /\ committed => left >= Granted - timer
  /\ misses <= 2 /\ ~committed /\ phase # "ended" => left >= Granted - Spent
  /\ phase = "ended" => misses >= 2

-----------------------------------------------------------------------------
\* The lease granted and the interval derived from it are whole ticks.
LEMMA Durations == Granted \in Nat \ {0} /\ Interval \in Nat
  BY ClockAssumption DEF Granted, Interval, Every

LEMMA InvInit == Margin /\ Init => IInv
<1> SUFFICES ASSUME Margin, Init PROVE IInv
  OBVIOUS
<1>1. ~committed /\ committed \in BOOLEAN
  BY DEF Init
<1>2. left \in 0 .. Granted /\ left >= Granted - Prompt
  BY DEF Init
<1>3. phase = "asleep" /\ timer = 0 /\ misses = 0
  BY DEF Init
<1>4. QED
  BY <1>1, <1>2, <1>3, Durations, ClockAssumption DEF IInv, TypeOK, Spent,
     Behind

LEMMA InvStep == Margin /\ IInv /\ [Next]_vars => IInv'
<1> SUFFICES ASSUME Margin, IInv, [Next]_vars
             PROVE  IInv'
  OBVIOUS
<1> USE Durations, ClockAssumption DEF Margin, IInv, TypeOK, Spent, Behind
<1>1. CASE Tick
  BY <1>1 DEF Tick
<1>2. CASE SendRenewal
  BY <1>2 DEF SendRenewal
<1>3. CASE Commit
  BY <1>3 DEF Commit
<1>4. CASE Renewed
  <2>1. ~committed' /\ committed' \in BOOLEAN
    BY <1>4 DEF Renewed
  <2>2. committed /\ timer <= Prompt /\ left' = left /\ phase' = "asleep" /\ timer' = 0 /\ misses' = 0
    BY <1>4 DEF Renewed
  <2>3. QED
    BY <2>1, <2>2
<1>5. CASE Refused
  BY <1>5 DEF Refused
<1>6. CASE Missed
  <2>1. ~committed' /\ committed' \in BOOLEAN
    BY <1>6 DEF Missed
  <2>2. /\ phase = "out" /\ misses < MaxMisses
        /\ left' = left /\ phase' = "asleep" /\ timer' = 0 /\ misses' = misses + 1
    BY <1>6 DEF Missed
  <2>3. QED
    BY <2>1, <2>2
<1>7. CASE UNCHANGED vars
  BY <1>7 DEF vars
<1>8. QED
  BY <1>1, <1>2, <1>3, <1>4, <1>5, <1>6, <1>7 DEF Next

\* The counters of the clock stay in their ranges, whatever was configured
\* (keeper.rs, every).
THEOREM ClockTypes == Spec => []TypeOK
<1> DEFINE Numbers == /\ left \in 0 .. Granted /\ phase \in {"asleep", "out", "ended"}
                      /\ timer \in Nat /\ misses \in 0 .. MaxMisses
<1>1. Init => Numbers
  <2> SUFFICES ASSUME Init PROVE Numbers
    OBVIOUS
  <2>1. left \in 0 .. Granted /\ phase = "asleep" /\ timer = 0 /\ misses = 0
    BY DEF Init
  <2>2. QED
    BY <2>1, ClockAssumption
<1>2. Init => committed \in BOOLEAN
  BY DEF Init
<1>3. Numbers /\ [Next]_vars => Numbers'
  BY Durations, ClockAssumption
     DEF Next, Tick, SendRenewal, Commit, Renewed, Refused, Missed, vars
<1>4. committed \in BOOLEAN /\ [Next]_vars => (committed \in BOOLEAN)'
  BY DEF Next, Tick, SendRenewal, Commit, Renewed, Refused, Missed, vars
<1>5. Numbers /\ committed \in BOOLEAN => TypeOK
  BY DEF TypeOK
<1> HIDE DEF Numbers
<1>6. QED
  BY <1>1, <1>2, <1>3, <1>4, <1>5, PTL DEF Spec

\* With that margin, two renewals in a row may fail and the work is still
\* held when the third is due, and no Keeper is refused before its third
\* (keeper.rs, spawn).
THEOREM TwoMisses ==
  ASSUME Margin
  PROVE  Spec => []TwoMissesAreSafe
<1>1. Init => IInv
  BY InvInit
<1>2. IInv /\ [Next]_vars => IInv'
  BY InvStep
<1>3. IInv => TwoMissesAreSafe
  BY Durations, ClockAssumption DEF Margin, IInv, TypeOK, Spent, Behind,
     TwoMissesAreSafe
<1>4. QED
  BY <1>1, <1>2, <1>3, PTL DEF Spec

-----------------------------------------------------------------------------
(* The reaper.                                                             *)

ReaperTypes ==
  /\ limit \in Nat /\ extra \in 0 .. Gap /\ own \in Nat /\ best \in Nat /\ idle \in Nat
  /\ moved \in {0, 1} /\ elapsed \in Nat /\ quiet \in Nat
  /\ verdict \in {"waiting", "TimeLimit", "NeverStarted", "WallClock", "Overall"}

\* Its window is behind what the program did by the first look at most, which
\* has no reading of the pressure to compare with.
Behindhand ==
  /\ elapsed = 0 => idle = 0 /\ quiet = 0
  /\ verdict = "waiting" /\ Timed /\ readable /\ psi => idle <= quiet + 1

\* Nothing to wait for counts every second, talks to nobody and is never past
\* a ceiling.
Uncounted == ~Timed => idle = elapsed

\* What is still waited for is within the cap.
Waiting == verdict = "waiting" => elapsed < Cap

\* What has been concluded had its cause at the look that concluded it.
Concludes ==
  /\ verdict = "WallClock" /\ Timed /\ readable /\ psi => quiet >= Window - 1
  /\ verdict = "NeverStarted" => moved = 0 /\ (readable => own = 0)
  /\ verdict = "TimeLimit" => own > limit
  /\ verdict = "Overall" => Timed

ReaperInv ==
  ReaperTypes /\ best <= Reading(own) /\ Behindhand /\ Uncounted /\ Waiting /\ Concludes

LEMMA ReaperInvInit == ReaperInit => ReaperInv
BY ReaperAssumption
   DEF ReaperInit, ReaperInv, ReaperTypes, Reading, Behindhand, Uncounted, Waiting,
       Concludes, Cap, CapOf, CeilingOf, Allowance, Gap, Timed

\* The invariant survives a look, whatever the program did since the last.
LEMMA ReaperInvStep == ReaperInv /\ [ReaperNext]_reaperVars => ReaperInv'
<1> SUFFICES ASSUME ReaperInv, [ReaperNext]_reaperVars PROVE ReaperInv'
  OBVIOUS
<1> USE DEF Gap, Allowance
<1>1. CASE UNCHANGED reaperVars
  BY <1>1 DEF reaperVars, ReaperInv, ReaperTypes, Reading, Behindhand, Uncounted, Waiting,
     Concludes, Cap, Window, Timed
<1>2. CASE ReaperNext
  <2>1. PICK worked, starved, talked \in BOOLEAN :
          (talked => Timed) /\ Look(worked, starved, talked)
    BY <1>2 DEF ReaperNext
  <2> DEFINE spent == own + (IF worked THEN 1 ELSE 0)
             still == IdleAfter(Reading(spent), talked, starved)
             seen == IF Timed /\ readable /\ Reading(spent) > best THEN Reading(spent) ELSE best
             said == talked \/ moved > 0
  <2>2. /\ verdict = "waiting" /\ own' = spent /\ elapsed' = elapsed + 1
        /\ moved' = (IF said THEN 1 ELSE 0)
        /\ quiet' = (IF worked \/ talked THEN 0 ELSE IF starved THEN quiet ELSE quiet + 1)
        /\ UNCHANGED <<limit, readable, psi, extra>>
    BY <2>1 DEF Look
  <2>3. \/ /\ Timed /\ readable /\ Reading(spent) > CeilingOf(limit)
           /\ verdict' = "TimeLimit" /\ UNCHANGED <<best, idle>>
        \/ /\ best' = seen /\ idle' = still
           /\ verdict' = Concluded(seen, still, said, elapsed + 1)
    BY <2>1 DEF Look
  <2>4. /\ spent \in Nat /\ spent >= own /\ Reading(spent) \in Nat /\ Reading(own) \in Nat
        /\ Reading(own) <= Reading(spent) /\ spent <= Reading(spent)
        /\ Reading(spent) <= spent + 1
        /\ (Reading(own))' = Reading(spent)
        /\ worked => Reading(spent) > Reading(own)
    BY <2>2 DEF ReaperInv, ReaperTypes, Reading
  <2>5. /\ seen \in Nat /\ best <= seen /\ seen <= Reading(spent)
        /\ Timed /\ readable => seen = Reading(spent)
    BY <2>4 DEF ReaperInv, ReaperTypes
  <2>6. /\ still \in Nat
        /\ ~Timed => still = elapsed + 1
        /\ Timed /\ readable /\ psi => still <= quiet' + 1
    <3>1. still \in 0 .. idle + 1
      BY DEF ReaperInv, ReaperTypes, IdleAfter
    <3>2. ~Timed => still = elapsed + 1
      BY <2>1 DEF ReaperInv, ReaperTypes, Uncounted, IdleAfter
    <3>3. ASSUME Timed, readable, psi PROVE still <= quiet' + 1
      <4>1. quiet' \in Nat /\ (quiet' < quiet => worked \/ talked)
        BY <2>2 DEF ReaperInv, ReaperTypes
      <4>2. worked \/ talked => still = 0
        BY <2>4, <3>3 DEF ReaperInv, ReaperTypes, IdleAfter
      <4>3. CASE ~worked /\ ~talked /\ starved /\ elapsed > 0
        <5>1. quiet' = quiet /\ still \in {0, idle}
          BY <2>2, <3>3, <4>3 DEF IdleAfter, Waited
        <5>2. QED
          BY <2>2, <3>3, <5>1 DEF ReaperInv, ReaperTypes, Behindhand
      <4>4. CASE ~worked /\ ~talked /\ elapsed = 0
        BY <3>1, <4>1, <4>4 DEF ReaperInv, Behindhand
      <4>5. CASE ~worked /\ ~talked /\ ~starved
        <5>1. quiet' = quiet + 1
          BY <2>2, <4>5
        <5>2. QED
          BY <2>2, <3>1, <3>3, <5>1 DEF ReaperInv, ReaperTypes, Behindhand
      <4>6. QED
        BY <4>1, <4>2, <4>3, <4>4, <4>5 DEF ReaperInv, ReaperTypes
    <3>4. QED
      BY <3>1, <3>2, <3>3 DEF ReaperInv, ReaperTypes
  <2> HIDE DEF spent, still, seen
  <2>7. Window' = Window /\ Cap' = Cap /\ Timed' = Timed
    BY <2>2 DEF Window, Cap, Timed
  <2>8. /\ Window \in Nat /\ Cap \in Nat /\ CeilingOf(limit) = limit + 2
        /\ ~Timed => Window = Cap
    BY ReaperAssumption DEF ReaperInv, ReaperTypes, Window, WindowOf, Cap, CapOf, CeilingOf,
       Timed
  <2>9. CASE /\ Timed /\ readable /\ Reading(spent) > CeilingOf(limit)
             /\ verdict' = "TimeLimit" /\ UNCHANGED <<best, idle>>
    <3>1. /\ quiet' \in Nat /\ moved' \in {0, 1} /\ elapsed' \in Nat /\ elapsed' # 0
      BY <2>2 DEF ReaperInv, ReaperTypes
    <3>2. own' > limit'
      BY <2>2, <2>4, <2>8, <2>9 DEF ReaperInv, ReaperTypes
    <3>3. best' <= (Reading(own))' /\ Timed'
      BY <2>4, <2>5, <2>7, <2>9 DEF ReaperInv, ReaperTypes
    <3>4. ReaperTypes'
      BY <2>2, <2>4, <2>9, <3>1 DEF ReaperInv, ReaperTypes
    <3>5. QED
      BY <2>9, <3>1, <3>2, <3>3, <3>4
         DEF ReaperInv, Behindhand, Uncounted, Waiting, Concludes
  <2>10. CASE /\ best' = seen /\ idle' = still
              /\ verdict' = Concluded(seen, still, said, elapsed + 1)
    <3>1. /\ verdict' \in {"waiting", "NeverStarted", "WallClock", "Overall"}
          /\ verdict' = "waiting" => elapsed + 1 < Cap
          /\ verdict' = "NeverStarted" => Timed /\ seen = 0 /\ ~said
          /\ verdict' = "WallClock" => still >= Window
          /\ verdict' = "Overall" => still < Window /\ elapsed + 1 >= Cap
      BY <2>6, <2>8, <2>10 DEF ReaperInv, ReaperTypes, Concluded
    <3>2. verdict' = "Overall" => Timed
      BY <2>6, <2>8, <3>1
    <3>3. (ReaperTypes /\ best <= Reading(own) /\ Behindhand /\ Uncounted /\ Waiting)'
      BY <2>2, <2>4, <2>5, <2>6, <2>7, <2>10, <3>1
         DEF ReaperInv, ReaperTypes, Behindhand, Uncounted, Waiting
    <3>4. Concludes'
      BY <2>2, <2>4, <2>5, <2>6, <2>7, <2>8, <3>1, <3>2
         DEF ReaperInv, ReaperTypes, Concludes
    <3>5. QED
      BY <3>3, <3>4 DEF ReaperInv
  <2>11. QED
    BY <2>3, <2>9, <2>10
<1>3. QED
  BY <1>1, <1>2

\* What a reading charges: an honest report in full, and none for less than
\* the reading less the gap.
LEMMA HonestlyCharged ==
  ASSUME own \in Nat, extra \in 0 .. Gap
  PROVE  /\ MeasuredTime(own, Reading(own)) = own
         /\ \A forged \in 0 .. own : MeasuredTime(forged, Reading(own)) >= own - Gap
BY DEF MeasuredTime, Reading, Gap

\* Whatever the limits, the load and the program: nobody is reaped without
\* the cause they are told, and everybody is in the end (docker.rs,
\* Reaper::tick and measured_time).
THEOREM ReapersHaveCauses == ReaperSpec => []ReapedWithCause
<1>1. ReaperInv => ReapedWithCause
  <2> SUFFICES ASSUME ReaperInv PROVE ReapedWithCause
    OBVIOUS
  <2>1. elapsed >= (IF Timed THEN 5 * (limit + Allowance) ELSE Untimed) => verdict # "waiting"
    BY ReaperAssumption
       DEF ReaperInv, ReaperTypes, Waiting, Cap, CapOf, CeilingOf, Allowance, Timed
  <2>2. Timed => Window < Cap
    BY DEF ReaperInv, ReaperTypes, Window, WindowOf, Cap, CapOf, CeilingOf, Timed, Allowance
  <2>3. QED
    BY <2>1, <2>2, HonestlyCharged DEF ReaperInv, ReaperTypes, Concludes, ReapedWithCause
<1>2. QED
  BY <1>1, ReaperInvInit, ReaperInvStep, PTL DEF ReaperSpec

-----------------------------------------------------------------------------
(* What a configuration means.                                             *)

\* A partial statement of limits, a layer that has one for some keys, and a
\* configuration that may name any of these languages.
Statement == [Fields -> Nat \cup {Unset}]
Layer(keys) == UNION {[K -> Statement] : K \in SUBSET keys}
AnyConfiguration(languages) ==
  [limits : Statement, overrideLimits : Layer(languages), groupLimits : Layer(Nat)]

\* The same of an overlay, which may also take a member back.
Overlay == [Fields -> Nat \cup {Unset, Null}]
OverlayLayer(keys) == UNION {[K -> Overlay] : K \in SUBSET keys}
AnyOverlay(languages) ==
  [limits : Overlay, overrideLimits : OverlayLayer(languages), groupLimits : OverlayLayer(Nat)]

\* What a layer says of a field for an entry, if anything.
Says(layer, entry, f) == IF entry \in DOMAIN layer THEN layer[entry][f] ELSE Unset

\* The one that is laid over another wins where it says something.
Over(above, below) == IF above # Unset THEN above ELSE below

\* And an overlay's null leaves nothing said.
Laid(above, below) == IF above = Null THEN Unset ELSE Over(above, below)

LEMMA LayerValues ==
  ASSUME NEW keys, NEW layer \in Layer(keys), NEW entry \in DOMAIN layer
  PROVE  layer[entry] \in Statement
BY DEF Layer

LEMMA SaysType ==
  ASSUME NEW keys, NEW layer \in Layer(keys), NEW entry, NEW f \in Fields
  PROVE  Says(layer, entry, f) \in Nat \cup {Unset}
BY LayerValues DEF Says, Statement

LEMMA OverlaySaysType ==
  ASSUME NEW keys, NEW layer \in OverlayLayer(keys), NEW entry, NEW f \in Fields
  PROVE  Says(layer, entry, f) \in Nat \cup {Unset, Null}
BY DEF Says, OverlayLayer, Overlay

LEMMA ApplySays ==
  ASSUME NEW below, NEW above, NEW f \in Fields
  PROVE  Apply(below, above)[f] = Over(above[f], below[f])
BY DEF Apply, Over

\* Laid over one another, two layers say together what the upper says, and
\* what the lower does where the upper is silent, and nothing where it is null.
LEMMA MergedSays ==
  ASSUME NEW keys, NEW below \in Layer(keys), NEW above \in OverlayLayer(keys), NEW entry,
         NEW f \in Fields
  PROVE  Says(MergeKeyed(below, above), entry, f) = Laid(Says(above, entry, f), Says(below, entry, f))
<1> DEFINE both == MergeKeyed(below, above)
<1>1. DOMAIN both = DOMAIN below \cup DOMAIN above
  BY DEF MergeKeyed
<1>said. Says(below, entry, f) # Null
  BY SaysType DEF Null, Unset
<1>2. CASE entry \notin DOMAIN both
  BY <1>1, <1>2 DEF Says, Over, Laid, Null, Unset
<1>3. CASE entry \in DOMAIN above /\ entry \in DOMAIN below
  <2>1. both[entry] = ReadBack(Apply(below[entry], above[entry]))
    BY <1>3 DEF MergeKeyed, Merge
  <2>2. Apply(below[entry], above[entry])[f] = Over(above[entry][f], below[entry][f])
    BY ApplySays
  <2>3. below[entry][f] # Null
    BY <1>said, <1>3 DEF Says
  <2>4. QED
    BY <1>1, <1>3, <2>1, <2>2, <2>3 DEF Says, ReadBack, Laid, Over, Null, Unset
<1>4. CASE entry \in DOMAIN above /\ entry \notin DOMAIN below
  <2>1. both[entry] = ReadBack(above[entry])
    BY <1>4 DEF MergeKeyed
  <2>2. QED
    BY <1>1, <1>4, <2>1 DEF Says, Over, ReadBack, Laid
<1>5. CASE entry \notin DOMAIN above /\ entry \in DOMAIN below
  <2>1. both[entry] = ReadBack(below[entry])
    BY <1>5 DEF MergeKeyed
  <2>2. below[entry][f] # Null
    BY <1>said, <1>5 DEF Says
  <2>3. QED
    BY <1>1, <1>5, <2>1, <2>2 DEF Says, Over, ReadBack, Laid, Null, Unset
<1>6. QED
  BY <1>1, <1>2, <1>3, <1>4, <1>5

LEMMA OverlaidParts ==
  ASSUME NEW languages, NEW config \in AnyConfiguration(languages),
         NEW overlay \in AnyOverlay(languages)
  PROVE  /\ Overlaid(config, overlay).limits = Apply(config.limits, overlay.limits)
         /\ Overlaid(config, overlay).overrideLimits
              = MergeKeyed(config.overrideLimits, overlay.overrideLimits)
         /\ Overlaid(config, overlay).groupLimits
              = MergeKeyed(config.groupLimits, overlay.groupLimits)
BY DEF AnyConfiguration, AnyOverlay, Overlaid, Merge

\* A group runs under what its own layer says, or its toolchain's, or its
\* family's, or else the package's.
LEMMA EffectiveSays ==
  ASSUME NEW config, NEW g \in DOMAIN config.groupLimits, NEW family, NEW toolchain,
         NEW f \in Fields
  PROVE  Effective(config, g, family, toolchain)[f] =
           Over(Says(config.groupLimits, g, f),
             Over(Says(config.overrideLimits, toolchain, f),
               Over(Says(config.overrideLimits, family, f), config.limits[f])))
<1>1. \A entry : Keyed(config, entry)[f] = Says(config.overrideLimits, entry, f)
  BY DEF Keyed, Says
<1>2. QED
  BY <1>1, ApplySays DEF Effective, ForLanguage, Says

\* The first of four that says something, when the last one does.
LEMMA FirstOfFour ==
  ASSUME NEW a, NEW b, NEW c, NEW d, d # Unset
  PROVE  FirstSaid(<<a, b, c, d>>) = Over(a, Over(b, Over(c, d)))
<1> DEFINE candidates == <<a, b, c, d>>
           First(i) == candidates[i] # Unset /\ \A j \in 1 .. i - 1 : candidates[j] = Unset
<1>1. DOMAIN candidates = 1 .. 4
  OBVIOUS
<1>2. candidates[1] = a /\ candidates[2] = b /\ candidates[3] = c /\ candidates[4] = d
  OBVIOUS
<1> HIDE DEF candidates
<1>3. \E i \in 1 .. 4 : First(i)
  BY <1>2
<1>4. PICK i \in 1 .. 4 : i = (CHOOSE k \in 1 .. 4 : First(k)) /\ First(i)
  BY <1>3
<1>5. candidates[i] = Over(a, Over(b, Over(c, d)))
  BY <1>2, <1>4 DEF Over
<1>6. FirstSaid(candidates) = candidates[i]
  BY <1>1, <1>4 DEF FirstSaid
<1>7. QED
  BY <1>5, <1>6 DEF candidates

\* The layer that says most wins, for every configuration and every overlay.
LEMMA LimitsAreLayered ==
  ASSUME NEW languages, NEW config \in AnyConfiguration(languages),
         NEW overlay \in AnyOverlay(languages),
         NEW family, NEW toolchain
  PROVE  LimitsStated(config, overlay, family, toolchain)
<1> DEFINE merged == Overlaid(config, overlay)
           said(layer, entry, f) == SaidIn(config, overlay, layer, entry, f)
           whole(f) == SaidOfAll(config, overlay, f)
           under(groups, g) ==
             Effective(Overlaid(config, OnlyGroups(overlay, groups)), g, family, toolchain)
<1>1. /\ \A layer \in {"overrideLimits", "groupLimits"} : \E keys :
             config[layer] \in Layer(keys) /\ overlay[layer] \in OverlayLayer(keys)
      /\ config.limits \in Statement /\ overlay.limits \in Overlay
  BY DEF AnyConfiguration, AnyOverlay
<1>2. \A layer \in {"overrideLimits", "groupLimits"} : \A entry : \A f \in Fields :
         said(layer, entry, f) = Laid(Says(overlay[layer], entry, f), Says(config[layer], entry, f))
  BY DEF SaidIn, Says, Over, Laid, Null, Unset
<1>3. ASSUME NEW g \in DOMAIN merged.groupLimits, NEW f \in Fields,
             Validated(config), Validated(merged)
      PROVE  /\ Effective(merged, g, family, toolchain)[f]
                  = FirstSaid(<<said("groupLimits", g, f), said("overrideLimits", toolchain, f),
                                said("overrideLimits", family, f), whole(f)>>)
             /\ Effective(merged, g, family, toolchain)[f] > 0
             /\ \A h \in DOMAIN config.groupLimits \ {g} : under({g}, h) = under({}, h)
  <2>1. merged.limits[f] = whole(f)
    BY OverlaidParts, ApplySays DEF Over, SaidOfAll
  <2>2. \A entry : Says(merged.overrideLimits, entry, f) = said("overrideLimits", entry, f)
    BY <1>1, <1>2, OverlaidParts, MergedSays
  <2>3. Says(merged.groupLimits, g, f) = said("groupLimits", g, f)
    BY <1>1, <1>2, OverlaidParts, MergedSays
  <2>4. whole(f) > 0 /\ whole(f) # Unset
    BY <1>1, <1>3, <2>1 DEF Validated, Statement, Overlay, Unset
  <2>5. Effective(merged, g, family, toolchain)[f] =
          Over(said("groupLimits", g, f),
            Over(said("overrideLimits", toolchain, f),
              Over(said("overrideLimits", family, f), whole(f))))
    BY <2>1, <2>2, <2>3, EffectiveSays
  <2>6. ASSUME NEW entry, said("overrideLimits", entry, f) # Unset
        PROVE  said("overrideLimits", entry, f) > 0
    <3>1. Says(merged.overrideLimits, entry, f) # Unset
      BY <2>2, <2>6
    <3>2. entry \in DOMAIN merged.overrideLimits /\ merged.overrideLimits[entry][f] # 0
      BY <1>3, <3>1 DEF Says, Validated
    <3>3. said("overrideLimits", entry, f) = merged.overrideLimits[entry][f]
      BY <2>2, <3>2 DEF Says
    <3>4. said("overrideLimits", entry, f) \in Nat \cup {Unset}
      BY <1>1, <1>2, SaysType, OverlaySaysType DEF Over, Laid
    <3>5. QED
      BY <2>6, <3>2, <3>3, <3>4 DEF Unset
  <2>7. said("groupLimits", g, f) # Unset => said("groupLimits", g, f) > 0
    <3>1. said("groupLimits", g, f) = merged.groupLimits[g][f]
      BY <1>3, <2>3 DEF Says
    <3>2. merged.groupLimits[g][f] # 0
      BY <1>3 DEF Validated
    <3>3. said("groupLimits", g, f) \in Nat \cup {Unset}
      BY <1>1, <1>2, SaysType, OverlaySaysType DEF Over, Laid
    <3>4. QED
      BY <3>1, <3>2, <3>3 DEF Unset
  <2>8. Effective(merged, g, family, toolchain)[f] > 0
    BY <2>4, <2>5, <2>6, <2>7 DEF Over
  <2>9. ASSUME NEW h \in DOMAIN config.groupLimits \ {g}
        PROVE  under({g}, h) = under({}, h)
    <3> DEFINE with == Overlaid(config, OnlyGroups(overlay, {g}))
               without == Overlaid(config, OnlyGroups(overlay, {}))
    <3>1. with.limits = without.limits /\ with.overrideLimits = without.overrideLimits
      BY DEF AnyConfiguration, AnyOverlay, Overlaid, OnlyGroups
    <3>2. \E one :
            /\ with.groupLimits = MergeKeyed(config.groupLimits, [k \in {g} |-> one])
            /\ without.groupLimits = MergeKeyed(config.groupLimits, [k \in {} |-> one])
      BY DEF AnyConfiguration, AnyOverlay, Overlaid, OnlyGroups
    <3>3. with.groupLimits[h] = without.groupLimits[h]
      BY <2>9, <3>2 DEF MergeKeyed
    <3> HIDE DEF with, without
    <3>4. Effective(with, h, family, toolchain) = Effective(without, h, family, toolchain)
      BY <3>1, <3>3 DEF Effective, ForLanguage, Keyed
    <3>5. QED
      BY <3>4 DEF with, without
  <2>10. QED
    BY <2>4, <2>5, <2>8, <2>9, FirstOfFour
<1>4. QED
  BY <1>3 DEF LimitsStated

-----------------------------------------------------------------------------
(* Which tests a package has.                                              *)

\* The tests a count names are as many as it says.
LEMMA CountedNames ==
  ASSUME NEW g, NEW n \in Nat
  PROVE  Cardinality({<<g, letter>> : letter \in 1 .. n}) = n
<1> DEFINE S == {<<g, letter>> : letter \in 1 .. n}
           f == [letter \in 1 .. n |-> <<g, letter>>]
<1>1. f \in Bijection(1 .. n, S)
  <2>1. f \in [1 .. n -> S]
    OBVIOUS
  <2>2. \A a, b \in 1 .. n : f[a] = f[b] => a = b
    OBVIOUS
  <2>3. \A t \in S : \E a \in 1 .. n : f[a] = t
    OBVIOUS
  <2>4. QED
    BY <2>1, <2>2, <2>3 DEF Bijection, Injection, Surjection, IsInjective
<1>2. ExistsBijection(1 .. n, S)
  BY <1>1 DEF ExistsBijection
<1>3. QED
  BY <1>2, FS_CountingElements

\* What a package's files and counts can be.
Files == UNION {[names -> SUBSET {"in", "out"}] : names \in SUBSET (Nat \X Nat)}
Declared == UNION {[groups -> Nat \cup {Unset}] : groups \in SUBSET Nat}

\* A group with a count has the tests it names and no other.
LEMMA CountedGroup ==
  ASSUME NEW judges, NEW counts \in Declared, NEW files \in Files,
         Reads(judges, counts, files),
         NEW g \in DOMAIN counts, counts[g] # Unset
  PROVE  InGroup(Tests(counts, files), g) = counts[g]
<1>1. counts[g] \in Nat
  <2>1. PICK groups \in SUBSET Nat : counts \in [groups -> Nat \cup {Unset}]
    BY DEF Declared
  <2>2. counts[g] \in Nat \cup {Unset}
    BY ONLY <2>1, g \in DOMAIN counts
  <2>3. QED
    BY <2>2
<1> DEFINE named == {<<g, letter>> : letter \in 1 .. counts[g]}
           ofGroup == {n \in Tests(counts, files) : n[1] = g}
<1>2. named \subseteq ofGroup
  BY DEF Tests, Named
<1>3. ASSUME NEW n \in ofGroup
      PROVE  n \in named
  <2>1. n \in Named(counts)
    BY <1>3 DEF Reads, Tests, OutsideACount
  <2>2. PICK S \in {{<<h, letter>> : letter \in 1 .. counts[h]} :
                     h \in {k \in DOMAIN counts : counts[k] # Unset}} : n \in S
    BY <2>1 DEF Named
  <2>3. PICK h \in DOMAIN counts : S = {<<h, letter>> : letter \in 1 .. counts[h]}
    BY <2>2
  <2>4. PICK letter \in 1 .. counts[h] : n = <<h, letter>>
    BY <2>2, <2>3
  <2>5. QED
    BY <1>3, <2>3, <2>4
<1>4. ofGroup = named
  BY <1>2, <1>3
<1>5. InGroup(Tests(counts, files), g) = Cardinality(ofGroup)
  BY DEF InGroup
<1> HIDE DEF ofGroup
<1>6. QED
  BY <1>1, <1>4, <1>5, CountedNames

\* No test is passed over and no count is missed, whatever the files.
LEMMA EveryTestCounts ==
  ASSUME NEW judges \in SUBSET {"checker", "interactor"},
         NEW counts \in Declared, NEW files \in Files
  PROVE  Counted(judges, counts, files)
<1> SUFFICES ASSUME Reads(judges, counts, files) PROVE Counted(judges, counts, files)
  BY DEF Counted
<1> DEFINE tests == Tests(counts, files)
<1>2. \A n \in DOMAIN files : files[n] # {} => n \in tests
  BY DEF Tests, Found
<1>3. ASSUME NEW g \in DOMAIN counts
      PROVE  /\ InGroup(tests, g) > 0
             /\ counts[g] # Unset => InGroup(tests, g) = counts[g]
  BY CountedGroup DEF Reads
<1>4. ASSUME NEW n \in tests
      PROVE  /\ n[1] \in DOMAIN counts
             /\ judges = {} => n \in DOMAIN files /\ files[n] = {"in", "out"}
             /\ judges = {"checker"} => n \in DOMAIN files /\ "in" \in files[n]
  <2>1. /\ n[1] \in DOMAIN counts
        /\ n \in DOMAIN files => Required(judges) \subseteq files[n]
        /\ n \notin DOMAIN files => Required(judges) = {}
    BY <1>4 DEF Reads
  <2>2. n \in DOMAIN files => files[n] \subseteq {"in", "out"}
    BY DEF Files
  <2>3. QED
    BY <2>1, <2>2 DEF Required
<1>5. Cardinality(judges) < 2
  <2>1. judges # {"checker", "interactor"}
    BY DEF Reads, JudgedBy
  <2>2. judges = {} \/ judges = {"checker"} \/ judges = {"interactor"}
    BY <2>1
  <2>3. QED
    <3>1. Cardinality({}) = 0
      BY FS_EmptySet
    <3>2. \A x : Cardinality({x}) = 1
      BY FS_Singleton
    <3>3. CASE judges = {}
      BY <3>1, <3>3
    <3>4. CASE judges = {"checker"} \/ judges = {"interactor"}
      BY <3>2, <3>4
    <3>5. QED
      BY <2>2, <3>3, <3>4
<1> HIDE DEF tests
<1>6. QED
  BY <1>2, <1>3, <1>4, <1>5 DEF Counted, tests

-----------------------------------------------------------------------------
(* The cases of the run are among those.                                   *)

LEMMA ALayer ==
  ASSUME NEW keys, NEW K \in SUBSET keys, NEW layer \in [K -> Statement]
  PROVE  layer \in Layer(keys)
BY DEF Layer

LEMMA StatedIsOne ==
  ASSUME NEW base \in Nat, NEW F \in SUBSET Fields
  PROVE  Stated(base, F) \in Statement
BY DEF Stated, Statement

LEMMA EntriesAreLayers ==
  ASSUME NEW base \in Nat, NEW all, NEW keys \in SUBSET all
  PROVE  Entries(keys, base) \subseteq Layer(all)
<1> SUFFICES ASSUME NEW entries \in Entries(keys, base) PROVE entries \in Layer(all)
  OBVIOUS
<1>1. PICK K \in SUBSET keys : entries \in [K -> {Stated(base, F) : F \in SUBSET Fields}]
  BY Zenon DEF Entries
<1>2. {Stated(base, F) : F \in SUBSET Fields} \subseteq Statement
  BY StatedIsOne
<1>3. entries \in [K -> Statement]
  BY <1>1, <1>2
<1>4. K \in SUBSET all
  OBVIOUS
<1>5. QED
  BY <1>3, <1>4, ALayer

LEMMA ConfigurationsAreSome ==
  Configurations \subseteq AnyConfiguration({"cpp", "cpp17"})
<1>1. [1 .. 2 -> {Stated(5, F) : F \in SUBSET Fields}] \subseteq Layer(Nat)
  <2>1. [1 .. 2 -> {Stated(5, F) : F \in SUBSET Fields}] \subseteq [1 .. 2 -> Statement]
    BY StatedIsOne
  <2>2. 1 .. 2 \in SUBSET Nat
    OBVIOUS
  <2>3. QED
    BY <2>1, <2>2, ALayer
<1>2. {[f \in Fields |-> 9]} \subseteq Statement
  BY DEF Statement
<1>3. Entries({"cpp", "cpp17"}, 7) \subseteq Layer({"cpp", "cpp17"})
  BY EntriesAreLayers
<1>4. QED
  BY <1>1, <1>2, <1>3 DEF Configurations, AnyConfiguration

LEMMA AnOverlay ==
  ASSUME NEW keys, NEW K \in SUBSET keys, NEW layer \in [K -> Overlay]
  PROVE  layer \in OverlayLayer(keys)
BY DEF OverlayLayer

LEMMA StatedOver ==
  ASSUME NEW base \in Nat \cup {Null}, NEW F \in SUBSET Fields
  PROVE  Stated(base, F) \in Overlay
BY DEF Stated, Overlay

LEMMA EntriesLayOver ==
  ASSUME NEW base \in Nat \cup {Null}, NEW all, NEW keys \in SUBSET all
  PROVE  Entries(keys, base) \subseteq OverlayLayer(all)
<1> SUFFICES ASSUME NEW entries \in Entries(keys, base) PROVE entries \in OverlayLayer(all)
  OBVIOUS
<1>1. PICK K \in SUBSET keys : entries \in [K -> {Stated(base, F) : F \in SUBSET Fields}]
  BY Zenon DEF Entries
<1>2. {Stated(base, F) : F \in SUBSET Fields} \subseteq Overlay
  BY StatedOver
<1>3. entries \in [K -> Overlay]
  BY <1>1, <1>2
<1>4. K \in SUBSET all
  OBVIOUS
<1>5. QED
  BY <1>3, <1>4, AnOverlay

LEMMA OverlaysAreSome ==
  Overlays \subseteq AnyOverlay({"cpp", "cpp17"})
<1> DEFINE ofAll == {Stated(8, F) : F \in SUBSET Fields} \cup {Stated(Null, {"memory"})}
           ofCpp == UNION {[{"cpp"} -> {Stated(v, F) : F \in SUBSET Fields}] : v \in {6, 0, Null}}
           ofNone == {[k \in {} |-> Stated(0, {})]}
           ofGroups == Entries({1}, 4) \cup Entries({1}, Null)
<1>1. ofAll \subseteq Overlay
  BY StatedOver DEF Fields
<1>2. ofCpp \subseteq OverlayLayer({"cpp", "cpp17"})
  <2> SUFFICES ASSUME NEW v \in {6, 0, Null},
                      NEW layer \in [{"cpp"} -> {Stated(v, F) : F \in SUBSET Fields}]
               PROVE  layer \in OverlayLayer({"cpp", "cpp17"})
    OBVIOUS
  <2>1. v \in Nat \cup {Null}
    OBVIOUS
  <2>2. layer \in [{"cpp"} -> Overlay]
    BY <2>1, StatedOver
  <2>3. QED
    BY <2>2, AnOverlay
<1>3. ofNone \subseteq OverlayLayer({"cpp", "cpp17"})
  <2>1. [k \in {} |-> Stated(0, {})] \in [{} -> Overlay]
    OBVIOUS
  <2>2. QED
    BY <2>1, AnOverlay
<1>4. ofGroups \subseteq OverlayLayer(Nat)
  <2>1. 4 \in Nat \cup {Null} /\ Null \in Nat \cup {Null} /\ {1} \in SUBSET Nat
    OBVIOUS
  <2>2. Entries({1}, 4) \subseteq OverlayLayer(Nat) /\ Entries({1}, Null) \subseteq OverlayLayer(Nat)
    BY <2>1, EntriesLayOver, Zenon
  <2>3. QED
    BY <2>2
<1>5. Overlays = [limits : ofAll, overrideLimits : ofCpp \cup ofNone, groupLimits : ofGroups]
  BY DEF Overlays
<1> HIDE DEF ofAll, ofCpp, ofNone, ofGroups
<1>6. QED
  BY <1>1, <1>2, <1>3, <1>4, <1>5 DEF AnyOverlay

LEMMA PackagesAreSome == Counts \subseteq Declared /\ Filed \subseteq Files
<1>1. ASSUME NEW G \in SUBSET (1 .. 2), NEW counts \in [G -> {Unset, 0, 1, 2, 3}]
      PROVE  counts \in [G -> Nat \cup {Unset}]
  OBVIOUS
<1>2. (1 .. 2) \X (1 .. 2) \in SUBSET (Nat \X Nat)
  OBVIOUS
<1>3. QED
  BY <1>1, <1>2 DEF Counts, Declared, Filed, Files

\* The case is chosen once.
CaseFits ==
  /\ rule = "limits" => case \in Configurations \X Overlays
  /\ rule = "tests" => case \in Judges \X Counts \X Filed

LEMMA CasesFit == RulesSpec => []CaseFits
<1>1. RulesInit => CaseFits
  BY DEF RulesInit, Cases, CaseFits
<1>2. CaseFits /\ [RulesNext]_<<rule, case, vars, reaperVars, startVars>> => CaseFits'
  BY DEF RulesNext, CaseFits
<1>3. QED
  BY <1>1, <1>2, PTL DEF RulesSpec

\* For every configuration and every overlay, of any languages and groups and
\* with any members null, a test runs under the most specific limit anybody
\* stated, the overlay's word before the package's and its null taking that
\* back; which holds of the cases of the run (config.rs, overlaid, merge and
\* effective).
THEOREM LimitsAreAsStated ==
  /\ \A languages : \A config \in AnyConfiguration(languages), overlay \in AnyOverlay(languages) :
       \A family, toolchain : LimitsStated(config, overlay, family, toolchain)
  /\ RulesSpec => []LimitsHold
<1>1. \A languages : \A config \in AnyConfiguration(languages), overlay \in AnyOverlay(languages) :
         \A family, toolchain : LimitsStated(config, overlay, family, toolchain)
  BY LimitsAreLayered
<1>2. CaseFits => LimitsHold
  BY <1>1, ConfigurationsAreSome, OverlaysAreSome DEF CaseFits, LimitsHold
<1>3. QED
  BY <1>1, <1>2, CasesFit, PTL

\* For every set of files, counts and judges, a package that is read has every
\* test its author wrote and as many of a group as it declares (testset.rs, read).
THEOREM EveryTestIsCounted ==
  /\ \A judges \in SUBSET {"checker", "interactor"} :
       \A counts \in Declared, files \in Files : Counted(judges, counts, files)
  /\ RulesSpec => []TestsAreCounted
<1>1. \A judges \in SUBSET {"checker", "interactor"} :
         \A counts \in Declared, files \in Files : Counted(judges, counts, files)
  BY EveryTestCounts
<1>2. CaseFits => TestsAreCounted
  BY <1>1, PackagesAreSome DEF CaseFits, TestsAreCounted, Judges
<1>3. QED
  BY <1>1, <1>2, CasesFit, PTL

-----------------------------------------------------------------------------
(* The start of a Runner: what is always so, on the way to being at work.  *)

\* Where the process is, as far as the proofs tell.
Unnamed == {"down", "identity", "write", "rename"}
BeforeImages == Unnamed \cup {"width", "preflight", "images"}

KeyTypes ==
  /\ at \in Steps \cup {"down"}
  /\ key \in Nat /\ partial \in Nat /\ mine \in Nat /\ made \in Nat

\* A key is written only where there is none, and renamed as it was written.
KeyWritten ==
  /\ at \in {"write", "rename"} => key = 0 /\ mine # 0
  /\ at = "rename" => partial = mine

\* A process past its identity works under the key on disk.
KeyTaken == at \notin Unnamed => mine = key /\ key # 0

\* The Server has a row for that key or for none, and no key is zero.
OneRow == rows \subseteq {key} /\ 0 \notin rows /\ approved \subseteq rows

KInv == KeyTypes /\ KeyWritten /\ KeyTaken /\ OneRow

\* What each step of the start may take as shown.
Shown ==
  /\ at \notin Unnamed \cup {"width"} => "width" \in proven
  /\ at \notin Unnamed \cup {"width", "preflight"} =>
        "measured" \in proven \/ (allowed /\ "unmeasured" \in proven)
  /\ at \notin BeforeImages =>
        "images" \in proven /\ \A i \in Images : here[i] = "judging"
  /\ at \notin BeforeImages \cup {"mount"} => "mount" \in proven
  /\ at \notin BeforeImages \cup {"mount", "sweep"} => "swept" \in proven

\* Who works was approved.
Admitted == at = "working" => token /\ mine \in approved

-----------------------------------------------------------------------------
(* The identity.                                                           *)

LEMMA InitKInv == StartInit => KInv
BY DEF StartInit, KInv, KeyTypes, KeyWritten, KeyTaken, OneRow, Unnamed

\* A process that begins, or ends, takes no key with it.
LEMMA ProcessKInv ==
  ASSUME KInv, Start \/ Exit
  PROVE  KInv'
<1>1. CASE Start
  BY <1>1 DEF Start, Goto, disk, server, Steps, Unnamed, KInv, KeyTypes,
     KeyWritten, KeyTaken, OneRow
<1>2. CASE Exit
  BY <1>2 DEF Exit, Goto, disk, server, Unnamed, KInv, KeyTypes, KeyWritten,
     KeyTaken, OneRow
<1>3. QED
  BY <1>1, <1>2

\* The key is read or made whole.
LEMMA IdentityKInv ==
  ASSUME KInv, LoadOrCreate \/ WriteKey \/ RenameKey
  PROVE  KInv'
<1>1. CASE LoadOrCreate
  BY <1>1 DEF LoadOrCreate, Goto, disk, server, Steps, Unnamed, KInv, KeyTypes,
     KeyWritten, KeyTaken, OneRow
<1>2. CASE WriteKey
  BY <1>2 DEF WriteKey, Goto, server, Steps, Unnamed, KInv, KeyTypes,
     KeyWritten, KeyTaken, OneRow
<1>3. CASE RenameKey
  <2>1. key = 0 /\ mine # 0 /\ partial = mine /\ rows = {} /\ approved = {}
    BY <1>3 DEF RenameKey, KInv, KeyWritten, OneRow
  <2>2. key' = mine /\ mine' = mine /\ at' = "width" /\ rows' = {} /\ approved' = {}
    BY <1>3, <2>1 DEF RenameKey, Goto, server
  <2>3. QED
    BY <1>3, <2>1, <2>2 DEF RenameKey, Steps, Unnamed, KInv, KeyTypes,
       KeyWritten, KeyTaken, OneRow
<1>4. QED
  BY <1>1, <1>2, <1>3

\* What is proven says nothing of the key.
LEMMA ProvingKInv ==
  ASSUME KInv,
         WidthFits \/ Preflight \/ BelowSpecification \/ Ready \/ CanMount \/ Sweep
  PROVE  KInv'
<1>1. /\ UNCHANGED <<key, partial, mine, made, rows, approved>>
      /\ at \in Steps \ Unnamed /\ at' \in Steps \ Unnamed
  BY DEF WidthFits, Preflight, BelowSpecification, Ready, CanMount, Sweep, Prove,
     Goto, disk, server, Steps, Unnamed
<1>2. QED
  BY <1>1 DEF Unnamed, KInv, KeyTypes, KeyWritten, KeyTaken, OneRow

\* The handshake adds one row, for the key on disk.
LEMMA HandshakeKInv ==
  ASSUME KInv,
         \/ Challenge \/ ChallengeForToken \/ Register \/ Approve \/ Authenticate
         \/ ServerForgets \/ Readmitted \/ Pull
  PROVE  KInv'
<1>1. CASE Register
  <2>1. /\ UNCHANGED <<key, partial, mine, made, approved>>
        /\ at = "register" /\ at' \in {"approval", "challenge"}
        /\ rows' = rows \cup {mine}
    BY <1>1 DEF Register, disk
  <2>2. mine = key /\ key # 0
    BY <2>1 DEF KInv, KeyTaken, Unnamed
  <2>3. QED
    BY <2>1, <2>2 DEF Steps, Unnamed, KInv, KeyTypes, KeyWritten, KeyTaken, OneRow
<1>2. CASE Approve
  BY <1>2 DEF Approve, disk, Unnamed, KInv, KeyTypes, KeyWritten, KeyTaken, OneRow
<1>3. CASE ServerForgets \/ Pull
  BY <1>3 DEF ServerForgets, Pull, disk, server, Unnamed, KInv, KeyTypes,
     KeyWritten, KeyTaken, OneRow
<1>4. CASE Challenge \/ ChallengeForToken \/ Authenticate \/ Readmitted
  <2>1. /\ UNCHANGED <<key, partial, mine, made, rows, approved>>
        /\ at \in Steps \ Unnamed /\ at' \in Steps \ Unnamed
    BY <1>4 DEF Challenge, ChallengeForToken, Authenticate, Readmitted,
       ServeChallenge, Goto, disk, server, Steps, Unnamed
  <2>2. QED
    BY <2>1 DEF Unnamed, KInv, KeyTypes, KeyWritten, KeyTaken, OneRow
<1>5. QED
  BY <1>1, <1>2, <1>3, <1>4

LEMMA StepKInv == KInv /\ [StartNext]_startVars => KInv'
<1> SUFFICES ASSUME KInv, [StartNext]_startVars PROVE KInv'
  OBVIOUS
<1>1. CASE UNCHANGED startVars
  BY <1>1 DEF startVars, disk, server, Unnamed, KInv, KeyTypes, KeyWritten, KeyTaken, OneRow
<1>2. CASE StartNext
  BY <1>2, ProcessKInv, IdentityKInv, ProvingKInv, HandshakeKInv DEF StartNext
<1>3. QED
  BY <1>1, <1>2

\* However often a start is cut short, between any two steps of it, the Server
\* never has a second row for a Runner, and the row it has is the key on disk
\* (identity.rs, load_or_create; client.rs, register).
THEOREM IdentityIsOne == StartSpec => []OneIdentity
<1>1. KInv => OneIdentity
  BY DEF KInv, KeyTypes, KeyTaken, OneRow, OneIdentity, Unnamed, Steps
<1>2. QED
  BY <1>1, InitKInv, StepKInv, PTL DEF StartSpec

-----------------------------------------------------------------------------
(* What is shown before anything is claimed.                               *)

LEMMA InitShown == StartInit => Shown /\ Admitted
BY DEF StartInit, Shown, Admitted, Unnamed, BeforeImages

\* Whoever begins again has been shown nothing, and is asked for everything.
LEMMA BeginsShown ==
  ASSUME Start \/ Exit \/ LoadOrCreate \/ WriteKey \/ RenameKey
  PROVE  (Shown /\ Admitted)'
<1>1. at' \in {"down", "identity", "write", "rename", "width"}
  BY DEF Start, Exit, LoadOrCreate, WriteKey, RenameKey, Goto
<1>2. QED
  BY <1>1 DEF Shown, Admitted, Unnamed, BeforeImages

\* Each thing shown is the next step's, and nothing is skipped.
LEMMA ProvesShown ==
  ASSUME Shown,
         WidthFits \/ Preflight \/ BelowSpecification \/ Ready \/ CanMount \/ Sweep
  PROVE  (Shown /\ Admitted)'
<1>1. CASE WidthFits
  BY <1>1 DEF WidthFits, Prove, Goto, Shown, Admitted, Unnamed, BeforeImages
<1>2. CASE Preflight \/ BelowSpecification
  BY <1>2 DEF Preflight, BelowSpecification, Prove, Goto, Shown, Admitted, Unnamed,
     BeforeImages
<1>3. CASE Ready
  BY <1>3 DEF Ready, Prove, Goto, Shown, Admitted, Unnamed, BeforeImages
<1>4. CASE CanMount \/ Sweep
  BY <1>4 DEF CanMount, Sweep, Prove, Goto, Shown, Admitted, Unnamed, BeforeImages
<1>5. QED
  BY <1>1, <1>2, <1>3, <1>4

\* What was shown stays shown through the handshake, however often it is done.
LEMMA HandshakeShown ==
  ASSUME Shown, Admitted,
         \/ Challenge \/ ChallengeForToken \/ Register \/ Approve \/ Authenticate
         \/ ServerForgets \/ Readmitted
  PROVE  (Shown /\ Admitted)'
<1>1. UNCHANGED <<proven, allowed, here>>
  BY DEF Challenge, ChallengeForToken, ServeChallenge, Register, Approve,
     Authenticate, ServerForgets, Readmitted
<1>2. CASE UNCHANGED at /\ UNCHANGED <<token, mine>> /\ approved \subseteq approved'
  BY <1>1, <1>2 DEF Shown, Admitted
<1>3. CASE /\ at \in {"challenge", "register", "approval", "token", "working"}
           /\ at' \in {"challenge", "register", "approval", "token", "working"}
           /\ at' = "working" => (token /\ mine \in approved)'
  BY <1>1, <1>3 DEF Shown, Admitted, Unnamed, BeforeImages
<1>4. CASE Approve \/ ServerForgets
  BY <1>2, <1>4 DEF Approve, ServerForgets
<1>5. CASE Challenge \/ ChallengeForToken \/ Register \/ Authenticate \/ Readmitted
  BY <1>3, <1>5 DEF Challenge, ChallengeForToken, Register, Authenticate, Readmitted,
     Goto
<1>6. QED
  BY <1>4, <1>5

LEMMA StepShown == Shown /\ Admitted /\ [StartNext]_startVars => (Shown /\ Admitted)'
<1> SUFFICES ASSUME Shown, Admitted, [StartNext]_startVars PROVE (Shown /\ Admitted)'
  OBVIOUS
<1>1. CASE UNCHANGED startVars
  BY <1>1 DEF startVars, server, Shown, Admitted
<1>2. CASE Pull
  BY <1>2 DEF Pull, Shown, Admitted, Unnamed, BeforeImages
<1>3. CASE StartNext /\ ~Pull
  BY <1>3, BeginsShown, ProvesShown, HandshakeShown DEF StartNext
<1>4. QED
  BY <1>1, <1>2, <1>3

\* Whatever images are named and whatever a registry answers, a process that
\* claims has itself been shown all it needs, and works under an approved key
\* (main.rs, started; images.rs, ready).
THEOREM ClaimsAreProven == StartSpec => []NothingClaimedUnproven
<1>1. KInv /\ Shown /\ Admitted => NothingClaimedUnproven
  BY DEF KInv, KeyTaken, Shown, Admitted, NothingClaimedUnproven, Unnamed, BeforeImages
<1>2. StartSpec => [](Shown /\ Admitted)
  BY InitShown, StepShown, PTL DEF StartSpec
<1>3. StartSpec => []KInv
  BY InitKInv, StepKInv, PTL DEF StartSpec
<1>4. QED
  BY <1>1, <1>2, <1>3, PTL

=============================================================================
