--------------------------- MODULE Preparation_proofs ---------------------------
(***************************************************************************)
(* What a shared entry promises for any number of Runners, builds, moves   *)
(* of the image's tag and crashes: whoever is preparing has the lock, and  *)
(* what the manifest vouches for is whole.                                 *)
(***************************************************************************)
EXTENDS Preparation, TLAPS

\* Whoever is preparing has the lock.
LockHeld == \A r \in Runners : pc[r] \in Preparing => lock = r

\* What a preparation has got to: the name it fills for, which nobody vouches
\* for; the directory it fills, the whole one it is about to publish, the whole
\* one it has published and not yet recorded, and the build it no longer vouches
\* for and is about to move.
InHand ==
  \A r \in Runners :
    /\ pc[r] \in {"filling", "publishing"} => want[r] \notin manifest
    /\ pc[r] = "filling" => aside[r][want[r]] \in Dirs
    /\ pc[r] = "publishing" => aside[r][want[r]] \in whole
    /\ pc[r] = "recording" => shelf[want[r]] \in whole
    /\ pc[r] = "settingAside" => older[r] \notin manifest

PInv == TypeOK /\ LockHeld /\ InHand /\ RecordedIsWhole

\* One step of one Runner.
StepOf(r) ==
  \/ Begin(r) \/ Lock(r) \/ StopWaiting(r)
  \/ Prepares(r) \/ Judges(r) \/ Crash(r) \/ Restart(r)

-----------------------------------------------------------------------------
\* A change of one unfinished name.
LEMMA AsideChange ==
  ASSUME aside \in [Runners -> [Names -> Dirs \cup {NoDir}]],
         NEW r \in Runners, NEW n \in Names, NEW d \in Dirs \cup {NoDir},
         aside' = [aside EXCEPT ![r][n] = d]
  PROVE  /\ aside' \in [Runners -> [Names -> Dirs \cup {NoDir}]]
         /\ aside'[r][n] = d
  OBVIOUS

\* While one Runner prepares, no other does.
LEMMA LockedAlone ==
  ASSUME PInv, NEW r \in Runners, pc[r] \in Preparing, NEW s \in Runners \ {r}
  PROVE  pc[s] \notin Preparing
  BY DEF PInv, LockHeld

\* Every step keeps the types.
LEMMA StepTypes ==
  ASSUME PInv, NEW r \in Runners, StepOf(r)
  PROVE  TypeOK'
<1> USE PreparationAssumption
<1>1. CASE Begin(r)
  BY <1>1 DEF Begin, onDisk, world, PInv, TypeOK, At, Goto, Preparing,
     Names
<1>2. CASE Lock(r)
  BY <1>2 DEF Lock, Elsewhere, world, onDisk, PInv, TypeOK, At, Goto,
     Preparing, Names
<1>3. CASE StopWaiting(r)
  BY <1>3 DEF StopWaiting, Leave, onDisk, world, PInv, TypeOK, At, Goto,
     Preparing, Names
<1>4. CASE FoundPackage(r)
  BY <1>4 DEF FoundPackage, Elsewhere, world, onDisk, PInv, TypeOK, At,
     Goto, Preparing, Names
<1>5. CASE FoundJudge(r)
  BY <1>5 DEF FoundJudge, Elsewhere, world, onDisk, PInv, TypeOK, At,
     Goto, Preparing, Names
<1>6. CASE StartFilling(r)
  <2>1. PICK d \in Dirs : /\ aside' = [aside EXCEPT ![r][want[r]] = d]
                         /\ whole' = whole \ {d}
    BY <1>6 DEF StartFilling, Unused
  <2>2. aside' \in [Runners -> [Names -> Dirs \cup {NoDir}]]
    BY <2>1, AsideChange DEF PInv, TypeOK
  <2>3. QED
    BY <1>6, <2>1, <2>2 DEF StartFilling, Elsewhere, world, PInv, TypeOK,
       Goto, Preparing
<1>7. CASE Assembled(r)
  <2>1. aside[r][want[r]] \in Dirs
    BY <1>7 DEF Assembled, PInv, InHand, At
  <2>2. QED
    BY <1>7, <2>1 DEF Assembled, Elsewhere, world, PInv, TypeOK, Goto,
       Preparing
<1>8. CASE FillFails(r)
  <2>1. aside' \in [Runners -> [Names -> Dirs \cup {NoDir}]]
    BY <1>8, AsideChange DEF FillFails, PInv, TypeOK
  <2>2. shelf' \in [Names -> Dirs \cup {NoDir}]
    BY <1>8 DEF FillFails, PInv, TypeOK
  <2>3. QED
    BY <1>8, <2>1, <2>2 DEF FillFails, Leave, world, PInv, TypeOK, Goto
<1>8a. CASE GivesUp(r)
  BY <1>8a DEF GivesUp, Leave, onDisk, world, PInv, TypeOK, At, Goto,
     Preparing, Names
<1>9. CASE PublishRename(r)
  <2>1. aside' \in [Runners -> [Names -> Dirs \cup {NoDir}]]
    BY <1>9, AsideChange DEF PublishRename, PInv, TypeOK
  <2>2. QED
    BY <1>9, <2>1 DEF PublishRename, Elsewhere, world, PInv, TypeOK, Goto,
       Preparing
<1>10. CASE PublishRecord(r)
  <2>1. UNCHANGED <<lock, shelf, aside, whole, older, world, marker, mounts>>
    BY <1>10 DEF PublishRecord, Elsewhere
  <2>2. want[r] \in Names /\ image \in Names /\ image \in Keys
    BY DEF PInv, TypeOK, Names
  <2>3. manifest' \subseteq Names
    BY <1>10, <2>2 DEF PublishRecord, PInv, TypeOK
  <2>4. want' \in [Runners -> Names]
    BY <1>10, <2>2 DEF PublishRecord, PInv, TypeOK
  <2>5. pc' \in [Runners -> Preparing \cup {"idle", "waiting", "judging", "down"}]
    BY <1>10 DEF PublishRecord, PInv, TypeOK, Goto, Preparing
  <2>6. QED
    BY <2>1, <2>3, <2>4, <2>5 DEF PInv, TypeOK, world
<1>11. CASE ForgetRecord(r)
  BY <1>11 DEF ForgetRecord, Elsewhere, world, Superseded, PInv, TypeOK,
     At, Goto, Preparing, Names
<1>12. CASE ForgetMove(r)
  <2>1. aside' \in [Runners -> [Names -> Dirs \cup {NoDir}]]
    <3>1. CASE shelf[older[r]] = NoDir
      BY <1>12, <3>1 DEF ForgetMove, PInv, TypeOK
    <3>2. CASE shelf[older[r]] # NoDir
      <4>1. aside' = [aside EXCEPT ![r][older[r]] = shelf[older[r]]]
        BY <1>12, <3>2 DEF ForgetMove
      <4>2. older[r] \in Names /\ shelf[older[r]] \in Dirs \cup {NoDir}
        BY DEF PInv, TypeOK
      <4>3. QED
        BY <4>1, <4>2, AsideChange DEF PInv, TypeOK
    <3>3. QED
      BY <3>1, <3>2
  <2>2. shelf' \in [Names -> Dirs \cup {NoDir}]
    BY <1>12 DEF ForgetMove, PInv, TypeOK
  <2>3. QED
    BY <1>12, <2>1, <2>2 DEF ForgetMove, Elsewhere, world, PInv, TypeOK, Goto,
       Preparing
<1>13. CASE Prepared(r)
  BY <1>13 DEF Prepared, Elsewhere, world, onDisk, PInv, TypeOK, At, Goto,
     Preparing, Names
<1>14. CASE StartTest(r)
  <2>1. Given(r) \subseteq Dirs \cup {NoDir}
    BY DEF Given, PInv, TypeOK, Names
  <2>2. CASE NoDir \in Given(r)
    <3>1. UNCHANGED <<lock, onDisk, world, want, older>> /\ Leave(r)
      BY <1>14, <2>2 DEF StartTest
    <3>2. pc' \in [Runners -> Preparing \cup {"idle", "waiting", "judging", "down"}]
      BY <3>1 DEF Leave, Goto, PInv, TypeOK
    <3>3. marker' \subseteq Runners /\ mounts' \in [Runners -> SUBSET Dirs]
      BY <3>1 DEF Leave, PInv, TypeOK
    <3>4. QED
      BY <3>1, <3>2, <3>3 DEF onDisk, world, PInv, TypeOK
  <2>3. CASE NoDir \notin Given(r)
    <3>1. /\ UNCHANGED <<lock, onDisk, world, want, older, pc, marker>>
          /\ mounts' = [mounts EXCEPT ![r] = Given(r)]
      BY <1>14, <2>3 DEF StartTest
    <3>2. mounts' \in [Runners -> SUBSET Dirs]
      BY <2>1, <2>3, <3>1 DEF PInv, TypeOK
    <3>3. QED
      BY <3>1, <3>2 DEF onDisk, world, PInv, TypeOK
  <2>4. QED
    BY <2>2, <2>3
<1>15. CASE EndTest(r)
  BY <1>15 DEF EndTest, onDisk, world, PInv, TypeOK, At, Goto, Preparing,
     Names
<1>16. CASE Finish(r)
  BY <1>16 DEF Finish, Leave, onDisk, world, PInv, TypeOK, At, Goto,
     Preparing, Names
<1>17. CASE Crash(r)
  BY <1>17 DEF Crash, onDisk, PInv, TypeOK, At, Goto, Preparing, Names
<1>18. CASE Restart(r)
  <2>1. aside' \in [Runners -> [Names -> Dirs \cup {NoDir}]]
    BY <1>18 DEF Restart, PInv, TypeOK
  <2>2. QED
    BY <1>18, <2>1 DEF Restart, world, PInv, TypeOK, Goto
<1>19. QED
  BY <1>1, <1>2, <1>3, <1>4, <1>5, <1>6, <1>7, <1>8, <1>8a, <1>9, <1>10,
     <1>11, <1>12, <1>13, <1>14, <1>15, <1>16, <1>17, <1>18 DEF StepOf, Prepares,
     Judges

\* Every step leaves the lock with whoever is preparing.
LEMMA StepLock ==
  ASSUME PInv, NEW r \in Runners, StepOf(r)
  PROVE  LockHeld'
<1> USE PreparationAssumption
<1>1. CASE Begin(r)
  BY <1>1 DEF Begin, onDisk, world, PInv, TypeOK, LockHeld, At, Goto,
     Preparing
<1>2. CASE Lock(r)
  BY <1>2 DEF Lock, Elsewhere, world, onDisk, PInv, TypeOK, LockHeld, At,
     Goto, Preparing
<1>3. CASE StopWaiting(r)
  BY <1>3 DEF StopWaiting, Leave, onDisk, world, PInv, TypeOK, LockHeld,
     At, Goto, Preparing
<1>4. CASE FoundPackage(r)
  BY <1>4 DEF FoundPackage, Elsewhere, world, onDisk, PInv, TypeOK,
     LockHeld, At, Goto, Preparing
<1>5. CASE FoundJudge(r)
  BY <1>5 DEF FoundJudge, Elsewhere, world, onDisk, PInv, TypeOK,
     LockHeld, At, Goto, Preparing
<1>6. CASE StartFilling(r)
  BY <1>6 DEF StartFilling, Elsewhere, world, PInv, TypeOK, LockHeld, At,
     Goto, Preparing
<1>7. CASE Assembled(r)
  BY <1>7 DEF Assembled, Elsewhere, world, PInv, TypeOK, LockHeld, At,
     Goto, Preparing
<1>8. CASE FillFails(r)
  BY <1>8 DEF FillFails, Leave, world, PInv, TypeOK, LockHeld, At, Goto,
     Preparing
<1>8a. CASE GivesUp(r)
  BY <1>8a DEF GivesUp, Leave, onDisk, world, PInv, TypeOK, LockHeld,
     At, Goto, Preparing
<1>9. CASE PublishRename(r)
  BY <1>9 DEF PublishRename, Elsewhere, world, PInv, TypeOK, LockHeld, At,
     Goto, Preparing
<1>10. CASE PublishRecord(r)
  BY <1>10 DEF PublishRecord, Elsewhere, world, PInv, TypeOK, LockHeld,
     At, Goto, Preparing
<1>11. CASE ForgetRecord(r)
  BY <1>11 DEF ForgetRecord, Elsewhere, world, Superseded, PInv, TypeOK,
     LockHeld, At, Goto, Preparing
<1>12. CASE ForgetMove(r)
  BY <1>12 DEF ForgetMove, Elsewhere, world, PInv, TypeOK, LockHeld, At,
     Goto, Preparing
<1>13. CASE Prepared(r)
  BY <1>13 DEF Prepared, Elsewhere, world, onDisk, PInv, TypeOK, LockHeld,
     At, Goto, Preparing
<1>14. CASE StartTest(r)
  BY <1>14 DEF StartTest, Leave, Given, onDisk, world, PInv, TypeOK,
     LockHeld, At, Goto, Preparing
<1>15. CASE EndTest(r)
  BY <1>15 DEF EndTest, onDisk, world, PInv, TypeOK, LockHeld, At, Goto,
     Preparing
<1>16. CASE Finish(r)
  BY <1>16 DEF Finish, Leave, onDisk, world, PInv, TypeOK, LockHeld, At,
     Goto, Preparing
<1>17. CASE Crash(r)
  BY <1>17 DEF Crash, onDisk, PInv, TypeOK, LockHeld, At, Goto, Preparing
<1>18. CASE Restart(r)
  BY <1>18 DEF Restart, world, PInv, TypeOK, LockHeld, At, Goto, Preparing
<1>19. QED
  BY <1>1, <1>2, <1>3, <1>4, <1>5, <1>6, <1>7, <1>8, <1>8a, <1>9, <1>10,
     <1>11, <1>12, <1>13, <1>14, <1>15, <1>16, <1>17, <1>18 DEF StepOf, Prepares,
     Judges

\* A name is published exactly when the manifest has it.
LEMMA PublishedByManifest ==
  ASSUME PInv, NEW n \in Names
  PROVE  Published(n) <=> n \in manifest
  BY PreparationAssumption DEF PInv, TypeOK, RecordedIsWhole, Published

\* Every step keeps what is vouched for whole.
LEMMA StepRecorded ==
  ASSUME PInv, NEW r \in Runners, StepOf(r)
  PROVE  RecordedIsWhole' /\ InHand'
<1> USE PreparationAssumption
<1>1. CASE Begin(r)
  BY <1>1 DEF Begin, onDisk, world, PInv, TypeOK, LockHeld, InHand,
     RecordedIsWhole, At, Goto, Preparing
<1>2. CASE Lock(r)
  BY <1>2 DEF Lock, Elsewhere, world, onDisk, PInv, TypeOK, LockHeld,
     InHand, RecordedIsWhole, At, Goto, Preparing
<1>3. CASE StopWaiting(r)
  BY <1>3 DEF StopWaiting, Leave, onDisk, world, PInv, TypeOK, LockHeld,
     InHand, RecordedIsWhole, At, Goto, Preparing
<1>4. CASE FoundPackage(r)
  BY <1>4 DEF FoundPackage, Elsewhere, world, onDisk, PInv, TypeOK,
     LockHeld, InHand, RecordedIsWhole, At, Goto, Preparing
<1>5. CASE FoundJudge(r)
  BY <1>5 DEF FoundJudge, Elsewhere, world, onDisk, PInv, TypeOK,
     LockHeld, InHand, RecordedIsWhole, At, Goto, Preparing
<1>6. CASE StartFilling(r)
  <2>1. PICK d \in Unused : /\ aside' = [aside EXCEPT ![r][want[r]] = d]
                           /\ whole' = whole \ {d}
    BY <1>6 DEF StartFilling
  <2>2. /\ d \in Dirs
        /\ \A n \in Names : shelf[n] # d
    BY DEF Unused, Named, PInv, TypeOK, PreparationAssumption
  <2>3. aside'[r][want[r]] = d
    BY <2>1, <2>2, AsideChange DEF PInv, TypeOK
  <2>4. \A s \in Runners \ {r} : pc'[s] \notin Preparing
    BY <1>6, LockedAlone DEF StartFilling, At, Goto, PInv, TypeOK, Preparing
  <2>5. pc'[r] = "filling" /\ UNCHANGED <<manifest, shelf, want, older>>
    BY <1>6 DEF StartFilling, Goto, PInv, TypeOK
  <2>6. RecordedIsWhole'
    BY <2>1, <2>2, <2>5 DEF PInv, TypeOK, RecordedIsWhole
  <2>7. want[r] \notin manifest
    BY <1>6, PublishedByManifest DEF StartFilling, PInv, TypeOK
  <2>8. QED
    BY <2>2, <2>3, <2>4, <2>5, <2>6, <2>7 DEF InHand, Preparing
<1>7. CASE Assembled(r)
  BY <1>7 DEF Assembled, Elsewhere, world, PInv, TypeOK, LockHeld, InHand,
     RecordedIsWhole, At, Goto, Preparing
<1>8. CASE FillFails(r)
  <2>1. \A s \in Runners : pc'[s] \notin Preparing
    BY <1>8, LockedAlone DEF FillFails, Leave, At, Goto, PInv, TypeOK,
       Preparing
  <2>2. \A n \in manifest : shelf'[n] = shelf[n]
    BY <1>8 DEF FillFails, At, PInv, TypeOK, InHand
  <2>3. QED
    BY <1>8, <2>1, <2>2 DEF FillFails, PInv, InHand, RecordedIsWhole, Preparing
<1>8a. CASE GivesUp(r)
  BY <1>8a DEF GivesUp, Leave, onDisk, world, PInv, TypeOK, LockHeld,
     InHand, RecordedIsWhole, At, Goto, Preparing
<1>9. CASE PublishRename(r)
  <2>1. aside[r][want[r]] \in whole /\ want[r] \in Names
    BY <1>9 DEF PublishRename, At, PInv, InHand, TypeOK
  <2>2. \A s \in Runners \ {r} : pc'[s] \notin Preparing
    BY <1>9, LockedAlone DEF PublishRename, At, Goto, PInv, TypeOK, Preparing
  <2>3. /\ pc'[r] = "recording" /\ UNCHANGED <<manifest, whole, want>>
        /\ shelf' = [shelf EXCEPT ![want[r]] = aside[r][want[r]]]
    BY <1>9 DEF PublishRename, Goto, PInv, TypeOK
  <2>4. RecordedIsWhole' /\ shelf'[want[r]] \in whole
    BY <2>1, <2>3 DEF PInv, TypeOK, RecordedIsWhole
  <2>5. QED
    BY <2>2, <2>3, <2>4 DEF InHand, Preparing
<1>10. CASE PublishRecord(r)
  BY <1>10 DEF PublishRecord, Elsewhere, world, PInv, TypeOK, LockHeld,
     InHand, RecordedIsWhole, At, Goto, Preparing
<1>11. CASE ForgetRecord(r)
  BY <1>11 DEF ForgetRecord, Elsewhere, world, Superseded, PInv, TypeOK,
     LockHeld, InHand, RecordedIsWhole, At, Goto, Preparing
<1>12. CASE ForgetMove(r)
  <2>1. older[r] \notin manifest /\ older[r] \in Names
    BY <1>12 DEF ForgetMove, At, PInv, InHand, TypeOK
  <2>2. \A s \in Runners \ {r} : pc'[s] \notin Preparing
    BY <1>12, LockedAlone DEF ForgetMove, At, Goto, PInv, TypeOK, Preparing
  <2>3. pc'[r] = "forgetting" /\ UNCHANGED <<manifest, whole>>
    BY <1>12 DEF ForgetMove, Goto, PInv, TypeOK
  <2>4. \A n \in Names : n # older[r] => shelf'[n] = shelf[n]
    BY <1>12 DEF ForgetMove, PInv, TypeOK
  <2>5. RecordedIsWhole'
    BY <2>1, <2>3, <2>4 DEF PInv, TypeOK, RecordedIsWhole
  <2>6. QED
    BY <2>2, <2>3, <2>5 DEF InHand, Preparing
<1>13. CASE Prepared(r)
  BY <1>13 DEF Prepared, Elsewhere, world, onDisk, PInv, TypeOK, LockHeld,
     InHand, RecordedIsWhole, At, Goto, Preparing
<1>14. CASE StartTest(r)
  BY <1>14 DEF StartTest, Leave, Given, onDisk, world, PInv, TypeOK,
     LockHeld, InHand, RecordedIsWhole, At, Goto, Preparing
<1>15. CASE EndTest(r)
  BY <1>15 DEF EndTest, onDisk, world, PInv, TypeOK, LockHeld, InHand,
     RecordedIsWhole, At, Goto, Preparing
<1>16. CASE Finish(r)
  BY <1>16 DEF Finish, Leave, onDisk, world, PInv, TypeOK, LockHeld,
     InHand, RecordedIsWhole, At, Goto, Preparing
<1>17. CASE Crash(r)
  BY <1>17 DEF Crash, onDisk, PInv, TypeOK, LockHeld, InHand,
     RecordedIsWhole, At, Goto, Preparing
<1>18. CASE Restart(r)
  <2>1. \A s \in Runners : pc'[s] \in Preparing => s # r /\ pc[s] = pc'[s]
    BY <1>18 DEF Restart, Goto, PInv, TypeOK, Preparing
  <2>2. \A s \in Runners \ {r} : aside'[s] = aside[s]
    BY <1>18 DEF Restart, PInv, TypeOK
  <2>3. UNCHANGED <<manifest, shelf, whole, want, older>>
    BY <1>18 DEF Restart
  <2>4. QED
    BY <2>1, <2>2, <2>3 DEF PInv, InHand, RecordedIsWhole, Preparing
<1>19. QED
  BY <1>1, <1>2, <1>3, <1>4, <1>5, <1>6, <1>7, <1>8, <1>8a, <1>9, <1>10,
     <1>11, <1>12, <1>13, <1>14, <1>15, <1>16, <1>17, <1>18 DEF StepOf, Prepares,
     Judges

LEMMA StepRepublish == PInv /\ Republish => PInv'
<1> SUFFICES ASSUME PInv, Republish PROVE PInv'
  OBVIOUS
<1>1. /\ UNCHANGED <<lock, manifest, shelf, aside, whole, marker>>
      /\ UNCHANGED <<pc, want, older, mounts, crashes>>
  BY DEF Republish, onDisk
<1>2. republish' \in 0 .. MaxRepublish
  <2>1. republish' = republish - 1 /\ republish > 0
    BY DEF Republish
  <2>2. republish \in 0 .. MaxRepublish
    BY DEF PInv, TypeOK
  <2>3. QED
    BY <2>1, <2>2, PreparationAssumption
<1>3. image' \in Keys
  BY DEF Republish
<1>4. TypeOK'
  BY <1>1, <1>2, <1>3 DEF PInv, TypeOK
<1>5. LockHeld' /\ InHand' /\ RecordedIsWhole'
  BY <1>1 DEF PInv, LockHeld, InHand, RecordedIsWhole
<1>6. QED
  BY <1>4, <1>5 DEF PInv

LEMMA InitPrepared == Init => PInv
  BY PreparationAssumption
  DEF Init, PInv, TypeOK, LockHeld, InHand, RecordedIsWhole, Preparing, Names

LEMMA StepPrepared == PInv /\ [Next]_vars => PInv'
<1>1. ASSUME PInv, UNCHANGED vars PROVE PInv'
  BY <1>1 DEF vars, onDisk, world, PInv, TypeOK, LockHeld, InHand,
     RecordedIsWhole
<1>2. ASSUME PInv, NEW r \in Runners, StepOf(r) PROVE PInv'
  BY <1>2, StepTypes, StepLock, StepRecorded DEF PInv
<1>3. QED
  BY <1>1, <1>2, StepRepublish DEF Next, StepOf

\* Types, for any number of Runners, builds, republished images and crashes.
THEOREM PreparationTypes == Spec => []TypeOK
<1>1. PInv => TypeOK
  BY DEF PInv
<1>2. QED
  BY InitPrepared, StepPrepared, <1>1, PTL DEF Spec

\* Wherever a crash falls and whoever prepares, a name the manifest vouches for
\* is on disk with everything in it (cache.rs, publish and forget).
THEOREM RecordsAreWhole == Spec => []RecordedIsWhole
<1>1. PInv => RecordedIsWhole
  BY DEF PInv
<1>2. QED
  BY InitPrepared, StepPrepared, <1>1, PTL DEF Spec
-----------------------------------------------------------------------------
(* What a running container has mounted                                    *)

\* A build the tag has left behind, and that nobody is preparing.
Dropped(n) ==
  /\ n \in Keys /\ n < image
  /\ \A q \in Runners : pc[q] \in Preparing => want[q] # n

\* No directory has two names.
NoTwins ==
  /\ \A m, n \in Names : shelf[m] = shelf[n] => m = n \/ shelf[m] = NoDir
  /\ \A r, s \in Runners, m, n \in Names :
       aside[r][m] = aside[s][n] => (r = s /\ m = n) \/ aside[r][m] = NoDir
  /\ \A r \in Runners, m, n \in Names : aside[r][m] = shelf[n] => shelf[n] = NoDir

\* Nothing is ahead of the tag, and nothing recorded is ahead of whoever is
\* preparing a build.
InOrder ==
  /\ \A n \in manifest : n \in Keys => n <= image
  /\ \A r \in Runners :
       pc[r] \in Preparing /\ want[r] \in Keys =>
         /\ Extracted \in manifest
         /\ want[r] <= image
         /\ \A n \in manifest : n \in Keys => n <= want[r]

\* What a preparation and an evaluation have been given.
Vouched ==
  \A r \in Runners :
    /\ pc[r] \in {"forgetting", "settingAside"} => want[r] \in Keys \cap manifest
    /\ pc[r] \in Preparing \cup {"waiting", "judging"} => r \in marker
    /\ pc[r] = "judging" =>
         /\ Extracted \in manifest /\ want[r] \in Keys
         /\ want[r] \in manifest \/ Dropped(want[r])
    /\ mounts[r] # {} => pc[r] = "judging"

\* What is mounted is where nobody will write: under a name the manifest
\* vouches for, or with a build that is dropped.
MountedSafe ==
  \A q \in Runners, n \in Names :
    /\ shelf[n] \in mounts[q] => n \in manifest \/ Dropped(n)
    /\ \A s \in Runners :
         aside[s][n] \in mounts[q] =>
           n \notin manifest /\ shelf[n] = NoDir /\ Dropped(n)

MInv == PInv /\ NoTwins /\ InOrder /\ Vouched /\ MountedSafe /\ MountedStays

\* What a step leaves of every other Runner, and what it may make its own look
\* for.
LEMMA StepFrame ==
  ASSUME TypeOK, NEW r \in Runners, StepOf(r)
  PROVE  /\ image' = image
         /\ \A q \in Runners \ {r} :
              pc'[q] = pc[q] /\ want'[q] = want[q] /\ mounts'[q] = mounts[q]
         /\ \A q \in Runners \ {r} : q \in marker => q \in marker'
         /\ \/ pc'[r] \notin Preparing
            \/ pc[r] \in Preparing /\ want'[r] = want[r]
            \/ want'[r] \in {Extracted, image}
<1>1. CASE Begin(r)
  BY <1>1 DEF Begin, Leave, Elsewhere, onDisk, world, At, Goto, TypeOK,
     Preparing
<1>2. CASE Lock(r)
  BY <1>2 DEF Lock, Leave, Elsewhere, onDisk, world, At, Goto, TypeOK,
     Preparing
<1>3. CASE StopWaiting(r)
  BY <1>3 DEF StopWaiting, Leave, Elsewhere, onDisk, world, At, Goto, TypeOK,
     Preparing
<1>4. CASE FoundPackage(r)
  BY <1>4 DEF FoundPackage, Leave, Elsewhere, onDisk, world, At, Goto, TypeOK,
     Preparing
<1>5. CASE FoundJudge(r)
  BY <1>5 DEF FoundJudge, Leave, Elsewhere, onDisk, world, At, Goto, TypeOK,
     Preparing
<1>6. CASE StartFilling(r)
  BY <1>6 DEF StartFilling, Leave, Elsewhere, onDisk, world, At, Goto, TypeOK,
     Preparing
<1>7. CASE Assembled(r)
  BY <1>7 DEF Assembled, Leave, Elsewhere, onDisk, world, At, Goto, TypeOK,
     Preparing
<1>8. CASE FillFails(r)
  BY <1>8 DEF FillFails, Leave, Elsewhere, onDisk, world, At, Goto, TypeOK,
     Preparing
<1>8a. CASE GivesUp(r)
  BY <1>8a DEF GivesUp, Leave, Elsewhere, onDisk, world, At, Goto, TypeOK,
     Preparing
<1>9. CASE PublishRename(r)
  BY <1>9 DEF PublishRename, Leave, Elsewhere, onDisk, world, At, Goto,
     TypeOK, Preparing
<1>10. CASE PublishRecord(r)
  BY <1>10 DEF PublishRecord, Leave, Elsewhere, onDisk, world, At, Goto,
     TypeOK, Preparing
<1>11. CASE ForgetRecord(r)
  BY <1>11 DEF ForgetRecord, Leave, Elsewhere, onDisk, world, At, Goto,
     TypeOK, Preparing
<1>12. CASE ForgetMove(r)
  BY <1>12 DEF ForgetMove, Leave, Elsewhere, onDisk, world, At, Goto, TypeOK,
     Preparing
<1>13. CASE Prepared(r)
  BY <1>13 DEF Prepared, Leave, Elsewhere, onDisk, world, At, Goto, TypeOK,
     Preparing
<1>14. CASE StartTest(r)
  BY <1>14 DEF StartTest, Leave, Elsewhere, onDisk, world, At, Goto, TypeOK,
     Preparing
<1>15. CASE EndTest(r)
  BY <1>15 DEF EndTest, Leave, Elsewhere, onDisk, world, At, Goto, TypeOK,
     Preparing
<1>16. CASE Finish(r)
  BY <1>16 DEF Finish, Leave, Elsewhere, onDisk, world, At, Goto, TypeOK,
     Preparing
<1>17. CASE Crash(r)
  BY <1>17 DEF Crash, Leave, Elsewhere, onDisk, world, At, Goto, TypeOK,
     Preparing
<1>18. CASE Restart(r)
  BY <1>18 DEF Restart, Leave, Elsewhere, onDisk, world, At, Goto, TypeOK,
     Preparing
<1>19. QED
  BY <1>1, <1>2, <1>3, <1>4, <1>5, <1>6, <1>7, <1>8, <1>8a, <1>9, <1>10,
     <1>11, <1>12, <1>13, <1>14, <1>15, <1>16, <1>17, <1>18 DEF StepOf, Prepares,
     Judges

\* A build the tag has left behind stays left behind.
LEMMA DroppedStays ==
  ASSUME TypeOK, Keys \subseteq Int, NEW r \in Runners, StepOf(r), NEW n, Dropped(n)
  PROVE  Dropped(n)'
<1>1. n # Extracted /\ n # image /\ n \in Keys /\ n < image
  BY PreparationAssumption DEF Dropped, TypeOK
<1>2. ASSUME NEW q \in Runners, pc'[q] \in Preparing PROVE want'[q] # n
  <2>1. CASE q = r
    BY <1>1, <1>2, <2>1, StepFrame DEF Dropped
  <2>2. CASE q # r
    BY <1>2, <2>2, StepFrame DEF Dropped
  <2>3. QED
    BY <2>1, <2>2
<1>3. QED
  BY <1>1, <1>2, StepFrame DEF Dropped

\* The one who prepares is the only one who does, after its step as before.
LEMMA StillAlone ==
  ASSUME PInv, NEW r \in Runners, StepOf(r), pc[r] \in Preparing,
         NEW s \in Runners \ {r}
  PROVE  pc'[s] \notin Preparing
  BY StepFrame, LockedAlone DEF PInv

-----------------------------------------------------------------------------
\* A new directory has no other name, and a rename leaves none behind.
LEMMA StepTwins ==
  ASSUME PInv, NoTwins, NEW r \in Runners, StepOf(r)
  PROVE  NoTwins'
<1>1. CASE Begin(r)
  BY <1>1 DEF Begin, Elsewhere, onDisk, NoTwins
<1>2. CASE Lock(r)
  BY <1>2 DEF Lock, Elsewhere, onDisk, NoTwins
<1>3. CASE StopWaiting(r)
  BY <1>3 DEF StopWaiting, Elsewhere, onDisk, NoTwins
<1>4. CASE FoundPackage(r)
  BY <1>4 DEF FoundPackage, Elsewhere, onDisk, NoTwins
<1>5. CASE FoundJudge(r)
  BY <1>5 DEF FoundJudge, Elsewhere, onDisk, NoTwins
<1>6. CASE StartFilling(r)
  <2>1. PICK d \in Unused : aside' = [aside EXCEPT ![r][want[r]] = d]
    BY <1>6 DEF StartFilling
  <2>2. /\ d \in Dirs /\ d # NoDir
        /\ \A n \in Names : shelf[n] # d
        /\ \A s \in Runners, n \in Names : aside[s][n] # d
    BY PreparationAssumption DEF Unused, Named
  <2>3. UNCHANGED shelf
    BY <1>6 DEF StartFilling
  <2>4. /\ aside'[r][want[r]] = d
        /\ \A s \in Runners, n \in Names :
             ~(s = r /\ n = want[r]) => aside'[s][n] = aside[s][n]
    BY <2>1, <2>2 DEF PInv, TypeOK
  <2>5. QED
    BY <2>2, <2>3, <2>4 DEF NoTwins
<1>7. CASE Assembled(r)
  BY <1>7 DEF Assembled, Elsewhere, onDisk, NoTwins
<1>8. CASE FillFails(r)
  <2>1. \A n \in Names : shelf'[n] \in {NoDir, shelf[n]}
    BY <1>8 DEF FillFails, PInv, TypeOK
  <2>2. aside' = [aside EXCEPT ![r][want[r]] = NoDir]
    BY <1>8 DEF FillFails
  <2>3. \A s \in Runners, n \in Names : aside'[s][n] \in {NoDir, aside[s][n]}
    BY <2>2 DEF PInv, TypeOK
  <2>4. QED
    BY <2>1, <2>3 DEF NoTwins
<1>8a. CASE GivesUp(r)
  BY <1>8a DEF GivesUp, Elsewhere, onDisk, NoTwins
<1>9. CASE PublishRename(r)
  <2>1. /\ shelf' = [shelf EXCEPT ![want[r]] = aside[r][want[r]]]
        /\ aside' = [aside EXCEPT ![r][want[r]] = NoDir]
    BY <1>9 DEF PublishRename
  <2>2. want[r] \in Names
    BY DEF PInv, TypeOK
  <2>3. /\ aside'[r][want[r]] = NoDir
        /\ \A s \in Runners, n \in Names :
             ~(s = r /\ n = want[r]) => aside'[s][n] = aside[s][n]
    BY <2>1, <2>2 DEF PInv, TypeOK
  <2>4. /\ shelf'[want[r]] = aside[r][want[r]]
        /\ \A n \in Names : n # want[r] => shelf'[n] = shelf[n]
    BY <2>1, <2>2 DEF PInv, TypeOK
  <2>5. QED
    BY <2>2, <2>3, <2>4 DEF NoTwins
<1>10. CASE PublishRecord(r)
  BY <1>10 DEF PublishRecord, Elsewhere, onDisk, NoTwins
<1>11. CASE ForgetRecord(r)
  BY <1>11 DEF ForgetRecord, Elsewhere, onDisk, NoTwins
<1>12. CASE ForgetMove(r)
  <2>1. CASE shelf[older[r]] = NoDir
    BY <1>12, <2>1 DEF ForgetMove, NoTwins
  <2>2. CASE shelf[older[r]] # NoDir
    <3>1. /\ aside' = [aside EXCEPT ![r][older[r]] = shelf[older[r]]]
          /\ shelf' = [shelf EXCEPT ![older[r]] = NoDir]
      BY <1>12, <2>2 DEF ForgetMove
    <3>2. older[r] \in Names
      BY DEF PInv, TypeOK
    <3>3. /\ aside'[r][older[r]] = shelf[older[r]]
          /\ \A s \in Runners, n \in Names :
               ~(s = r /\ n = older[r]) => aside'[s][n] = aside[s][n]
      BY <3>1, <3>2 DEF PInv, TypeOK
    <3>4. /\ shelf'[older[r]] = NoDir
          /\ \A n \in Names : n # older[r] => shelf'[n] = shelf[n]
      BY <3>1, <3>2 DEF PInv, TypeOK
    <3>5. QED
      BY <3>2, <3>3, <3>4 DEF NoTwins
  <2>3. QED
    BY <2>1, <2>2
<1>13. CASE Prepared(r)
  BY <1>13 DEF Prepared, Elsewhere, onDisk, NoTwins
<1>14. CASE StartTest(r)
  BY <1>14 DEF StartTest, Elsewhere, onDisk, NoTwins
<1>15. CASE EndTest(r)
  BY <1>15 DEF EndTest, Elsewhere, onDisk, NoTwins
<1>16. CASE Finish(r)
  BY <1>16 DEF Finish, Elsewhere, onDisk, NoTwins
<1>17. CASE Crash(r)
  BY <1>17 DEF Crash, Elsewhere, onDisk, NoTwins
<1>18. CASE Restart(r)
  <2>1. /\ UNCHANGED shelf
        /\ \A s \in Runners, n \in Names : aside'[s][n] \in {NoDir, aside[s][n]}
    BY <1>18 DEF Restart, PInv, TypeOK
  <2>2. QED
    BY <2>1 DEF NoTwins
<1>19. QED
  BY <1>1, <1>2, <1>3, <1>4, <1>5, <1>6, <1>7, <1>8, <1>8a, <1>9, <1>10,
     <1>11, <1>12, <1>13, <1>14, <1>15, <1>16, <1>17, <1>18 DEF StepOf, Prepares,
     Judges

LEMMA EachIsAtItself ==
  ASSUME Keys \subseteq Int
  PROVE  \A n \in Keys : n <= n
  OBVIOUS

\* Who looks for a build looks for the one the tag calls for, and what it
\* records is that one; nobody else records anything meanwhile.
LEMMA StepOrder ==
  ASSUME PInv, Keys \subseteq Int, InOrder, NEW r \in Runners, StepOf(r)
  PROVE  InOrder'
<1> USE PreparationAssumption DEF InOrder
<1>1. CASE Begin(r)
  BY <1>1 DEF Begin, PInv, TypeOK, InOrder, Preparing, Names, Leave,
     Elsewhere, onDisk, world, At, Goto
<1>2. CASE Lock(r)
  BY <1>2 DEF Lock, PInv, TypeOK, InOrder, Preparing, Names, Leave, Elsewhere,
     onDisk, world, At, Goto
<1>3. CASE StopWaiting(r)
  BY <1>3 DEF StopWaiting, PInv, TypeOK, InOrder, Preparing, Names, Leave,
     Elsewhere, onDisk, world, At, Goto
<1>4. CASE FoundPackage(r)
  <2>1. UNCHANGED <<manifest, image, pc>> /\ Extracted \in manifest
    BY <1>4 DEF FoundPackage, Published, Elsewhere, onDisk, world
  <2>2. want'[r] = image /\ \A q \in Runners \ {r} : want'[q] = want[q]
    BY <1>4 DEF FoundPackage, PInv, TypeOK
  <2>3. image <= image
    BY DEF PInv, TypeOK
  <2>4. QED
    BY <2>1, <2>2, <2>3
<1>5. CASE FoundJudge(r)
  BY <1>5 DEF FoundJudge, PInv, TypeOK, InOrder, Preparing, Names, Leave,
     Elsewhere, onDisk, world, At, Goto
<1>6. CASE StartFilling(r)
  BY <1>6 DEF StartFilling, PInv, TypeOK, InOrder, Preparing, Names, Leave,
     Elsewhere, onDisk, world, At, Goto
<1>7. CASE Assembled(r)
  BY <1>7 DEF Assembled, PInv, TypeOK, InOrder, Preparing, Names, Leave,
     Elsewhere, onDisk, world, At, Goto
<1>8. CASE FillFails(r)
  BY <1>8 DEF FillFails, PInv, TypeOK, InOrder, Preparing, Names, Leave,
     Elsewhere, onDisk, world, At, Goto
<1>8a. CASE GivesUp(r)
  BY <1>8a DEF GivesUp, PInv, TypeOK, InOrder, Preparing, Names, Leave,
     Elsewhere, onDisk, world, At, Goto
<1>9. CASE PublishRename(r)
  BY <1>9 DEF PublishRename, PInv, TypeOK, InOrder, Preparing, Names, Leave,
     Elsewhere, onDisk, world, At, Goto
<1>10. CASE PublishRecord(r)
  <2>1. /\ manifest' = manifest \cup {want[r]} /\ UNCHANGED image
        /\ want[r] \in Keys => want[r] <= image
        /\ want[r] \in Keys => want[r] <= want[r]
        /\ image \in Int /\ image \in Keys /\ want[r] \in Keys \cup {Extracted}
    <3>1. manifest' = manifest \cup {want[r]} /\ UNCHANGED image
      BY <1>10 DEF PublishRecord, Elsewhere, world
    <3>2. image \in Int /\ image \in Keys /\ want[r] \in Keys \cup {Extracted}
      BY DEF PInv, TypeOK, Names
    <3>3. pc[r] \in Preparing
      BY <1>10 DEF PublishRecord, At, Preparing
    <3>4. want[r] \in Keys => want[r] <= image
      BY <3>3
    <3>5. want[r] \in Keys => want[r] <= want[r]
      BY EachIsAtItself
    <3>6. QED
      BY <3>1, <3>2, <3>4, <3>5
  <2>2. \A n \in manifest' : n \in Keys => n <= image
    BY <2>1
  <2>3. \A q \in Runners \ {r} : pc'[q] \notin Preparing
    BY <1>10, StillAlone DEF PublishRecord, At, Preparing, StepOf, Prepares
  <2>4. CASE want[r] = Extracted
    BY <1>10, <2>1, <2>2, <2>3, <2>4 DEF PublishRecord, PInv, TypeOK
  <2>5. CASE want[r] # Extracted
    <3>1. UNCHANGED want
      BY <1>10, <2>5 DEF PublishRecord
    <3>2. \A n \in manifest' : n \in Keys => n <= want[r]
      BY <1>10, <2>1, <2>5 DEF PublishRecord, At, Preparing
    <3>3. Extracted \in manifest'
      BY <1>10, <2>1, <2>5 DEF PublishRecord, At, Preparing
    <3>4. QED
      BY <2>1, <2>2, <2>3, <3>1, <3>2, <3>3
  <2>6. QED
    BY <2>4, <2>5
<1>11. CASE ForgetRecord(r)
  <2>1. PICK n \in Superseded(r) : manifest' = manifest \ {n}
    BY <1>11 DEF ForgetRecord
  <2>2. n # Extracted
    BY DEF Superseded
  <2>3. UNCHANGED <<want, image>>
    BY <1>11 DEF ForgetRecord, Elsewhere, world
  <2>4. \A q \in Runners : pc'[q] \in Preparing => pc[q] \in Preparing
    BY <1>11 DEF ForgetRecord, Goto, At, PInv, TypeOK, Preparing
  <2>5. QED
    BY <2>1, <2>2, <2>3, <2>4
<1>12. CASE ForgetMove(r)
  BY <1>12 DEF ForgetMove, PInv, TypeOK, InOrder, Preparing, Names, Leave,
     Elsewhere, onDisk, world, At, Goto
<1>13. CASE Prepared(r)
  BY <1>13 DEF Prepared, PInv, TypeOK, InOrder, Preparing, Names, Leave,
     Elsewhere, onDisk, world, At, Goto
<1>14. CASE StartTest(r)
  BY <1>14 DEF StartTest, PInv, TypeOK, InOrder, Preparing, Names, Leave,
     Elsewhere, onDisk, world, At, Goto
<1>15. CASE EndTest(r)
  BY <1>15 DEF EndTest, PInv, TypeOK, InOrder, Preparing, Names, Leave,
     Elsewhere, onDisk, world, At, Goto
<1>16. CASE Finish(r)
  BY <1>16 DEF Finish, PInv, TypeOK, InOrder, Preparing, Names, Leave,
     Elsewhere, onDisk, world, At, Goto
<1>17. CASE Crash(r)
  BY <1>17 DEF Crash, PInv, TypeOK, InOrder, Preparing, Names, Leave,
     Elsewhere, onDisk, world, At, Goto
<1>18. CASE Restart(r)
  BY <1>18 DEF Restart, PInv, TypeOK, InOrder, Preparing, Names, Leave,
     Elsewhere, onDisk, world, At, Goto
<1>19. QED
  BY <1>1, <1>2, <1>3, <1>4, <1>5, <1>6, <1>7, <1>8, <1>8a, <1>9, <1>10,
     <1>11, <1>12, <1>13, <1>14, <1>15, <1>16, <1>17, <1>18 DEF StepOf, Prepares,
     Judges

\* Only whoever prepares writes the manifest.
LEMMA StepManifest ==
  ASSUME PInv, NEW r \in Runners, StepOf(r)
  PROVE  \/ UNCHANGED manifest
         \/ /\ pc[r] = "recording" /\ manifest' = manifest \cup {want[r]}
         \/ /\ pc[r] = "forgetting" /\ want'[r] = want[r] /\ pc'[r] \in Preparing
            /\ \E n \in Superseded(r) : manifest' = manifest \ {n}
<1>1. CASE Begin(r)
  BY <1>1 DEF Begin, At, Goto, Elsewhere, onDisk, PInv, TypeOK, Preparing
<1>2. CASE Lock(r)
  BY <1>2 DEF Lock, At, Goto, Elsewhere, onDisk, PInv, TypeOK, Preparing
<1>3. CASE StopWaiting(r)
  BY <1>3 DEF StopWaiting, At, Goto, Elsewhere, onDisk, PInv, TypeOK,
     Preparing
<1>4. CASE FoundPackage(r)
  BY <1>4 DEF FoundPackage, At, Goto, Elsewhere, onDisk, PInv, TypeOK,
     Preparing
<1>5. CASE FoundJudge(r)
  BY <1>5 DEF FoundJudge, At, Goto, Elsewhere, onDisk, PInv, TypeOK, Preparing
<1>6. CASE StartFilling(r)
  BY <1>6 DEF StartFilling, At, Goto, Elsewhere, onDisk, PInv, TypeOK,
     Preparing
<1>7. CASE Assembled(r)
  BY <1>7 DEF Assembled, At, Goto, Elsewhere, onDisk, PInv, TypeOK, Preparing
<1>8. CASE FillFails(r)
  BY <1>8 DEF FillFails, At, Goto, Elsewhere, onDisk, PInv, TypeOK, Preparing
<1>8a. CASE GivesUp(r)
  BY <1>8a DEF GivesUp, At, Goto, Elsewhere, onDisk, PInv, TypeOK,
     Preparing
<1>9. CASE PublishRename(r)
  BY <1>9 DEF PublishRename, At, Goto, Elsewhere, onDisk, PInv, TypeOK,
     Preparing
<1>10. CASE PublishRecord(r)
  BY <1>10 DEF PublishRecord, At, Goto, Elsewhere, onDisk, PInv, TypeOK,
     Preparing
<1>11. CASE ForgetRecord(r)
  BY <1>11 DEF ForgetRecord, At, Goto, Elsewhere, onDisk, PInv, TypeOK,
     Preparing
<1>12. CASE ForgetMove(r)
  BY <1>12 DEF ForgetMove, At, Goto, Elsewhere, onDisk, PInv, TypeOK,
     Preparing
<1>13. CASE Prepared(r)
  BY <1>13 DEF Prepared, At, Goto, Elsewhere, onDisk, PInv, TypeOK, Preparing
<1>14. CASE StartTest(r)
  BY <1>14 DEF StartTest, At, Goto, Elsewhere, onDisk, PInv, TypeOK, Preparing
<1>15. CASE EndTest(r)
  BY <1>15 DEF EndTest, At, Goto, Elsewhere, onDisk, PInv, TypeOK, Preparing
<1>16. CASE Finish(r)
  BY <1>16 DEF Finish, At, Goto, Elsewhere, onDisk, PInv, TypeOK, Preparing
<1>17. CASE Crash(r)
  BY <1>17 DEF Crash, At, Goto, Elsewhere, onDisk, PInv, TypeOK, Preparing
<1>18. CASE Restart(r)
  BY <1>18 DEF Restart, At, Goto, Elsewhere, onDisk, PInv, TypeOK, Preparing
<1>19. QED
  BY <1>1, <1>2, <1>3, <1>4, <1>5, <1>6, <1>7, <1>8, <1>8a, <1>9, <1>10,
     <1>11, <1>12, <1>13, <1>14, <1>15, <1>16, <1>17, <1>18 DEF StepOf, Prepares,
     Judges

\* What the manifest no longer vouches for is a build the tag has left behind.
LEMMA ForgottenIsDropped ==
  ASSUME PInv, Keys \subseteq Int, InOrder, Vouched, NEW r \in Runners, StepOf(r),
         NEW n, n \in manifest, n \notin manifest'
  PROVE  Dropped(n)'
<1>1. /\ pc[r] = "forgetting" /\ want'[r] = want[r]
      /\ n \in Superseded(r)
  BY StepManifest
<1>2. n # Extracted /\ n # want[r] /\ n \in Keys
  BY <1>1 DEF Superseded, PInv, TypeOK, Names
<1>3. pc[r] \in Preparing /\ want[r] \in Keys
  BY <1>1 DEF Vouched, Preparing
<1>4. n <= want[r] /\ want[r] <= image
  BY <1>2, <1>3 DEF InOrder
<1>5. n \in Int /\ want[r] \in Int /\ image \in Int
  BY <1>2, <1>3 DEF PInv, TypeOK
<1>6. n < image
  BY <1>2, <1>4, <1>5
<1>7. \A p \in Runners : pc'[p] \in Preparing => want'[p] # n
  BY <1>1, <1>2, <1>3, StillAlone
<1>8. QED
  BY <1>2, <1>6, <1>7, StepFrame DEF Dropped, PInv

\* The package itself is never forgotten.
LEMMA PackageStays ==
  ASSUME PInv, NEW r \in Runners, StepOf(r), Extracted \in manifest
  PROVE  Extracted \in manifest'
  BY StepManifest DEF Superseded

\* The same of the Runner whose step it is.
LEMMA OwnVouched ==
  ASSUME PInv, Keys \subseteq Int, InOrder, Vouched, NEW r \in Runners, StepOf(r)
  PROVE  /\ pc'[r] \in {"forgetting", "settingAside"} => want'[r] \in Keys \cap manifest'
         /\ pc'[r] = "judging" =>
              /\ Extracted \in manifest' /\ want'[r] \in Keys
              /\ want'[r] \in manifest' \/ (Dropped(want[r]) /\ want'[r] = want[r])
         /\ pc'[r] \in Preparing \cup {"waiting", "judging"} => r \in marker'
         /\ mounts'[r] # {} => pc'[r] = "judging"
<1>1. CASE Begin(r)
  BY <1>1 DEF Begin, PInv, TypeOK, InOrder, Vouched, Superseded, Preparing,
     Names, Leave, Elsewhere, onDisk, world, At, Goto
<1>2. CASE Lock(r)
  BY <1>2 DEF Lock, PInv, TypeOK, InOrder, Vouched, Superseded, Preparing,
     Names, Leave, Elsewhere, onDisk, world, At, Goto
<1>3. CASE StopWaiting(r)
  BY <1>3 DEF StopWaiting, PInv, TypeOK, InOrder, Vouched, Superseded,
     Preparing, Names, Leave, Elsewhere, onDisk, world, At, Goto
<1>4. CASE FoundPackage(r)
  BY <1>4 DEF FoundPackage, PInv, TypeOK, InOrder, Vouched, Superseded,
     Preparing, Names, Leave, Elsewhere, onDisk, world, At, Goto
<1>5. CASE FoundJudge(r)
  <2>1. want[r] \in manifest
    BY <1>5, PublishedByManifest DEF FoundJudge, PInv, TypeOK
  <2>2. QED
    BY <1>5, <2>1 DEF FoundJudge, PInv, TypeOK, InOrder, Vouched, Superseded,
       Preparing, Names, Leave, Elsewhere, onDisk, world, At, Goto
<1>6. CASE StartFilling(r)
  <2>1. want[r] \notin manifest
    BY <1>6, PublishedByManifest DEF StartFilling, PInv, TypeOK
  <2>2. QED
    BY <1>6, <2>1 DEF StartFilling, PInv, TypeOK, InOrder, Vouched, Superseded,
       Preparing, Names, Leave, Elsewhere, onDisk, world, At, Goto
<1>7. CASE Assembled(r)
  BY <1>7 DEF Assembled, PInv, TypeOK, InOrder, Vouched, Superseded,
     Preparing, Names, Leave, Elsewhere, onDisk, world, At, Goto
<1>8. CASE FillFails(r)
  BY <1>8 DEF FillFails, PInv, TypeOK, InOrder, Vouched, Superseded,
     Preparing, Names, Leave, Elsewhere, onDisk, world, At, Goto
<1>8a. CASE GivesUp(r)
  BY <1>8a DEF GivesUp, PInv, TypeOK, InOrder, Vouched, Superseded,
     Preparing, Names, Leave, Elsewhere, onDisk, world, At, Goto
<1>9. CASE PublishRename(r)
  BY <1>9 DEF PublishRename, PInv, TypeOK, InOrder, Vouched, Superseded,
     Preparing, Names, Leave, Elsewhere, onDisk, world, At, Goto
<1>10. CASE PublishRecord(r)
  BY <1>10 DEF PublishRecord, PInv, TypeOK, InOrder, Vouched, Superseded,
     Preparing, Names, Leave, Elsewhere, onDisk, world, At, Goto
<1>11. CASE ForgetRecord(r)
  BY <1>11 DEF ForgetRecord, PInv, TypeOK, InOrder, Vouched, Superseded,
     Preparing, Names, Leave, Elsewhere, onDisk, world, At, Goto
<1>12. CASE ForgetMove(r)
  BY <1>12 DEF ForgetMove, PInv, TypeOK, InOrder, Vouched, Superseded,
     Preparing, Names, Leave, Elsewhere, onDisk, world, At, Goto
<1>13. CASE Prepared(r)
  BY <1>13 DEF Prepared, PInv, TypeOK, InOrder, Vouched, Superseded,
     Preparing, Names, Leave, Elsewhere, onDisk, world, At, Goto
<1>14. CASE StartTest(r)
  BY <1>14 DEF StartTest, PInv, TypeOK, InOrder, Vouched, Superseded,
     Preparing, Names, Leave, Elsewhere, onDisk, world, At, Goto
<1>15. CASE EndTest(r)
  BY <1>15 DEF EndTest, PInv, TypeOK, InOrder, Vouched, Superseded, Preparing,
     Names, Leave, Elsewhere, onDisk, world, At, Goto
<1>16. CASE Finish(r)
  BY <1>16 DEF Finish, PInv, TypeOK, InOrder, Vouched, Superseded, Preparing,
     Names, Leave, Elsewhere, onDisk, world, At, Goto
<1>17. CASE Crash(r)
  BY <1>17 DEF Crash, PInv, TypeOK, InOrder, Vouched, Superseded, Preparing,
     Names, Leave, Elsewhere, onDisk, world, At, Goto
<1>18. CASE Restart(r)
  BY <1>18 DEF Restart, PInv, TypeOK, InOrder, Vouched, Superseded, Preparing,
     Names, Leave, Elsewhere, onDisk, world, At, Goto
<1>19. QED
  BY <1>1, <1>2, <1>3, <1>4, <1>5, <1>6, <1>7, <1>8, <1>8a, <1>9, <1>10,
     <1>11, <1>12, <1>13, <1>14, <1>15, <1>16, <1>17, <1>18 DEF StepOf, Prepares,
     Judges

LEMMA StepVouched ==
  ASSUME PInv, Keys \subseteq Int, InOrder, Vouched, NEW r \in Runners, StepOf(r)
  PROVE  Vouched'
<1>1. ASSUME NEW q \in Runners, pc'[q] = "judging", NEW w, want'[q] = w
      PROVE  Extracted \in manifest' /\ w \in Keys /\ (w \in manifest' \/ Dropped(w)')
  <2>1. CASE q = r
    <3>1. /\ Extracted \in manifest' /\ w \in Keys
          /\ w \in manifest' \/ (Dropped(want[r]) /\ w = want[r])
      BY <1>1, <2>1, OwnVouched
    <3>2. Dropped(w) => Dropped(w)'
      BY DroppedStays DEF PInv
    <3>3. QED
      BY <3>1, <3>2
  <2>2. CASE q # r
    <3>1. pc[q] = "judging" /\ want[q] = w
      BY <1>1, <2>2, StepFrame DEF PInv
    <3>2. Extracted \in manifest /\ w \in Keys /\ (w \in manifest \/ Dropped(w))
      BY <3>1 DEF Vouched
    <3>3. Dropped(w) => Dropped(w)'
      BY DroppedStays DEF PInv
    <3>4. QED
      BY <3>2, <3>3, PackageStays, ForgottenIsDropped
  <2>3. QED
    BY <2>1, <2>2
<1>2. ASSUME NEW q \in Runners
      PROVE  /\ pc'[q] \in {"forgetting", "settingAside"} => want'[q] \in Keys \cap manifest'
             /\ pc'[q] \in Preparing \cup {"waiting", "judging"} => q \in marker'
             /\ mounts'[q] # {} => pc'[q] = "judging"
  <2>1. CASE q = r
    BY <2>1, OwnVouched
  <2>2. CASE q # r
    <3>1. /\ pc'[q] = pc[q] /\ want'[q] = want[q] /\ mounts'[q] = mounts[q]
          /\ q \in marker => q \in marker'
      BY <2>2, StepFrame DEF PInv
    <3>2. pc[q] \in Preparing => UNCHANGED manifest
      BY <2>2, StepManifest, LockedAlone DEF Preparing
    <3>3. QED
      BY <3>1, <3>2 DEF Vouched, Preparing
  <2>3. QED
    BY <2>1, <2>2
<1>3. ASSUME NEW q \in Runners, pc'[q] = "judging"
      PROVE  want'[q] \in manifest' \/ Dropped(want[q])'
  BY <1>1, <1>3 DEF Dropped
<1>4. QED
  BY <1>1, <1>2, <1>3 DEF Vouched

-----------------------------------------------------------------------------
\* What a step gives a new name, takes one from, and has a container mount.
SetsAside(r, n) ==
  /\ pc[r] = "settingAside" /\ n = older[r] /\ shelf[n] # NoDir
  /\ shelf'[n] = NoDir /\ aside'[r][n] = shelf[n]

LEMMA StepShelf ==
  ASSUME TypeOK, NEW r \in Runners, StepOf(r), NEW n \in Names
  PROVE  \/ shelf'[n] = shelf[n]
         \/ pc[r] = "publishing" /\ n = want[r] /\ shelf'[n] \in {aside[r][n], NoDir}
         \/ SetsAside(r, n)
<1>1. CASE Begin(r)
  BY <1>1 DEF Begin, At, Elsewhere, onDisk, SetsAside, TypeOK
<1>2. CASE Lock(r)
  BY <1>2 DEF Lock, At, Elsewhere, onDisk, SetsAside, TypeOK
<1>3. CASE StopWaiting(r)
  BY <1>3 DEF StopWaiting, At, Elsewhere, onDisk, SetsAside, TypeOK
<1>4. CASE FoundPackage(r)
  BY <1>4 DEF FoundPackage, At, Elsewhere, onDisk, SetsAside, TypeOK
<1>5. CASE FoundJudge(r)
  BY <1>5 DEF FoundJudge, At, Elsewhere, onDisk, SetsAside, TypeOK
<1>6. CASE StartFilling(r)
  BY <1>6 DEF StartFilling, At, Elsewhere, onDisk, SetsAside, TypeOK
<1>7. CASE Assembled(r)
  BY <1>7 DEF Assembled, At, Elsewhere, onDisk, SetsAside, TypeOK
<1>8. CASE FillFails(r)
  BY <1>8 DEF FillFails, At, Elsewhere, onDisk, SetsAside, TypeOK
<1>8a. CASE GivesUp(r)
  BY <1>8a DEF GivesUp, At, Elsewhere, onDisk, SetsAside, TypeOK
<1>9. CASE PublishRename(r)
  BY <1>9 DEF PublishRename, At, Elsewhere, onDisk, SetsAside, TypeOK
<1>10. CASE PublishRecord(r)
  BY <1>10 DEF PublishRecord, At, Elsewhere, onDisk, SetsAside, TypeOK
<1>11. CASE ForgetRecord(r)
  BY <1>11 DEF ForgetRecord, At, Elsewhere, onDisk, SetsAside, TypeOK
<1>12. CASE ForgetMove(r)
  BY <1>12 DEF ForgetMove, At, Elsewhere, onDisk, SetsAside, TypeOK
<1>13. CASE Prepared(r)
  BY <1>13 DEF Prepared, At, Elsewhere, onDisk, SetsAside, TypeOK
<1>14. CASE StartTest(r)
  BY <1>14 DEF StartTest, At, Elsewhere, onDisk, SetsAside, TypeOK
<1>15. CASE EndTest(r)
  BY <1>15 DEF EndTest, At, Elsewhere, onDisk, SetsAside, TypeOK
<1>16. CASE Finish(r)
  BY <1>16 DEF Finish, At, Elsewhere, onDisk, SetsAside, TypeOK
<1>17. CASE Crash(r)
  BY <1>17 DEF Crash, At, Elsewhere, onDisk, SetsAside, TypeOK
<1>18. CASE Restart(r)
  BY <1>18 DEF Restart, At, Elsewhere, onDisk, SetsAside, TypeOK
<1>19. QED
  BY <1>1, <1>2, <1>3, <1>4, <1>5, <1>6, <1>7, <1>8, <1>8a, <1>9, <1>10,
     <1>11, <1>12, <1>13, <1>14, <1>15, <1>16, <1>17, <1>18 DEF StepOf, Prepares,
     Judges

LEMMA StepAside ==
  ASSUME TypeOK, NEW r \in Runners, StepOf(r), NEW s \in Runners, NEW n \in Names
  PROVE  \/ aside'[s][n] = aside[s][n]
         \/ /\ s = r /\ pc[r] \in {"looking", "filling", "publishing"} /\ n = want[r]
            /\ aside'[r][n] \in Unused \cup {NoDir}
         \/ s = r /\ SetsAside(r, n)
         \/ /\ s = r /\ pc[r] = "down" /\ aside'[r][n] = NoDir
            /\ \A q \in Runners \ {r} : q \notin marker
<1>1. CASE Begin(r)
  BY <1>1 DEF Begin, At, Elsewhere, onDisk, SetsAside, TypeOK
<1>2. CASE Lock(r)
  BY <1>2 DEF Lock, At, Elsewhere, onDisk, SetsAside, TypeOK
<1>3. CASE StopWaiting(r)
  BY <1>3 DEF StopWaiting, At, Elsewhere, onDisk, SetsAside, TypeOK
<1>4. CASE FoundPackage(r)
  BY <1>4 DEF FoundPackage, At, Elsewhere, onDisk, SetsAside, TypeOK
<1>5. CASE FoundJudge(r)
  BY <1>5 DEF FoundJudge, At, Elsewhere, onDisk, SetsAside, TypeOK
<1>6. CASE StartFilling(r)
  BY <1>6 DEF StartFilling, At, Elsewhere, onDisk, SetsAside, TypeOK
<1>7. CASE Assembled(r)
  BY <1>7 DEF Assembled, At, Elsewhere, onDisk, SetsAside, TypeOK
<1>8. CASE FillFails(r)
  BY <1>8 DEF FillFails, At, Elsewhere, onDisk, SetsAside, TypeOK
<1>8a. CASE GivesUp(r)
  BY <1>8a DEF GivesUp, At, Elsewhere, onDisk, SetsAside, TypeOK
<1>9. CASE PublishRename(r)
  BY <1>9 DEF PublishRename, At, Elsewhere, onDisk, SetsAside, TypeOK
<1>10. CASE PublishRecord(r)
  BY <1>10 DEF PublishRecord, At, Elsewhere, onDisk, SetsAside, TypeOK
<1>11. CASE ForgetRecord(r)
  BY <1>11 DEF ForgetRecord, At, Elsewhere, onDisk, SetsAside, TypeOK
<1>12. CASE ForgetMove(r)
  BY <1>12 DEF ForgetMove, At, Elsewhere, onDisk, SetsAside, TypeOK
<1>13. CASE Prepared(r)
  BY <1>13 DEF Prepared, At, Elsewhere, onDisk, SetsAside, TypeOK
<1>14. CASE StartTest(r)
  BY <1>14 DEF StartTest, At, Elsewhere, onDisk, SetsAside, TypeOK
<1>15. CASE EndTest(r)
  BY <1>15 DEF EndTest, At, Elsewhere, onDisk, SetsAside, TypeOK
<1>16. CASE Finish(r)
  BY <1>16 DEF Finish, At, Elsewhere, onDisk, SetsAside, TypeOK
<1>17. CASE Crash(r)
  BY <1>17 DEF Crash, At, Elsewhere, onDisk, SetsAside, TypeOK
<1>18. CASE Restart(r)
  BY <1>18 DEF Restart, At, Elsewhere, onDisk, SetsAside, TypeOK
<1>19. QED
  BY <1>1, <1>2, <1>3, <1>4, <1>5, <1>6, <1>7, <1>8, <1>8a, <1>9, <1>10,
     <1>11, <1>12, <1>13, <1>14, <1>15, <1>16, <1>17, <1>18 DEF StepOf, Prepares,
     Judges

LEMMA StepMounts ==
  ASSUME TypeOK, NEW r \in Runners, StepOf(r)
  PROVE  \/ mounts'[r] \subseteq mounts[r]
         \/ /\ pc[r] = "judging" /\ NoDir \notin Given(r) /\ mounts'[r] = Given(r)
            /\ UNCHANGED <<onDisk, image, pc, want>>
<1>1. CASE Begin(r)
  BY <1>1 DEF Begin, At, Leave, Elsewhere, TypeOK, onDisk, world
<1>2. CASE Lock(r)
  BY <1>2 DEF Lock, At, Leave, Elsewhere, TypeOK, onDisk, world
<1>3. CASE StopWaiting(r)
  BY <1>3 DEF StopWaiting, At, Leave, Elsewhere, TypeOK, onDisk, world
<1>4. CASE FoundPackage(r)
  BY <1>4 DEF FoundPackage, At, Leave, Elsewhere, TypeOK, onDisk, world
<1>5. CASE FoundJudge(r)
  BY <1>5 DEF FoundJudge, At, Leave, Elsewhere, TypeOK, onDisk, world
<1>6. CASE StartFilling(r)
  BY <1>6 DEF StartFilling, At, Leave, Elsewhere, TypeOK, onDisk, world
<1>7. CASE Assembled(r)
  BY <1>7 DEF Assembled, At, Leave, Elsewhere, TypeOK, onDisk, world
<1>8. CASE FillFails(r)
  BY <1>8 DEF FillFails, At, Leave, Elsewhere, TypeOK, onDisk, world
<1>8a. CASE GivesUp(r)
  BY <1>8a DEF GivesUp, At, Leave, Elsewhere, TypeOK, onDisk, world
<1>9. CASE PublishRename(r)
  BY <1>9 DEF PublishRename, At, Leave, Elsewhere, TypeOK, onDisk, world
<1>10. CASE PublishRecord(r)
  BY <1>10 DEF PublishRecord, At, Leave, Elsewhere, TypeOK, onDisk, world
<1>11. CASE ForgetRecord(r)
  BY <1>11 DEF ForgetRecord, At, Leave, Elsewhere, TypeOK, onDisk, world
<1>12. CASE ForgetMove(r)
  BY <1>12 DEF ForgetMove, At, Leave, Elsewhere, TypeOK, onDisk, world
<1>13. CASE Prepared(r)
  BY <1>13 DEF Prepared, At, Leave, Elsewhere, TypeOK, onDisk, world
<1>14. CASE StartTest(r)
  BY <1>14 DEF StartTest, At, Leave, Elsewhere, TypeOK, onDisk, world
<1>15. CASE EndTest(r)
  BY <1>15 DEF EndTest, At, Leave, Elsewhere, TypeOK, onDisk, world
<1>16. CASE Finish(r)
  BY <1>16 DEF Finish, At, Leave, Elsewhere, TypeOK, onDisk, world
<1>17. CASE Crash(r)
  BY <1>17 DEF Crash, At, Leave, Elsewhere, TypeOK, onDisk, world
<1>18. CASE Restart(r)
  BY <1>18 DEF Restart, At, Leave, Elsewhere, TypeOK, onDisk, world
<1>19. QED
  BY <1>1, <1>2, <1>3, <1>4, <1>5, <1>6, <1>7, <1>8, <1>8a, <1>9, <1>10,
     <1>11, <1>12, <1>13, <1>14, <1>15, <1>16, <1>17, <1>18 DEF StepOf, Prepares,
     Judges

\* Nothing an evaluation has mounted is what the Runner that steps writes.
LEMMA StepMounted ==
  ASSUME MInv, Keys \subseteq Int, NEW r \in Runners, StepOf(r),
         NEW q \in Runners, NEW d, d \in mounts[q]
  PROVE  /\ d \in Named'
         /\ \A n \in Names : shelf'[n] = d => n \in manifest' \/ Dropped(n)'
         /\ \A s \in Runners, n \in Names :
              aside'[s][n] = d => n \notin manifest' /\ shelf'[n] = NoDir /\ Dropped(n)'
<1> USE DEF MInv
<1>1. d \in Dirs /\ d # NoDir
  BY PreparationAssumption DEF PInv, TypeOK
<1>2. \A n \in Names : shelf[n] = d => n \in manifest \/ Dropped(n)
  BY DEF MountedSafe
<1>3. \A s \in Runners, n \in Names :
        aside[s][n] = d => n \notin manifest /\ shelf[n] = NoDir /\ Dropped(n)
  BY DEF MountedSafe
<1>4. pc[r] \in Preparing => ~Dropped(want[r])
  BY DEF Dropped
<1>5. pc[r] = "publishing" => want[r] \notin manifest
  BY DEF PInv, InHand
<1>6. pc[r] = "settingAside" => older[r] \notin manifest
  BY DEF PInv, InHand
<1>7. \A n : Dropped(n) => Dropped(n)'
  BY DroppedStays DEF PInv
<1>8. \A n : n \in manifest /\ n \notin manifest' => Dropped(n)'
  BY ForgottenIsDropped
<1>9. \A n : Dropped(n) /\ n \notin manifest => n \notin manifest'
  BY <1>4, StepManifest DEF Preparing
<1>10. ASSUME NEW n \in Names, shelf'[n] = d
       PROVE  n \in manifest' \/ Dropped(n)'
  <2>1. CASE shelf'[n] = shelf[n]
    BY <1>2, <1>7, <1>8, <1>10, <2>1
  <2>2. CASE pc[r] = "publishing" /\ n = want[r] /\ shelf'[n] \in {aside[r][n], NoDir}
    BY <1>1, <1>3, <1>4, <1>10, <2>2 DEF Preparing
  <2>3. QED
    BY <1>1, <1>10, <2>1, <2>2, StepShelf DEF PInv, SetsAside
<1>11. ASSUME NEW s \in Runners, NEW n \in Names, aside'[s][n] = d
       PROVE  n \notin manifest' /\ shelf'[n] = NoDir /\ Dropped(n)'
  <2>1. CASE aside'[s][n] = aside[s][n]
    <3>1. n \notin manifest /\ shelf[n] = NoDir /\ Dropped(n)
      BY <1>3, <1>11, <2>1
    <3>2. shelf'[n] = NoDir
      BY <1>4, <3>1, StepShelf DEF PInv, SetsAside, Preparing
    <3>3. QED
      BY <1>7, <1>9, <3>1, <3>2
  <2>2. CASE s = r /\ SetsAside(r, n)
    <3>1. n \notin manifest /\ shelf[n] = d /\ shelf'[n] = NoDir
      BY <1>6, <1>11, <2>2 DEF SetsAside
    <3>2. Dropped(n)
      BY <1>2, <3>1
    <3>3. QED
      BY <1>7, <1>9, <3>1, <3>2
  <2>3. CASE aside'[s][n] \in Unused \cup {NoDir}
    BY <1>1, <1>11, <2>3 DEF Unused
  <2>4. QED
    BY <2>1, <2>2, <2>3, StepAside DEF PInv
<1>12. d \in Named'
  <2>1. (\E n \in Names : shelf[n] = d) \/ (\E s \in Runners, n \in Names : aside[s][n] = d)
    BY DEF MountedStays, Named
  <2>2. CASE \E n \in Names : shelf[n] = d
    <3>1. PICK n \in Names : shelf[n] = d
      BY <2>2
    <3>2. ~(pc[r] = "publishing" /\ n = want[r])
      BY <1>2, <1>4, <1>5, <3>1 DEF Preparing
    <3>3. shelf'[n] = d \/ aside'[r][n] = d
      BY <3>1, <3>2, StepShelf DEF PInv, SetsAside
    <3>4. QED
      BY <1>1, <3>3 DEF Named
  <2>3. CASE \E s \in Runners, n \in Names : aside[s][n] = d
    <3>1. PICK s \in Runners : \E n \in Names : aside[s][n] = d
      BY <2>3
    <3>2. PICK n \in Names : aside[s][n] = d
      BY <3>1
    <3>3. n \notin manifest /\ shelf[n] = NoDir /\ Dropped(n)
      BY <1>3, <3>2
    <3>4. ~(pc[r] \in Preparing /\ n = want[r]) /\ ~SetsAside(r, n)
      BY <1>4, <3>3 DEF SetsAside
    <3>5. ~(pc[r] = "down" /\ \A p \in Runners \ {r} : p \notin marker)
      <4>1. pc[q] = "judging" /\ q \in marker
        BY DEF Vouched
      <4>2. QED
        BY <4>1
    <3>6. aside'[s][n] = d
      BY <3>2, <3>4, <3>5, StepAside DEF PInv, Preparing
    <3>7. QED
      BY <1>1, <3>6 DEF Named
  <2>4. QED
    BY <2>1, <2>2, <2>3
<1>13. QED
  BY <1>10, <1>11, <1>12

\* What a container starts with is where nobody will write.
LEMMA GivenIsSafe ==
  ASSUME MInv, NEW r \in Runners, pc[r] = "judging", NEW d, d \in Given(r), d # NoDir
  PROVE  /\ d \in Named
         /\ \A n \in Names : shelf[n] = d => n \in manifest \/ Dropped(n)
         /\ \A s \in Runners, n \in Names : aside[s][n] # d
<1>1. /\ Extracted \in manifest /\ want[r] \in Keys
      /\ want[r] \in manifest \/ Dropped(want[r])
  BY DEF MInv, Vouched
<1>2. PICK m \in {Extracted, want[r]} : d = shelf[m]
  BY DEF Given
<1>3. m \in Names /\ (m \in manifest \/ Dropped(m))
  BY <1>1, <1>2 DEF Names
<1>4. d \in Named
  BY <1>2, <1>3 DEF Named
<1>5. \A n \in Names : shelf[n] = d => n = m
  BY <1>2, <1>3 DEF MInv, NoTwins
<1>6. \A s \in Runners, n \in Names : aside[s][n] # d
  BY <1>2, <1>3 DEF MInv, NoTwins
<1>7. QED
  BY <1>3, <1>4, <1>5, <1>6

LEMMA StepSafe ==
  ASSUME MInv, Keys \subseteq Int, NEW r \in Runners, StepOf(r)
  PROVE  MountedSafe' /\ MountedStays'
<1>1. ASSUME NEW q \in Runners, NEW d, d \in mounts'[q]
      PROVE  /\ d \in Named'
             /\ \A n \in Names : shelf'[n] = d => n \in manifest' \/ Dropped(n)'
             /\ \A s \in Runners, n \in Names :
                  aside'[s][n] = d => n \notin manifest' /\ shelf'[n] = NoDir /\ Dropped(n)'
  <2>1. CASE d \in mounts[q]
    BY <2>1, StepMounted
  <2>2. CASE d \notin mounts[q]
    <3>1. /\ q = r /\ pc[r] = "judging" /\ d \in Given(r) /\ d # NoDir
          /\ UNCHANGED <<onDisk, image, pc, want>>
      BY <1>1, <2>2, StepFrame, StepMounts DEF MInv, PInv
    <3>2. UNCHANGED <<shelf, aside, manifest>>
      BY <3>1 DEF onDisk
    <3>3. \A n : Dropped(n) => Dropped(n)'
      BY DroppedStays DEF MInv, PInv
    <3>4. Named' = Named
      BY <3>2 DEF Named
    <3>5. QED
      BY <3>1, <3>2, <3>3, <3>4, GivenIsSafe
  <2>3. QED
    BY <2>1, <2>2
<1>2. MountedStays'
  BY <1>1 DEF MountedStays
<1>3. ASSUME NEW q \in Runners, NEW n \in Names, shelf'[n] \in mounts'[q]
      PROVE  n \in manifest' \/ Dropped(n)'
  BY <1>1, <1>3
<1>4. ASSUME NEW q \in Runners, NEW n \in Names, NEW s \in Runners,
             aside'[s][n] \in mounts'[q]
      PROVE  n \notin manifest' /\ shelf'[n] = NoDir /\ Dropped(n)'
  BY <1>1, <1>4
<1>5. MountedSafe'
  BY <1>3, <1>4 DEF MountedSafe
<1>6. QED
  BY <1>2, <1>5

\* A new build is one nothing is named after yet.
LEMMA RepublishSafe ==
  ASSUME MInv, Keys \subseteq Int, Republish, image' >= image
  PROVE  MInv'
<1>1. UNCHANGED <<lock, manifest, shelf, aside, whole, marker, pc, want, mounts>>
  BY DEF Republish, onDisk
<1>2. image \in Int /\ image' \in Int
  BY DEF Republish, MInv, PInv, TypeOK
<1>3. \A k \in Int : (k <= image => k <= image') /\ (k < image => k < image')
  BY <1>2
<1>4. \A n : Dropped(n) => Dropped(n)'
  BY <1>1, <1>3 DEF Dropped
<1>5. PInv'
  BY StepRepublish DEF MInv
<1>6. NoTwins'
  BY <1>1 DEF MInv, NoTwins
<1>7. InOrder'
  BY <1>1, <1>3 DEF MInv, InOrder
<1>8. Vouched'
  <2>1. \A q \in Runners : Dropped(want[q]) => Dropped(want[q])'
    BY <1>1, <1>3 DEF Dropped
  <2>2. QED
    BY <1>1, <2>1 DEF MInv, Vouched
<1>9. MountedSafe'
  BY <1>1, <1>4 DEF MInv, MountedSafe
<1>10. MountedStays'
  BY <1>1 DEF MInv, MountedStays, Named
<1>11. QED
  BY <1>5, <1>6, <1>7, <1>8, <1>9, <1>10 DEF MInv

LEMMA InitMounts == Init => MInv
<1> SUFFICES ASSUME Init PROVE MInv
  OBVIOUS
<1>1. PInv
  BY InitPrepared
<1>2. NoTwins /\ InOrder /\ Vouched
  BY DEF Init, NoTwins, InOrder, Vouched, Preparing
<1>3. MountedSafe /\ MountedStays
  BY DEF Init, MountedSafe, MountedStays
<1>4. QED
  BY <1>1, <1>2, <1>3 DEF MInv

LEMMA StepMInv ==
  ASSUME Keys \subseteq Int, MInv, [Next]_vars, [image' >= image]_vars
  PROVE  MInv'
<1>1. CASE UNCHANGED vars
  <2>1. UNCHANGED <<manifest, shelf, aside, marker, pc, want, mounts, image>>
    BY <1>1 DEF vars, onDisk, world
  <2>2. PInv'
    BY <1>1, StepPrepared DEF MInv
  <2>3. NoTwins' /\ InOrder'
    BY <2>1 DEF MInv, NoTwins, InOrder
  <2>4. Vouched'
    BY <2>1 DEF MInv, Vouched, Dropped
  <2>5. MountedSafe' /\ MountedStays'
    BY <2>1 DEF MInv, MountedSafe, MountedStays, Named, Dropped
  <2>6. QED
    BY <2>2, <2>3, <2>4, <2>5 DEF MInv
<1>2. ASSUME NEW r \in Runners, StepOf(r) PROVE MInv'
  <2>1. PInv'
    BY <1>2, StepTypes, StepLock, StepRecorded DEF MInv, PInv
  <2>2. QED
    BY <1>2, <2>1, StepTwins, StepOrder, StepVouched, StepSafe DEF MInv
<1>3. CASE Republish
  <2>1. image' >= image
    BY <1>3 DEF Republish, vars, world, MInv, PInv, TypeOK
  <2>2. QED
    BY <1>3, <2>1, RepublishSafe
<1>4. QED
  BY <1>1, <1>2, <1>3 DEF Next, StepOf

\* Number the builds in the order the image's tag first calls for them.  While
\* the tag never goes back to one it has left, however often it moves, no
\* preparation removes or replaces a directory that a judge's container has
\* mounted (cache.rs, filling, publish and forget).
THEOREM MountsAreLeftAlone ==
  ASSUME Keys \subseteq Int
  PROVE  Spec /\ [][image' >= image]_vars => []MountedStays
<1>1. MInv => MountedStays
  BY DEF MInv
<1>2. QED
  BY InitMounts, StepMInv, <1>1, PTL DEF Spec
=============================================================================
