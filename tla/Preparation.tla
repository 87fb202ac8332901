------------------------------ MODULE Preparation ------------------------------
(***************************************************************************)
(* Runners preparing one package they share, and judging with what was     *)
(* prepared: prepare in aj-runner/src/prepare.rs, over Entry::lock,        *)
(* Filling, publish and forget of aj-protocol/src/cache.rs.                *)
(*                                                                         *)
(* Every system call that others can see is a step.  Directories have an   *)
(* identity of their own, which a rename keeps: a container that has one   *)
(* mounted follows it, and a container that is still to start finds it by  *)
(* its name or not at all.  Nothing is evicted here: see PackageCache.     *)
(***************************************************************************)
EXTENDS Integers, FiniteSets

CONSTANTS
  Runners,
  Keys,          \* builds of the package's judge, one for each image built in
  Extracted,     \* the name the package is unpacked under
  Nobody,        \* who has the lock when it is free
  NoDir,         \* what a name that is not on disk names
  Dirs,          \* identities of directories
  FirstImage,    \* the build the language image of the first day calls for
  MaxRepublish,  \* bound: times the image's tag is moved
  MaxCrashes     \* bound: processes killed

Names == Keys \cup {Extracted}

ASSUME PreparationAssumption ==
  /\ Extracted \notin Keys /\ FirstImage \in Keys
  /\ Nobody \notin Runners /\ NoDir \notin Dirs
  /\ MaxRepublish \in Nat /\ MaxCrashes \in Nat

VARIABLES
  lock,      \* who has the entry's lock
  manifest,  \* the names the manifest vouches for
  shelf,     \* shelf[n]: the directory published under n
  aside,     \* aside[r][n]: the directory under r's own unfinished name for n
  whole,     \* directories with everything in them
  image,     \* the build the image's tag calls for now
  marker,    \* Runners whose holding marker is in the entry
  pc,
  want,      \* want[r]: the name r is looking for, preparing or judging with
  older,     \* older[r]: the superseded name r is dropping
  mounts,    \* mounts[r]: what the judge's running container of r has mounted
  republish, \* moves of the tag left
  crashes    \* crashes left

onDisk == <<manifest, shelf, aside, whole>>
world == <<image, republish, crashes>>
vars == <<lock, onDisk, world, marker, pc, want, older, mounts>>

\* Between taking the lock and dropping it.
Preparing ==
  {"looking", "filling", "publishing", "recording", "forgetting", "settingAside"}

TypeOK ==
  /\ lock \in Runners \cup {Nobody}
  /\ manifest \subseteq Names
  /\ shelf \in [Names -> Dirs \cup {NoDir}]
  /\ aside \in [Runners -> [Names -> Dirs \cup {NoDir}]]
  /\ whole \subseteq Dirs
  /\ image \in Keys
  /\ marker \subseteq Runners
  /\ pc \in [Runners -> Preparing \cup {"idle", "waiting", "judging", "down"}]
  /\ want \in [Runners -> Names]
  /\ older \in [Runners -> Names]
  /\ mounts \in [Runners -> SUBSET Dirs]
  /\ republish \in 0 .. MaxRepublish /\ crashes \in 0 .. MaxCrashes

Init ==
  /\ lock = Nobody
  /\ manifest = {} /\ whole = {}
  /\ shelf = [n \in Names |-> NoDir]
  /\ aside = [r \in Runners |-> [n \in Names |-> NoDir]]
  /\ image = FirstImage
  /\ marker = {}
  /\ pc = [r \in Runners |-> "idle"]
  /\ want = [r \in Runners |-> Extracted]
  /\ older = [r \in Runners |-> Extracted]
  /\ mounts = [r \in Runners |-> {}]
  /\ republish = MaxRepublish /\ crashes = MaxCrashes

-----------------------------------------------------------------------------
At(r, p) == pc[r] = p
Goto(r, p) == pc' = [pc EXCEPT ![r] = p]

\* Directories somebody can still reach by a name.
Named ==
  ({shelf[n] : n \in Names} \cup {aside[r][n] : r \in Runners, n \in Names}) \ {NoDir}

Unused == Dirs \ (Named \cup UNION {mounts[r] : r \in Runners})

\* Both halves are required, and neither implies the other.
Published(n) == n \in manifest /\ shelf[n] # NoDir

\* The evaluation is over, judged, failed or stopped: the Entry is dropped, and
\* its marker with it.
Leave(r) ==
  /\ Goto(r, "idle")
  /\ marker' = marker \ {r}
  /\ mounts' = [mounts EXCEPT ![r] = {}]

Elsewhere == UNCHANGED <<world, marker, mounts>>

-----------------------------------------------------------------------------
(* The lock                                                                *)

Begin(r) ==
  /\ At(r, "idle")
  /\ Goto(r, "waiting")
  /\ marker' = marker \cup {r}
  /\ UNCHANGED <<lock, onDisk, world, want, older, mounts>>

Lock(r) ==
  /\ At(r, "waiting") /\ lock = Nobody
  /\ Goto(r, "looking")
  /\ lock' = r
  /\ want' = [want EXCEPT ![r] = Extracted]
  /\ UNCHANGED <<onDisk, older>> /\ Elsewhere

StopWaiting(r) ==
  /\ At(r, "waiting")
  /\ Leave(r)
  /\ UNCHANGED <<lock, onDisk, world, want, older>>

-----------------------------------------------------------------------------
(* prepare: the package, then the judge built from it                      *)

\* The package is there: its judge is next, under the image of this moment.
FoundPackage(r) ==
  /\ At(r, "looking") /\ want[r] = Extracted /\ Published(Extracted)
  /\ want' = [want EXCEPT ![r] = image]
  /\ UNCHANGED <<lock, onDisk, pc, older>> /\ Elsewhere

FoundJudge(r) ==
  /\ At(r, "looking") /\ want[r] # Extracted /\ Published(want[r])
  /\ Goto(r, "judging")
  /\ lock' = Nobody
  /\ UNCHANGED <<onDisk, want, older>> /\ Elsewhere

\* filling removes this Runner's own leftover of that name; whoever fills it
\* makes the target.
StartFilling(r) ==
  /\ At(r, "looking") /\ ~Published(want[r]) /\ Unused # {}
  /\ Goto(r, "filling")
  /\ LET d == CHOOSE d \in Unused : TRUE IN
       /\ aside' = [aside EXCEPT ![r][want[r]] = d]
       /\ whole' = whole \ {d}
  /\ UNCHANGED <<lock, manifest, shelf, want, older>> /\ Elsewhere

Assembled(r) ==
  /\ At(r, "filling")
  /\ Goto(r, "publishing")
  /\ whole' = whole \cup {aside[r][want[r]]}
  /\ UNCHANGED <<lock, manifest, shelf, aside, want, older>> /\ Elsewhere

\* Mutant of FillFails: the lock is not dropped with the failed preparation.
FillFailsLocked(r) ==
  /\ At(r, "filling")
  /\ aside' = [aside EXCEPT ![r][want[r]] = NoDir]
  /\ Leave(r)
  /\ UNCHANGED <<lock, manifest, shelf, whole, world, want, older>>

\* A refused archive, a build that fails, a rename that does, or the evaluation
\* dropped by a stop: what was assembled goes, and then the lock.  What the
\* manifest did not name may have been removed for the rename.
FillFails(r) ==
  /\ At(r, "filling") \/ At(r, "publishing")
  /\ \/ UNCHANGED shelf
     \/ At(r, "publishing") /\ shelf' = [shelf EXCEPT ![want[r]] = NoDir]
  /\ aside' = [aside EXCEPT ![r][want[r]] = NoDir]
  /\ lock' = Nobody
  /\ Leave(r)
  /\ UNCHANGED <<manifest, whole, world, want, older>>

\* A configuration that is refused, an image the daemon does not know, a
\* manifest that cannot be written, before what it would record or drop, or
\* the stop again: the lock goes, and what was published stays.
GivesUp(r) ==
  /\ At(r, "looking") \/ At(r, "recording") \/ At(r, "forgetting")
  /\ lock' = Nobody
  /\ Leave(r)
  /\ UNCHANGED <<onDisk, world, want, older>>

\* Mutant of PublishRename: the manifest is written before the rename.
RecordFirst(r) ==
  /\ At(r, "publishing")
  /\ Goto(r, "recording")
  /\ manifest' = manifest \cup {want[r]}
  /\ UNCHANGED <<lock, shelf, aside, whole, want, older>> /\ Elsewhere

\* What the manifest does not name is removed and replaced.
PublishRename(r) ==
  /\ At(r, "publishing")
  /\ Goto(r, "recording")
  /\ shelf' = [shelf EXCEPT ![want[r]] = aside[r][want[r]]]
  /\ aside' = [aside EXCEPT ![r][want[r]] = NoDir]
  /\ UNCHANGED <<lock, manifest, whole, want, older>> /\ Elsewhere

PublishRecord(r) ==
  /\ At(r, "recording")
  /\ manifest' = manifest \cup {want[r]}
  /\ IF want[r] = Extracted
     THEN Goto(r, "looking") /\ want' = [want EXCEPT ![r] = image]
     ELSE Goto(r, "forgetting") /\ UNCHANGED want
  /\ UNCHANGED <<lock, shelf, aside, whole, older>> /\ Elsewhere

-----------------------------------------------------------------------------
(* forget: what a new build supersedes                                     *)

Superseded(r) == manifest \ {Extracted, want[r]}

ForgetRecord(r) ==
  /\ At(r, "forgetting")
  /\ Goto(r, "settingAside")
  /\ \E n \in Superseded(r) :
       /\ manifest' = manifest \ {n}
       /\ older' = [older EXCEPT ![r] = n]
  /\ UNCHANGED <<lock, shelf, aside, whole, want>> /\ Elsewhere

\* Mutant of ForgetMove: the superseded build is removed and not renamed.
ForgetRemove(r) ==
  /\ At(r, "settingAside")
  /\ Goto(r, "forgetting")
  /\ shelf' = [shelf EXCEPT ![older[r]] = NoDir]
  /\ UNCHANGED <<lock, manifest, aside, whole, want, older>> /\ Elsewhere

\* Renamed, for the container that has it mounted; what was under the name it
\* is renamed to is removed.
ForgetMove(r) ==
  LET n == older[r] IN
  /\ At(r, "settingAside")
  /\ Goto(r, "forgetting")
  /\ IF shelf[n] = NoDir
     THEN UNCHANGED <<shelf, aside>>
     ELSE /\ aside' = [aside EXCEPT ![r][n] = shelf[n]]
          /\ shelf' = [shelf EXCEPT ![n] = NoDir]
  /\ UNCHANGED <<lock, manifest, whole, want, older>> /\ Elsewhere

Prepared(r) ==
  /\ At(r, "forgetting") /\ Superseded(r) = {}
  /\ Goto(r, "judging")
  /\ lock' = Nobody
  /\ UNCHANGED <<onDisk, want, older>> /\ Elsewhere

-----------------------------------------------------------------------------
(* Judging: a container of the judge for every test, after the lock        *)

Given(r) == {shelf[Extracted], shelf[want[r]]}

\* Both mounts are required: a container whose source is not there does not
\* start, and that fails the evaluation.
StartTest(r) ==
  /\ At(r, "judging") /\ mounts[r] = {}
  /\ IF NoDir \in Given(r)
     THEN Leave(r)
     ELSE mounts' = [mounts EXCEPT ![r] = Given(r)] /\ UNCHANGED <<pc, marker>>
  /\ UNCHANGED <<lock, onDisk, world, want, older>>

EndTest(r) ==
  /\ mounts[r] # {}
  /\ mounts' = [mounts EXCEPT ![r] = {}]
  /\ UNCHANGED <<lock, onDisk, world, marker, pc, want, older>>

\* The last test, or a stop, which takes the container away with it.
Finish(r) ==
  /\ At(r, "judging")
  /\ Leave(r)
  /\ UNCHANGED <<lock, onDisk, world, want, older>>

-----------------------------------------------------------------------------
(* The world outside                                                       *)

\* The language image is published again under the same tag.
Republish ==
  /\ republish > 0
  /\ republish' = republish - 1
  /\ image' \in Keys \ {image}
  /\ UNCHANGED <<lock, onDisk, marker, pc, want, older, mounts, crashes>>

\* A killed process has its descriptor closed, and so its lock dropped.
Crash(r) ==
  /\ ~At(r, "down") /\ crashes > 0
  /\ crashes' = crashes - 1
  /\ Goto(r, "down")
  /\ lock' = IF lock = r THEN Nobody ELSE lock
  /\ mounts' = [mounts EXCEPT ![r] = {}]
  /\ UNCHANGED <<onDisk, image, republish, marker, want, older>>

\* sweep: its own marker, and its own unfinished names where nobody holds the
\* entry.
Restart(r) ==
  /\ At(r, "down")
  /\ Goto(r, "idle")
  /\ marker' = marker \ {r}
  /\ aside' = IF marker' = {}
              THEN [aside EXCEPT ![r] = [n \in Names |-> NoDir]] ELSE aside
  /\ UNCHANGED <<lock, manifest, shelf, whole, world, want, older, mounts>>

-----------------------------------------------------------------------------
Prepares(r) ==
  \/ FoundPackage(r) \/ FoundJudge(r) \/ StartFilling(r) \/ Assembled(r)
  \/ FillFails(r) \/ GivesUp(r) \/ PublishRename(r) \/ PublishRecord(r)
  \/ ForgetRecord(r) \/ ForgetMove(r) \/ Prepared(r)

Judges(r) == StartTest(r) \/ EndTest(r) \/ Finish(r)

Next ==
  \/ \E r \in Runners :
       \/ Begin(r) \/ Lock(r) \/ StopWaiting(r)
       \/ Prepares(r) \/ Judges(r) \/ Crash(r) \/ Restart(r)
  \/ Republish

Spec == Init /\ [][Next]_vars

\* Unpacking is bounded by ArchiveLimits and a build by its wall clock, and the
\* runtime runs a task that can run.
FairSpec == Spec /\ \A r \in Runners : WF_vars(Prepares(r))

-----------------------------------------------------------------------------
(* Properties                                                              *)

\* What the manifest vouches for is on disk and all of it is there, wherever
\* a crash fell: a Runner is never handed a half-made product (cache.rs,
\* publish and forget).
RecordedIsWhole == \A n \in manifest : shelf[n] \in whole

\* A directory a judge's container has mounted is not removed under it, by
\* whoever replaces or forgets what it holds (cache.rs, forget).
MountedStays == \A r \in Runners : mounts[r] \subseteq Named

\* The lock is let go of, whatever became of the preparation under it.
LockIsReleased == \A r \in Runners : (lock = r) ~> (lock # r)
=============================================================================
