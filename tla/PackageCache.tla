----------------------------- MODULE PackageCache -----------------------------
(***************************************************************************)
(* Runners sharing one package cache volume: aj-protocol/src/cache.rs as   *)
(* an evaluation uses it (judge in run.rs, prepare in prepare.rs).         *)
(*                                                                         *)
(* The files are the shared state and nothing else is: each Runner is a    *)
(* process, every system call is a step, and an eviction removes an entry  *)
(* a part at a time.  Preparing under the entry's lock is one step here;   *)
(* Preparation has its detail, and this module what eviction does to it.   *)
(***************************************************************************)
EXTENDS Integers, FiniteSets

CONSTANTS
  Runners,
  Packages,
  NoPackage,   \* what a Runner between evaluations is after
  MaxCrashes   \* bound: processes killed

ASSUME CacheAssumption == NoPackage \notin Packages /\ MaxCrashes \in Nat

VARIABLES
  file,        \* file[p]: the archive of p, "absent", "whole" or "mixed"
  partial,     \* partial[p][n]: Runners writing the unfinished download named n
  tree,        \* tree[p]: what was unpacked of p, "absent", "whole" or "torn"
  manifest,    \* manifest[p]: the manifest of p vouches for the tree
  holdingDir,  \* holdingDir[p]: holding/<p> is there
  marker,      \* marker[p]: Runners whose marker is in it
  pc,
  pkg,         \* pkg[r]: the package r is evaluating with
  victims,     \* victims[r]: entries r's eviction has still to look at
  doomed,      \* doomed[r]: the entry r found held by nobody and is removing
  crashes,     \* crashes left
  \* Kept for a property only: no step depends on it.
  seen         \* seen[r]: whose markers were on doomed[r] when r asked

disk == <<file, partial, tree, manifest>>
holds == <<holdingDir, marker>>
evicting == <<victims, doomed, seen>>
vars == <<disk, holds, pc, pkg, evicting, crashes>>

Places ==
  {"idle", "marking", "looking", "downloading", "landing", "weighing",
   "preparing", "weighingAgain", "judging", "unmarking", "closing", "down"}

\* The Entry exists: it is held against eviction, and will be used.
Holding ==
  {"looking", "downloading", "landing", "weighing", "preparing",
   "weighingAgain", "judging"}

TypeOK ==
  /\ file \in [Packages -> {"absent", "whole", "mixed"}]
  /\ partial \in [Packages -> [Runners -> SUBSET Runners]]
  /\ tree \in [Packages -> {"absent", "whole", "torn"}]
  /\ manifest \in [Packages -> BOOLEAN]
  /\ holdingDir \in [Packages -> BOOLEAN]
  /\ marker \in [Packages -> SUBSET Runners]
  /\ pc \in [Runners -> Places]
  /\ pkg \in [Runners -> Packages \cup {NoPackage}]
  /\ victims \in [Runners -> SUBSET Packages]
  /\ doomed \in [Runners -> Packages \cup {NoPackage}]
  /\ crashes \in 0 .. MaxCrashes
  /\ seen \in [Runners -> SUBSET Runners]
  /\ \A r \in Runners : pkg[r] = NoPackage <=> pc[r] \in {"idle", "down"}

Init ==
  /\ file = [p \in Packages |-> "absent"]
  /\ partial = [p \in Packages |-> [n \in Runners |-> {}]]
  /\ tree = [p \in Packages |-> "absent"]
  /\ manifest = [p \in Packages |-> FALSE]
  /\ holdingDir = [p \in Packages |-> FALSE]
  /\ marker = [p \in Packages |-> {}]
  /\ pc = [r \in Runners |-> "idle"]
  /\ pkg = [r \in Runners |-> NoPackage]
  /\ victims = [r \in Runners |-> {}]
  /\ doomed = [r \in Runners |-> NoPackage]
  /\ crashes = MaxCrashes
  /\ seen = [r \in Runners |-> {}]

-----------------------------------------------------------------------------
At(r, places) == pc[r] \in places
Goto(r, p) == pc' = [pc EXCEPT ![r] = p]

\* Mutant of PartialFor: one name for every Runner's download.
OnePartial(r) == CHOOSE n \in Runners : TRUE

\* Unfinished downloads are named after the Runner that makes them.
PartialFor(r) == r

Unfinished(p) == \E n \in Runners : partial[p][n] # {}

\* There is something in the entry's directory.
Exists(p) == file[p] # "absent" \/ Unfinished(p) \/ tree[p] # "absent" \/ manifest[p]

HeldByAnybody(p) == marker[p] # {}

\* What r was evicting is of no more interest to it.
NoEviction(r) ==
  /\ victims' = [victims EXCEPT ![r] = {}]
  /\ doomed' = [doomed EXCEPT ![r] = NoPackage]
  /\ seen' = [seen EXCEPT ![r] = {}]

\* The Entry is dropped on every way out of an evaluation.
Leave(r) ==
  /\ Goto(r, "unmarking")
  /\ NoEviction(r)
  /\ UNCHANGED <<holds, pkg, crashes>>

Idle == UNCHANGED <<evicting, crashes>>

-----------------------------------------------------------------------------
(* hold and release: the marker and the directory it is in                 *)

\* hold: the directory first.
Begin(r, p) ==
  /\ At(r, {"idle"})
  /\ Goto(r, "marking")
  /\ pkg' = [pkg EXCEPT ![r] = p]
  /\ holdingDir' = [holdingDir EXCEPT ![p] = TRUE]
  /\ UNCHANGED <<disk, marker>> /\ Idle

\* Then the marker; that it could not be written is not noticed.
Mark(r) ==
  LET p == pkg[r] IN
  /\ At(r, {"marking"})
  /\ Goto(r, "looking")
  /\ marker' = [marker EXCEPT ![p] = IF holdingDir[p] THEN @ \cup {r} ELSE @]
  /\ UNCHANGED <<disk, holdingDir, pkg>> /\ Idle

\* Mutant of Unmark: the marker is left for the next start to clear.
UnmarkForgotten(r) ==
  /\ At(r, {"unmarking"})
  /\ Goto(r, "closing")
  /\ UNCHANGED <<disk, holds, pkg>> /\ Idle

Unmark(r) ==
  /\ At(r, {"unmarking"})
  /\ Goto(r, "closing")
  /\ marker' = [marker EXCEPT ![pkg[r]] = @ \ {r}]
  /\ UNCHANGED <<disk, holdingDir, pkg>> /\ Idle

\* Refused while anybody else's marker is in it.
Close(r) ==
  LET p == pkg[r] IN
  /\ At(r, {"closing"})
  /\ Goto(r, "idle")
  /\ pkg' = [pkg EXCEPT ![r] = NoPackage]
  /\ holdingDir' = [holdingDir EXCEPT ![p] = @ /\ marker[p] # {}]
  /\ UNCHANGED <<disk, marker>> /\ Idle

-----------------------------------------------------------------------------
(* fetch                                                                   *)

\* A hit is the file existing; nothing re-reads it.
Look(r) ==
  /\ At(r, {"looking"})
  /\ Goto(r, IF file[pkg[r]] # "absent" THEN "preparing" ELSE "downloading")
  /\ UNCHANGED <<disk, holds, pkg>> /\ Idle

\* Under a name of this Runner's own, and not under the lock.
Download(r) ==
  /\ At(r, {"downloading"})
  /\ Goto(r, "landing")
  /\ partial' = [partial EXCEPT ![pkg[r]][PartialFor(r)] = @ \cup {r}]
  /\ UNCHANGED <<file, tree, manifest, holds, pkg>> /\ Idle

\* The Server refuses it, the network cuts it short where it stands, or it is
\* not what the checksum promised.
DownloadFails(r) ==
  \/ /\ At(r, {"downloading", "landing"})
     /\ Leave(r) /\ UNCHANGED disk
  \/ /\ At(r, {"landing"})
     /\ partial' = [partial EXCEPT ![pkg[r]][PartialFor(r)] = {}]
     /\ Leave(r) /\ UNCHANGED <<file, tree, manifest>>

\* The rename: atomic, and gone means fetched again.  What is under the name
\* is this Runner's own bytes only if nobody else wrote there.
Land(r) ==
  LET p == pkg[r]
      n == PartialFor(r) IN
  /\ At(r, {"landing"})
  /\ IF partial[p][n] # {}
     THEN /\ Goto(r, "weighing")
          /\ file' = [file EXCEPT ![p] = IF partial[p][n] = {r} THEN "whole" ELSE "mixed"]
          /\ partial' = [partial EXCEPT ![p][n] = {}]
          /\ UNCHANGED <<tree, manifest, holds, pkg>> /\ Idle
     ELSE Leave(r) /\ UNCHANGED disk

-----------------------------------------------------------------------------
(* prepare: under the entry's lock, so one Runner at a time                *)

\* What the manifest vouches for and is there is used as it is; anything else
\* is unpacked again from the archive, which has to be there still.  Every
\* error of a preparation is a failure of the machinery.
Prepare(r) ==
  LET p == pkg[r] IN
  /\ At(r, {"preparing"})
  /\ IF manifest[p] /\ tree[p] # "absent"
     THEN /\ Goto(r, "weighingAgain")
          /\ UNCHANGED <<disk, holds, pkg>> /\ Idle
     ELSE IF file[p] = "whole"
          THEN /\ Goto(r, "weighingAgain")
               /\ tree' = [tree EXCEPT ![p] = "whole"]
               /\ manifest' = [manifest EXCEPT ![p] = TRUE]
               /\ UNCHANGED <<file, partial, holds, pkg>> /\ Idle
          ELSE Leave(r) /\ UNCHANGED disk

Judge(r) ==
  /\ At(r, {"judging"})
  /\ Leave(r) /\ UNCHANGED disk

-----------------------------------------------------------------------------
(* evict_to_fit                                                            *)

\* The listing: an entry somebody is writing in is not chosen.  Which of the
\* rest go, and how many, is age and weight.
Weigh(r) ==
  /\ At(r, {"weighing", "weighingAgain"}) /\ victims[r] = {} /\ doomed[r] = NoPackage
  /\ \E listed \in SUBSET {p \in Packages : Exists(p) /\ ~Unfinished(p)} \ {{}} :
       victims' = [victims EXCEPT ![r] = listed]
  /\ UNCHANGED <<disk, holds, pc, pkg, doomed, seen, crashes>>

\* Mutant of Ask: what this process holds is asked, and not the markers of all.
AskInMemory(r, p) ==
  /\ p \in victims[r] /\ doomed[r] = NoPackage
  /\ victims' = [victims EXCEPT ![r] = @ \ {p}]
  /\ IF pkg[r] = p
     THEN UNCHANGED <<doomed, seen>>
     ELSE /\ doomed' = [doomed EXCEPT ![r] = p]
          /\ seen' = [seen EXCEPT ![r] = marker[p]]
  /\ UNCHANGED <<disk, holds, pc, pkg, crashes>>

\* Each is asked about in its turn, and removed after the answer.
Ask(r, p) ==
  /\ p \in victims[r] /\ doomed[r] = NoPackage
  /\ victims' = [victims EXCEPT ![r] = @ \ {p}]
  /\ IF HeldByAnybody(p)
     THEN UNCHANGED <<doomed, seen>>
     ELSE /\ doomed' = [doomed EXCEPT ![r] = p]
          /\ seen' = [seen EXCEPT ![r] = marker[p]]
  /\ UNCHANGED <<disk, holds, pc, pkg, crashes>>

\* remove_dir_all, in whatever order the directory is read.
RemovePart(r) ==
  LET p == doomed[r] IN
  /\ p # NoPackage
  /\ \/ /\ file[p] # "absent"
        /\ file' = [file EXCEPT ![p] = "absent"]
        /\ UNCHANGED <<partial, tree, manifest>>
     \/ /\ Unfinished(p)
        /\ \E n \in Runners : partial' = [partial EXCEPT ![p][n] = {}]
        /\ UNCHANGED <<file, tree, manifest>>
     \/ /\ tree[p] # "absent"
        /\ tree' = [tree EXCEPT ![p] = IF @ = "whole" THEN "torn" ELSE "absent"]
        /\ UNCHANGED <<file, partial, manifest>>
     \/ /\ manifest[p]
        /\ manifest' = [manifest EXCEPT ![p] = FALSE]
        /\ UNCHANGED <<file, partial, tree>>
  /\ UNCHANGED <<holds, pc, pkg, evicting, crashes>>

\* The directory goes last, and not while somebody is putting things in it.
Removed(r) ==
  LET p == doomed[r] IN
  /\ p # NoPackage
  /\ ~Exists(p) \/ \E s \in Runners \ {r} : pkg[s] = p /\ At(s, Holding)
  /\ doomed' = [doomed EXCEPT ![r] = NoPackage]
  /\ seen' = [seen EXCEPT ![r] = {}]
  /\ UNCHANGED <<disk, holds, pc, pkg, victims, crashes>>

\* It fits, or nothing more can go.
Weighed(r) ==
  /\ At(r, {"weighing", "weighingAgain"}) /\ doomed[r] = NoPackage
  /\ victims' = [victims EXCEPT ![r] = {}]
  /\ Goto(r, IF pc[r] = "weighing" THEN "preparing" ELSE "judging")
  /\ UNCHANGED <<disk, holds, pkg, doomed, seen, crashes>>

-----------------------------------------------------------------------------
(* A process killed, and the sweep at its next start                       *)

Crash(r) ==
  /\ ~At(r, {"down"}) /\ crashes > 0
  /\ crashes' = crashes - 1
  /\ Goto(r, "down")
  /\ pkg' = [pkg EXCEPT ![r] = NoPackage]
  /\ NoEviction(r)
  /\ UNCHANGED <<disk, holds>>

\* sweep: this Runner's own markers, and its own unfinished work where nobody
\* holds the entry.
Sweep(r) ==
  /\ At(r, {"down"})
  /\ Goto(r, "idle")
  /\ marker' = [p \in Packages |-> marker[p] \ {r}]
  /\ holdingDir' = [p \in Packages |-> holdingDir[p] /\ marker'[p] # {}]
  /\ partial' = [p \in Packages |->
       IF marker'[p] = {} THEN [partial[p] EXCEPT ![PartialFor(r)] = {}] ELSE partial[p]]
  /\ UNCHANGED <<file, tree, manifest, pkg, evicting, crashes>>

-----------------------------------------------------------------------------
Next ==
  \E r \in Runners :
    \/ \E p \in Packages : Begin(r, p) \/ Ask(r, p)
    \/ Mark(r) \/ Unmark(r) \/ Close(r)
    \/ Look(r) \/ Download(r) \/ DownloadFails(r) \/ Land(r)
    \/ Prepare(r) \/ Judge(r)
    \/ Weigh(r) \/ RemovePart(r) \/ Removed(r) \/ Weighed(r)
    \/ Crash(r) \/ Sweep(r)

Spec == Init /\ [][Next]_vars

-----------------------------------------------------------------------------
(* Properties                                                              *)

\* Two Runners that miss the same package both fetch it, and neither ever
\* publishes a file the other was writing in too (cache.rs, partial_for).
FileIsWhole == \A p \in Packages : file[p] # "mixed"

\* A marker says that somebody is reading: the Runner it names holds the
\* package, is letting go of it, or died with it and will clear it when it
\* starts.  Anything else is an entry nobody can evict (cache.rs, sweep).
NoStaleMarker ==
  \A p \in Packages : \A r \in marker[p] : At(r, {"down"}) \/ pkg[r] = p

\* The archive a Runner is reading, and has a marker for, is never evicted by
\* that Runner, and by no other that could have seen the marker: whoever is
\* removing it when it goes had asked before the marker was there.  (A marker that
\* could not be written, because the directory went in between, holds nothing and
\* is not noticed.  cache.rs, hold and evict_to_fit.)
ReadingIsNeverEvicted ==
  [][\A r \in Runners :
       /\ At(r, {"weighing", "preparing", "weighingAgain", "judging"})
       /\ r \in marker[pkg[r]]
       /\ file[pkg[r]] # "absent" /\ file'[pkg[r]] = "absent"
       => /\ \E s \in Runners \ {r} : doomed[s] = pkg[r]
          /\ \A s \in Runners : doomed[s] = pkg[r] => r \notin seen[s]]_vars
=============================================================================
