-------------------------- MODULE PackageCache_proofs --------------------------
(***************************************************************************)
(* What the files of a shared cache promise for any number of Runners,     *)
(* packages and crashes.                                                   *)
(***************************************************************************)
EXTENDS PackageCache, TLAPS

\* An unfinished download is its own Runner's and nobody else's.
OwnPartials == \A p \in Packages, n \in Runners : partial[p][n] \subseteq {n}

\* A Runner that holds nothing, or has let go, has no marker there.
MarkersLetGo ==
  \A r \in Runners, p \in Packages :
    /\ pc[r] = "idle" => r \notin marker[p]
    /\ pc[r] = "closing" => r \notin marker[p]

CInv == TypeOK /\ OwnPartials /\ FileIsWhole /\ NoStaleMarker /\ MarkersLetGo

-----------------------------------------------------------------------------
LEMMA LeaveTypes ==
  ASSUME TypeOK, NEW r \in Runners, Leave(r), ~At(r, {"idle", "down"}), UNCHANGED <<file, tree, manifest>>,
         partial' \in [Packages -> [Runners -> SUBSET Runners]]
  PROVE  TypeOK'
  BY CacheAssumption DEF TypeOK, Leave, NoEviction, Goto, At, Places, holds

\* One step of one Runner.
StepOf(r) ==
  \/ \E p \in Packages : Begin(r, p) \/ Ask(r, p)
  \/ Mark(r) \/ Unmark(r) \/ Close(r)
  \/ Look(r) \/ Download(r) \/ DownloadFails(r) \/ Land(r)
  \/ Prepare(r) \/ Judge(r)
  \/ Weigh(r) \/ RemovePart(r) \/ Removed(r) \/ Weighed(r)
  \/ Crash(r) \/ Sweep(r)

\* A change of one unfinished download.
Changes(p, n, S) == partial' = [partial EXCEPT ![p][n] = S]

LEMMA ChangeKeeps ==
  ASSUME CInv, NEW p \in Packages, NEW n \in Runners, NEW S \in SUBSET {n}, Changes(p, n, S)
  PROVE  partial' \in [Packages -> [Runners -> SUBSET Runners]] /\ OwnPartials'
<1>1. partial \in [Packages -> [Runners -> SUBSET Runners]] /\ S \in SUBSET Runners
  BY DEF CInv, TypeOK
<1>2. /\ partial' \in [Packages -> [Runners -> SUBSET Runners]]
      /\ \A q \in Packages, m \in Runners :
           partial'[q][m] = IF q = p /\ m = n THEN S ELSE partial[q][m]
  BY <1>1 DEF Changes
<1>3. QED
  BY <1>2 DEF CInv, OwnPartials

\* Every step keeps downloads apart.
LEMMA StepPartials ==
  ASSUME CInv, NEW r \in Runners, StepOf(r)
  PROVE  partial' \in [Packages -> [Runners -> SUBSET Runners]] /\ OwnPartials'
<1> USE CacheAssumption
<1>1. CASE \E p \in Packages : Begin(r, p)
  BY <1>1 DEF Begin, Idle, evicting, CInv, OwnPartials, TypeOK, disk
<1>2. CASE \E p \in Packages : Ask(r, p)
  BY <1>2 DEF Ask, CInv, OwnPartials, TypeOK, disk
<1>3. CASE Mark(r)
  BY <1>3 DEF Mark, Idle, evicting, CInv, OwnPartials, TypeOK, disk
<1>4. CASE Unmark(r)
  BY <1>4 DEF Unmark, Idle, evicting, CInv, OwnPartials, TypeOK, disk
<1>5. CASE Close(r)
  BY <1>5 DEF Close, Idle, evicting, CInv, OwnPartials, TypeOK, disk
<1>6. CASE Look(r)
  BY <1>6 DEF Look, Idle, evicting, CInv, OwnPartials, TypeOK, disk
<1>7. CASE Download(r)
  <2>1. pkg[r] \in Packages
    BY <1>7 DEF Download, At, CInv, TypeOK
  <2>2. Changes(pkg[r], r, partial[pkg[r]][r] \cup {r})
    BY <1>7 DEF Download, PartialFor, Changes
  <2>3. partial[pkg[r]][r] \cup {r} \in SUBSET {r}
    BY <2>1 DEF CInv, OwnPartials
  <2>4. QED
    BY <2>1, <2>2, <2>3, ChangeKeeps
<1>8. CASE DownloadFails(r)
  <2>1. pkg[r] \in Packages
    BY <1>8 DEF DownloadFails, At, CInv, TypeOK
  <2>2. UNCHANGED partial \/ Changes(pkg[r], r, {})
    BY <1>8 DEF DownloadFails, PartialFor, Changes, disk
  <2>3. QED
    BY <2>1, <2>2, ChangeKeeps DEF CInv, TypeOK, OwnPartials
<1>9. CASE Land(r)
  <2>1. pkg[r] \in Packages
    BY <1>9 DEF Land, At, CInv, TypeOK
  <2>2. UNCHANGED partial \/ Changes(pkg[r], r, {})
    BY <1>9 DEF Land, PartialFor, Changes, disk
  <2>3. QED
    BY <2>1, <2>2, ChangeKeeps DEF CInv, TypeOK, OwnPartials
<1>10. CASE Prepare(r)
  BY <1>10 DEF Prepare, Leave, NoEviction, Idle, evicting, CInv, OwnPartials, TypeOK, disk
<1>11. CASE Judge(r)
  BY <1>11 DEF Judge, Leave, NoEviction, CInv, OwnPartials, TypeOK, disk
<1>12. CASE Weigh(r)
  BY <1>12 DEF Weigh, CInv, OwnPartials, TypeOK, disk
<1>13. CASE RemovePart(r)
  <2>1. doomed[r] \in Packages
    BY <1>13 DEF RemovePart, evicting, CInv, TypeOK
  <2>2. UNCHANGED partial \/ \E n \in Runners : Changes(doomed[r], n, {})
    BY <1>13 DEF RemovePart, evicting, Changes
  <2>3. QED
    BY <2>1, <2>2, ChangeKeeps DEF CInv, TypeOK, OwnPartials
<1>14. CASE Removed(r)
  BY <1>14 DEF Removed, CInv, OwnPartials, TypeOK, disk
<1>15. CASE Weighed(r)
  BY <1>15 DEF Weighed, CInv, OwnPartials, TypeOK, disk
<1>16. CASE Crash(r)
  BY <1>16 DEF Crash, NoEviction, CInv, OwnPartials, TypeOK, disk
<1>17. CASE Sweep(r)
  BY <1>17 DEF Sweep, evicting, PartialFor, CInv, OwnPartials, TypeOK, disk
<1>18. QED
  BY <1>1, <1>2, <1>3, <1>4, <1>5, <1>6, <1>7, <1>8, <1>9, <1>10, <1>11,
     <1>12, <1>13, <1>14, <1>15, <1>16, <1>17 DEF StepOf

\* Every step keeps the types.
LEMMA StepTypes ==
  ASSUME CInv, NEW r \in Runners, StepOf(r)
  PROVE  TypeOK'
<1> USE CacheAssumption
<1>1. CASE \E p \in Packages : Begin(r, p)
  BY <1>1 DEF Begin, Idle, evicting, CInv, TypeOK, Places, Holding, At, Goto, disk,
     holds
<1>2. CASE \E p \in Packages : Ask(r, p)
  <2>1. PICK p \in Packages : Ask(r, p)
    BY <1>2
  <2>2. /\ victims' \in [Runners -> SUBSET Packages]
        /\ doomed' \in [Runners -> Packages \cup {NoPackage}]
    BY <2>1 DEF Ask, CInv, TypeOK
  <2>3. seen' \in [Runners -> SUBSET Runners]
    <3>1. UNCHANGED seen \/ seen' = [seen EXCEPT ![r] = marker[p]]
      BY <2>1 DEF Ask
    <3>2. marker[p] \in SUBSET Runners /\ seen \in [Runners -> SUBSET Runners]
      BY DEF CInv, TypeOK
    <3>3. QED
      BY ONLY <3>1, <3>2
  <2>4. UNCHANGED <<disk, holds, pc, pkg, crashes>>
    BY <2>1 DEF Ask
  <2>5. QED
    BY <2>2, <2>3, <2>4 DEF CInv, TypeOK, disk, holds
<1>3. CASE Mark(r)
  BY <1>3 DEF Mark, Idle, evicting, CInv, TypeOK, Places, Holding, At, Goto, disk, holds
<1>4. CASE Unmark(r)
  BY <1>4 DEF Unmark, Idle, evicting, CInv, TypeOK, Places, Holding, At, Goto, disk,
     holds
<1>5. CASE Close(r)
  BY <1>5 DEF Close, Idle, evicting, CInv, TypeOK, Places, Holding, At, Goto, disk,
     holds
<1>6. CASE Look(r)
  BY <1>6 DEF Look, Idle, evicting, CInv, TypeOK, Places, Holding, At, Goto, disk, holds
<1>7. CASE Download(r)
  <2>1. /\ At(r, {"downloading"}) /\ Goto(r, "landing") /\ Idle
        /\ UNCHANGED <<file, tree, manifest, holds, pkg>>
    BY <1>7 DEF Download
  <2>2. QED
    BY <2>1, StepPartials DEF CInv, TypeOK, Idle, evicting, Goto, At, Places, holds
<1>8. CASE DownloadFails(r)
  <2>1. /\ Leave(r)
        /\ ~At(r, {"idle", "down"}) /\ UNCHANGED <<file, tree, manifest>>
    BY <1>8 DEF DownloadFails, At, disk
  <2>2. QED
    BY <2>1, StepPartials, LeaveTypes DEF CInv
<1>9. CASE Land(r)
  <2>1. CASE Leave(r) /\ UNCHANGED disk
    BY <1>9, <2>1, StepPartials, LeaveTypes DEF Land, CInv, At, disk
  <2>2. CASE /\ Goto(r, "weighing") /\ Idle
             /\ UNCHANGED <<tree, manifest, holds, pkg>>
             /\ \E f \in {"whole", "mixed"} : file' = [file EXCEPT ![pkg[r]] = f]
    <3>1. At(r, {"landing"})
      BY <1>9 DEF Land
    <3>2. file' \in [Packages -> {"absent", "whole", "mixed"}]
      <4>1. PICK f \in {"whole", "mixed"} : file' = [file EXCEPT ![pkg[r]] = f]
        BY <2>2
      <4>2. QED
        BY <4>1 DEF CInv, TypeOK
    <3>3. UNCHANGED <<tree, manifest, holds, pkg>> /\ Goto(r, "weighing") /\ Idle
      BY <2>2
    <3>4. QED
      BY <3>1, <3>2, <3>3, StepPartials
      DEF CInv, TypeOK, Idle, evicting, Goto, At, Places, holds
  <2>3. QED
    BY <1>9, <2>1, <2>2 DEF Land
<1>10. CASE Prepare(r)
  <2>1. CASE Leave(r) /\ UNCHANGED disk
    BY <1>10, <2>1, StepPartials, LeaveTypes DEF Prepare, CInv, At, disk
  <2>2. CASE /\ Goto(r, "weighingAgain")
             /\ UNCHANGED <<file, partial, holds, pkg>> /\ Idle
             /\ \/ UNCHANGED <<tree, manifest>>
                \/ /\ tree' = [tree EXCEPT ![pkg[r]] = "whole"]
                   /\ manifest' = [manifest EXCEPT ![pkg[r]] = TRUE]
    <3>1. /\ tree' \in [Packages -> {"absent", "whole", "torn"}]
          /\ manifest' \in [Packages -> BOOLEAN]
      <4>1. /\ tree \in [Packages -> {"absent", "whole", "torn"}]
            /\ manifest \in [Packages -> BOOLEAN]
        BY DEF CInv, TypeOK
      <4>2. CASE UNCHANGED <<tree, manifest>>
        BY ONLY <4>1, <4>2
      <4>3. CASE /\ tree' = [tree EXCEPT ![pkg[r]] = "whole"]
                 /\ manifest' = [manifest EXCEPT ![pkg[r]] = TRUE]
        BY ONLY <4>1, <4>3
      <4>4. QED
        BY ONLY <2>2, <4>2, <4>3
    <3>2. pc' \in [Runners -> Places]
      BY <2>2 DEF CInv, TypeOK, Goto, Places
    <3>3. pkg' = pkg /\ \A n \in Runners : pc'[n] = pc[n] \/ n = r
      BY <2>2 DEF CInv, TypeOK, Goto
    <3>4. pc[r] = "preparing" /\ pc'[r] = "weighingAgain"
      BY <1>10, <2>2 DEF Prepare, At, CInv, TypeOK, Goto
    <3>5. \A n \in Runners : pkg'[n] = NoPackage <=> pc'[n] \in {"idle", "down"}
      BY <3>3, <3>4 DEF CInv, TypeOK
    <3>6. QED
      BY <2>2, <3>1, <3>2, <3>5, StepPartials DEF CInv, TypeOK, Idle, evicting, holds
  <2>3. QED
    BY <1>10, <2>1, <2>2 DEF Prepare, disk
<1>11. CASE Judge(r)
  BY <1>11 DEF Judge, Leave, NoEviction, CInv, TypeOK, Places, Holding, At, Goto, disk,
     holds
<1>12. CASE Weigh(r)
  BY <1>12 DEF Weigh, CInv, TypeOK, Places, Holding, At, Goto, disk, holds
<1>13. CASE RemovePart(r)
  <2>1. doomed[r] \in Packages
    BY <1>13 DEF RemovePart, evicting, CInv, TypeOK
  <2>2. file' \in [Packages -> {"absent", "whole", "mixed"}]
    BY <1>13, <2>1 DEF RemovePart, evicting, CInv, TypeOK
  <2>3. tree' \in [Packages -> {"absent", "whole", "torn"}]
    BY <1>13, <2>1 DEF RemovePart, evicting, CInv, TypeOK
  <2>4. manifest' \in [Packages -> BOOLEAN]
    BY <1>13, <2>1 DEF RemovePart, evicting, CInv, TypeOK
  <2>5. UNCHANGED <<holds, pc, pkg, evicting, crashes>>
    BY <1>13 DEF RemovePart, evicting
  <2>6. QED
    BY <2>2, <2>3, <2>4, <2>5, StepPartials DEF CInv, TypeOK, holds, evicting
<1>14. CASE Removed(r)
  BY <1>14 DEF Removed, CInv, TypeOK, Places, Holding, At, Goto, disk, holds
<1>15. CASE Weighed(r)
  BY <1>15 DEF Weighed, CInv, TypeOK, Places, Holding, At, Goto, disk, holds
<1>16. CASE Crash(r)
  BY <1>16 DEF Crash, NoEviction, CInv, TypeOK, Places, Holding, At, Goto, disk, holds
<1>17. CASE Sweep(r)
  BY <1>17 DEF Sweep, evicting, PartialFor, CInv, TypeOK, Places, Holding, At, Goto,
     disk, holds
<1>18. QED
  BY <1>1, <1>2, <1>3, <1>4, <1>5, <1>6, <1>7, <1>8, <1>9, <1>10, <1>11,
     <1>12, <1>13, <1>14, <1>15, <1>16, <1>17 DEF StepOf

\* Every step keeps what was published whole.
LEMMA StepFiles ==
  ASSUME CInv, NEW r \in Runners, StepOf(r)
  PROVE  FileIsWhole'
<1> USE CacheAssumption
<1>1. CASE \E p \in Packages : Begin(r, p)
  BY <1>1 DEF Begin, Idle, evicting, CInv, FileIsWhole, TypeOK, disk
<1>2. CASE \E p \in Packages : Ask(r, p)
  BY <1>2 DEF Ask, CInv, FileIsWhole, TypeOK, disk
<1>3. CASE Mark(r)
  BY <1>3 DEF Mark, Idle, evicting, CInv, FileIsWhole, TypeOK, disk
<1>4. CASE Unmark(r)
  BY <1>4 DEF Unmark, Idle, evicting, CInv, FileIsWhole, TypeOK, disk
<1>5. CASE Close(r)
  BY <1>5 DEF Close, Idle, evicting, CInv, FileIsWhole, TypeOK, disk
<1>6. CASE Look(r)
  BY <1>6 DEF Look, Idle, evicting, CInv, FileIsWhole, TypeOK, disk
<1>7. CASE Download(r)
  BY <1>7 DEF Download, PartialFor, Idle, evicting, CInv, FileIsWhole, TypeOK, disk
<1>8. CASE DownloadFails(r)
  BY <1>8 DEF DownloadFails, PartialFor, Leave, NoEviction, CInv, FileIsWhole, TypeOK,
     disk
<1>9. CASE Land(r)
  <2>0. pkg[r] \in Packages
    <3>1. pc[r] = "landing"
      BY <1>9 DEF Land, At
    <3>2. QED
      BY <3>1 DEF CInv, TypeOK
  <2>1. partial[pkg[r]][r] \subseteq {r}
    BY <2>0 DEF CInv, OwnPartials
  <2>2. UNCHANGED file \/ file' = [file EXCEPT ![pkg[r]] = "whole"]
    BY <1>9, <2>1 DEF Land, PartialFor, disk
  <2>3. QED
    BY <2>2 DEF CInv, FileIsWhole, TypeOK
<1>10. CASE Prepare(r)
  BY <1>10 DEF Prepare, Leave, NoEviction, Idle, evicting, CInv, FileIsWhole, TypeOK, disk
<1>11. CASE Judge(r)
  BY <1>11 DEF Judge, Leave, NoEviction, CInv, FileIsWhole, TypeOK, disk
<1>12. CASE Weigh(r)
  BY <1>12 DEF Weigh, CInv, FileIsWhole, TypeOK, disk
<1>13. CASE RemovePart(r)
  BY <1>13 DEF RemovePart, evicting, CInv, FileIsWhole, TypeOK, disk
<1>14. CASE Removed(r)
  BY <1>14 DEF Removed, CInv, FileIsWhole, TypeOK, disk
<1>15. CASE Weighed(r)
  BY <1>15 DEF Weighed, CInv, FileIsWhole, TypeOK, disk
<1>16. CASE Crash(r)
  BY <1>16 DEF Crash, NoEviction, CInv, FileIsWhole, TypeOK, disk
<1>17. CASE Sweep(r)
  BY <1>17 DEF Sweep, evicting, PartialFor, CInv, FileIsWhole, TypeOK, disk
<1>18. QED
  BY <1>1, <1>2, <1>3, <1>4, <1>5, <1>6, <1>7, <1>8, <1>9, <1>10, <1>11,
     <1>12, <1>13, <1>14, <1>15, <1>16, <1>17 DEF StepOf

\* Every step keeps markers where somebody is.
LEMMA StepMarkers ==
  ASSUME CInv, NEW r \in Runners, StepOf(r)
  PROVE  NoStaleMarker' /\ MarkersLetGo'
<1> USE CacheAssumption
<1>1. CASE \E p \in Packages : Begin(r, p)
  BY <1>1 DEF Begin, Idle, evicting, CInv, NoStaleMarker, MarkersLetGo, TypeOK, At,
     Goto, disk, holds
<1>2. CASE \E p \in Packages : Ask(r, p)
  BY <1>2 DEF Ask, CInv, NoStaleMarker, MarkersLetGo, TypeOK, At, Goto, disk,
     holds
<1>3. CASE Mark(r)
  BY <1>3 DEF Mark, Idle, evicting, CInv, NoStaleMarker, MarkersLetGo, TypeOK, At, Goto,
     disk, holds
<1>4. CASE Unmark(r)
  BY <1>4 DEF Unmark, Idle, evicting, CInv, NoStaleMarker, MarkersLetGo, TypeOK, At,
     Goto, disk, holds
<1>5. CASE Close(r)
  BY <1>5 DEF Close, Idle, evicting, CInv, NoStaleMarker, MarkersLetGo, TypeOK, At,
     Goto, disk, holds
<1>6. CASE Look(r)
  BY <1>6 DEF Look, Idle, evicting, CInv, NoStaleMarker, MarkersLetGo, TypeOK, At, Goto,
     disk, holds
<1>7. CASE Download(r)
  BY <1>7 DEF Download, PartialFor, Idle, evicting, CInv, NoStaleMarker, MarkersLetGo,
     TypeOK, At, Goto, disk, holds
<1>8. CASE DownloadFails(r)
  BY <1>8 DEF DownloadFails, PartialFor, Leave, NoEviction, CInv, NoStaleMarker,
     MarkersLetGo, TypeOK, At, Goto, disk, holds
<1>9. CASE Land(r)
  BY <1>9 DEF Land, PartialFor, Leave, NoEviction, Idle, evicting, CInv, NoStaleMarker,
     MarkersLetGo, TypeOK, At, Goto, disk, holds
<1>10. CASE Prepare(r)
  BY <1>10 DEF Prepare, Leave, NoEviction, Idle, evicting, CInv, NoStaleMarker, MarkersLetGo,
     TypeOK, At, Goto, disk, holds
<1>11. CASE Judge(r)
  BY <1>11 DEF Judge, Leave, NoEviction, CInv, NoStaleMarker, MarkersLetGo, TypeOK, At,
     Goto, disk, holds
<1>12. CASE Weigh(r)
  BY <1>12 DEF Weigh, CInv, NoStaleMarker, MarkersLetGo, TypeOK, At, Goto,
     disk, holds
<1>13. CASE RemovePart(r)
  BY <1>13 DEF RemovePart, evicting, CInv, NoStaleMarker, MarkersLetGo, TypeOK, At,
     Goto, disk, holds
<1>14. CASE Removed(r)
  BY <1>14 DEF Removed, CInv, NoStaleMarker, MarkersLetGo, TypeOK, At, Goto,
     disk, holds
<1>15. CASE Weighed(r)
  BY <1>15 DEF Weighed, CInv, NoStaleMarker, MarkersLetGo, TypeOK, At, Goto,
     disk, holds
<1>16. CASE Crash(r)
  BY <1>16 DEF Crash, NoEviction, CInv, NoStaleMarker, MarkersLetGo, TypeOK, At, Goto,
     disk, holds
<1>17. CASE Sweep(r)
  BY <1>17 DEF Sweep, evicting, PartialFor, CInv, NoStaleMarker, MarkersLetGo, TypeOK,
     At, Goto, disk, holds
<1>18. QED
  BY <1>1, <1>2, <1>3, <1>4, <1>5, <1>6, <1>7, <1>8, <1>9, <1>10, <1>11,
     <1>12, <1>13, <1>14, <1>15, <1>16, <1>17 DEF StepOf

LEMMA InitCache == Init => CInv
  BY CacheAssumption DEF Init, CInv, TypeOK, OwnPartials, FileIsWhole,
     NoStaleMarker,
     MarkersLetGo, Places

LEMMA StepCache == CInv /\ [Next]_vars => CInv'
<1>1. ASSUME CInv, UNCHANGED vars PROVE CInv'
  BY <1>1 DEF vars, evicting, disk, holds, CInv, TypeOK, OwnPartials, FileIsWhole,
     NoStaleMarker,
     MarkersLetGo, At
<1>2. ASSUME CInv, NEW r \in Runners, StepOf(r) PROVE CInv'
  BY <1>2, StepPartials, StepTypes, StepFiles, StepMarkers DEF CInv
<1>3. QED
  BY <1>1, <1>2 DEF Next, StepOf

\* However many Runners miss one package at once, what they publish is one of
\* the downloads and never two of them interleaved (cache.rs, partial_for).
THEOREM FilesAreWhole == Spec => []FileIsWhole
<1>1. CInv => FileIsWhole
  BY DEF CInv
<1>2. QED
  BY InitCache, StepCache, <1>1, PTL DEF Spec

\* No marker outlives its Runner's hold except across a crash, and then no
\* longer than the sweep at its next start (cache.rs, release and sweep).
THEOREM MarkersAreCleared == Spec => []NoStaleMarker
<1>1. CInv => NoStaleMarker
  BY DEF CInv
<1>2. QED
  BY InitCache, StepCache, <1>1, PTL DEF Spec

-----------------------------------------------------------------------------
(* What a Runner that reads may lose.                                      *)

Weighing == {"weighing", "weighingAgain"}
Reading == {"weighing", "preparing", "weighingAgain", "judging"}

\* Only a Runner that weighs the cache has chosen anything to evict.
ChosenWhileWeighing ==
  \A r \in Runners : ~At(r, Weighing) => victims[r] = {} /\ doomed[r] = NoPackage

\* Nobody evicts an entry while their own marker is in it.
OwnIsKept ==
  \A r \in Runners : pkg[r] # NoPackage /\ r \in marker[pkg[r]] => doomed[r] # pkg[r]

\* Nobody removes an entry after an answer with a marker in it.
SeenNobody == \A r \in Runners : doomed[r] # NoPackage => seen[r] = {}

EInv == CInv /\ ChosenWhileWeighing /\ OwnIsKept /\ SeenNobody

LEMMA StepChosen ==
  ASSUME CInv, ChosenWhileWeighing, NEW r \in Runners, StepOf(r)
  PROVE  ChosenWhileWeighing'
<1> USE DEF Weighing, At, CInv, TypeOK, ChosenWhileWeighing
<1>1. CASE \E p \in Packages : Begin(r, p)
  BY <1>1 DEF Begin, Idle, evicting, Goto
<1>2. CASE \E p \in Packages : Ask(r, p)
  BY <1>2 DEF Ask
<1>3. CASE Mark(r)
  BY <1>3 DEF Mark, Idle, evicting, Goto
<1>4. CASE Unmark(r)
  BY <1>4 DEF Unmark, Idle, evicting, Goto
<1>5. CASE Close(r)
  BY <1>5 DEF Close, Idle, evicting, Goto
<1>6. CASE Look(r)
  BY <1>6 DEF Look, Idle, evicting, Goto
<1>7. CASE Download(r)
  BY <1>7 DEF Download, Idle, evicting, Goto
<1>8. CASE DownloadFails(r)
  <2>1. /\ victims' = [victims EXCEPT ![r] = {}]
        /\ doomed' = [doomed EXCEPT ![r] = NoPackage]
        /\ pc' = [pc EXCEPT ![r] = "unmarking"]
    BY <1>8 DEF DownloadFails, Leave, NoEviction, Goto
  <2>2. QED
    BY <2>1
<1>9. CASE Land(r)
  <2>1. CASE /\ victims' = [victims EXCEPT ![r] = {}]
             /\ doomed' = [doomed EXCEPT ![r] = NoPackage]
             /\ pc' = [pc EXCEPT ![r] = "unmarking"]
    BY <2>1
  <2>2. CASE UNCHANGED <<victims, doomed>> /\ pc' = [pc EXCEPT ![r] = "weighing"]
    BY <2>2
  <2>3. QED
    BY <1>9, <2>1, <2>2 DEF Land, Leave, NoEviction, Idle, evicting, Goto
<1>10. CASE Prepare(r)
  <2>1. CASE /\ victims' = [victims EXCEPT ![r] = {}]
             /\ doomed' = [doomed EXCEPT ![r] = NoPackage]
             /\ pc' = [pc EXCEPT ![r] = "unmarking"]
    BY <2>1
  <2>2. CASE UNCHANGED <<victims, doomed>> /\ pc' = [pc EXCEPT ![r] = "weighingAgain"]
    BY <2>2
  <2>3. QED
    BY <1>10, <2>1, <2>2 DEF Prepare, Leave, NoEviction, Idle, evicting, Goto
<1>11. CASE Judge(r)
  BY <1>11 DEF Judge, Leave, NoEviction, Goto
<1>12. CASE Weigh(r)
  BY <1>12 DEF Weigh
<1>13. CASE RemovePart(r)
  BY <1>13 DEF RemovePart, evicting
<1>14. CASE Removed(r)
  BY <1>14 DEF Removed
<1>15. CASE Weighed(r)
  BY <1>15 DEF Weighed, Goto
<1>16. CASE Crash(r)
  BY <1>16 DEF Crash, NoEviction, Goto
<1>17. CASE Sweep(r)
  BY <1>17 DEF Sweep, evicting, Goto
<1>18. QED
  BY <1>1, <1>2, <1>3, <1>4, <1>5, <1>6, <1>7, <1>8, <1>9,
     <1>10, <1>11, <1>12, <1>13, <1>14, <1>15, <1>16, <1>17 DEF StepOf

\* Marking adds nobody's marker but one's own, and to one's own package.
LEMMA MarkAddsOwn ==
  ASSUME TypeOK, NEW r \in Runners, Mark(r), pkg[r] \in Packages
  PROVE  \A p \in Packages, s \in Runners :
           s \in marker'[p] => s \in marker[p] \/ (s = r /\ p = pkg[r])
<1>1. marker \in [Packages -> SUBSET Runners]
  BY DEF TypeOK
<1>2. PICK m \in {marker[pkg[r]], marker[pkg[r]] \cup {r}} :
        marker' = [marker EXCEPT ![pkg[r]] = m]
  BY DEF Mark
<1>3. QED
  BY <1>1, <1>2

\* A Runner asks before it dooms, and its own marker answers; and it marks
\* nothing while it has something doomed.
LEMMA StepOwn ==
  ASSUME CInv, ChosenWhileWeighing, OwnIsKept, NEW r \in Runners, StepOf(r)
  PROVE  OwnIsKept'
<1> USE CacheAssumption DEF CInv, TypeOK, OwnIsKept
<1>1. CASE \E p \in Packages : Begin(r, p)
  BY <1>1 DEF Begin, Idle, evicting, ChosenWhileWeighing, Weighing, At
<1>2. CASE \E p \in Packages : Ask(r, p)
  BY <1>2 DEF Ask, HeldByAnybody, holds
<1>3. CASE Mark(r)
  <2>1. pkg[r] \in Packages /\ doomed[r] # pkg[r]
    BY <1>3 DEF Mark, ChosenWhileWeighing, Weighing, At
  <2>2. UNCHANGED <<pkg, doomed>>
    BY <1>3 DEF Mark, Idle, evicting
  <2>3. \A p \in Packages, s \in Runners :
          s \in marker'[p] => s \in marker[p] \/ (s = r /\ p = pkg[r])
    BY <1>3, <2>1, MarkAddsOwn
  <2>4. QED
    BY <2>1, <2>2, <2>3
<1>4. CASE Unmark(r)
  BY <1>4 DEF Unmark, Idle, evicting
<1>5. CASE Close(r)
  BY <1>5 DEF Close, Idle, evicting
<1>6. CASE Look(r)
  BY <1>6 DEF Look, Idle, evicting, holds
<1>7. CASE Download(r)
  BY <1>7 DEF Download, Idle, evicting, holds
<1>8. CASE DownloadFails(r)
  BY <1>8 DEF DownloadFails, Leave, NoEviction, holds
<1>9. CASE Land(r)
  BY <1>9 DEF Land, Leave, NoEviction, Idle, evicting, holds
<1>10. CASE Prepare(r)
  BY <1>10 DEF Prepare, Leave, NoEviction, Idle, evicting, holds
<1>11. CASE Judge(r)
  BY <1>11 DEF Judge, Leave, NoEviction, holds
<1>12. CASE Weigh(r)
  BY <1>12 DEF Weigh, holds
<1>13. CASE RemovePart(r)
  BY <1>13 DEF RemovePart, evicting, holds
<1>14. CASE Removed(r)
  BY <1>14 DEF Removed, holds
<1>15. CASE Weighed(r)
  BY <1>15 DEF Weighed, holds
<1>16. CASE Crash(r)
  BY <1>16 DEF Crash, NoEviction, holds
<1>17. CASE Sweep(r)
  BY <1>17 DEF Sweep, evicting
<1>18. QED
  BY <1>1, <1>2, <1>3, <1>4, <1>5, <1>6, <1>7, <1>8, <1>9,
     <1>10, <1>11, <1>12, <1>13, <1>14, <1>15, <1>16, <1>17 DEF StepOf

\* What was seen is noted as the entry is doomed, and forgotten with it.
LEMMA StepSeen ==
  ASSUME CInv, SeenNobody, NEW r \in Runners, StepOf(r)
  PROVE  SeenNobody'
<1>1. CASE \E p \in Packages : Ask(r, p)
  <2>1. PICK p \in Packages : Ask(r, p)
    BY <1>1
  <2>2. \/ UNCHANGED <<doomed, seen>>
        \/ /\ doomed' = [doomed EXCEPT ![r] = p]
           /\ seen' = [seen EXCEPT ![r] = {}]
    BY <2>1 DEF Ask, HeldByAnybody
  <2>3. doomed \in [Runners -> Packages \cup {NoPackage}] /\ seen \in [Runners -> SUBSET Runners]
    BY DEF CInv, TypeOK
  <2>4. QED
    BY <2>2, <2>3 DEF SeenNobody
<1>2. CASE Weigh(r) \/ Removed(r) \/ Weighed(r)
  BY <1>2 DEF Weigh, Removed, Weighed, CInv, TypeOK, SeenNobody
<1>3. CASE NoEviction(r)
  BY <1>3 DEF NoEviction, CInv, TypeOK, SeenNobody
<1>4. CASE UNCHANGED evicting
  BY <1>4 DEF evicting, SeenNobody
<1>5. QED
  BY <1>1, <1>2, <1>3, <1>4
     DEF StepOf, Begin, Mark, Unmark, Close, Look, Download, DownloadFails, Land,
         Prepare, Judge, RemovePart, Crash, Sweep, Leave, Idle

LEMMA StepEInv == EInv /\ [Next]_vars => EInv'
<1>1. ASSUME EInv, UNCHANGED vars PROVE EInv'
  <2>1. CInv'
    BY <1>1, StepCache DEF EInv
  <2>2. QED
    BY <1>1, <2>1 DEF EInv, ChosenWhileWeighing, OwnIsKept, SeenNobody, At, vars, holds, evicting
<1>2. ASSUME EInv, NEW r \in Runners, StepOf(r) PROVE EInv'
  <2>1. CInv'
    BY <1>2, StepPartials, StepTypes, StepFiles, StepMarkers DEF CInv, EInv
  <2>2. QED
    BY <1>2, <2>1, StepChosen, StepOwn, StepSeen DEF EInv
<1>3. QED
  BY <1>1, <1>2 DEF Next, StepOf

\* An archive that is there and then is not was removed by who doomed it.
LEMMA RemovedByEviction ==
  ASSUME EInv, NEW s \in Runners, StepOf(s), NEW p \in Packages,
         file[p] # "absent", file'[p] = "absent"
  PROVE  doomed[s] = p
<1>1. file \in [Packages -> {"absent", "whole", "mixed"}]
  BY DEF EInv, CInv, TypeOK
<1>2. CASE RemovePart(s)
  <2>1. UNCHANGED file \/ file' = [file EXCEPT ![doomed[s]] = "absent"]
    BY <1>2 DEF RemovePart, evicting
  <2>2. QED
    BY <1>1, <2>1
<1>3. CASE Land(s)
  <2>1. UNCHANGED file \/ \E f \in {"whole", "mixed"} : file' = [file EXCEPT ![pkg[s]] = f]
    BY <1>3 DEF Land, disk
  <2>2. QED
    BY <1>1, <2>1
<1>4. CASE ~RemovePart(s) /\ ~Land(s)
  <2>1. UNCHANGED file
    BY <1>4 DEF StepOf, Begin, Ask, Mark, Unmark, Close, Look, Download, DownloadFails,
       Prepare, Judge, Weigh, Removed, Weighed, Crash, NoEviction, Sweep, disk
  <2>2. QED
    BY <2>1
<1>5. QED
  BY <1>2, <1>3, <1>4

\* However many Runners and evictions, a Runner loses the archive it reads and
\* has marked to another, and whoever is removing it had asked before the marker
\* was there (cache.rs, hold and evict_to_fit).
THEOREM ReadersKeepTheirs == Spec => ReadingIsNeverEvicted
<1> DEFINE Lost(r) ==
             /\ At(r, Reading) /\ r \in marker[pkg[r]]
             /\ file[pkg[r]] # "absent" /\ file'[pkg[r]] = "absent"
<1>1. Init => EInv
  BY InitCache, CacheAssumption
     DEF Init, EInv, ChosenWhileWeighing, OwnIsKept, SeenNobody
<1>2. ASSUME EInv, [Next]_vars, NEW r \in Runners, Lost(r)
      PROVE  /\ \E s \in Runners \ {r} : doomed[s] = pkg[r]
             /\ \A s \in Runners : doomed[s] = pkg[r] => r \notin seen[s]
  <2>1. pkg[r] \in Packages
    <3>1. pc[r] \in Reading
      BY <1>2 DEF At
    <3>2. pc[r] \notin {"idle", "down"}
      BY <3>1 DEF Reading
    <3>3. QED
      BY <1>2, <3>2 DEF EInv, CInv, TypeOK
  <2>2. PICK s \in Runners : StepOf(s)
    BY <1>2 DEF Next, StepOf, vars, evicting, disk
  <2>3. doomed[s] = pkg[r]
    BY <1>2, <2>1, <2>2, RemovedByEviction
  <2>4. s # r
    BY <1>2, <2>1, <2>3, CacheAssumption DEF EInv, OwnIsKept
  <2>5. \A n \in Runners : doomed[n] = pkg[r] => r \notin seen[n]
    BY <1>2, <2>1, CacheAssumption DEF EInv, SeenNobody
  <2>6. QED
    BY <2>3, <2>4, <2>5
<1>3. EInv /\ [Next]_vars =>
        [\A r \in Runners :
           /\ At(r, {"weighing", "preparing", "weighingAgain", "judging"})
           /\ r \in marker[pkg[r]]
           /\ file[pkg[r]] # "absent" /\ file'[pkg[r]] = "absent"
           => /\ \E s \in Runners \ {r} : doomed[s] = pkg[r]
              /\ \A s \in Runners : doomed[s] = pkg[r] => r \notin seen[s]]_vars
  BY <1>2 DEF Reading
<1>4. QED
  BY <1>1, <1>3, StepEInv, PTL DEF Spec, ReadingIsNeverEvicted
=============================================================================
