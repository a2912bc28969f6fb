------------------------- MODULE FolderConfigProofs -------------------------
(***************************************************************************)
(* Proofs about FolderConfig, for any folders and any films in them.       *)
(*                                                                         *)
(* What a cycle has read of the store is still true when it acts on it,    *)
(* or somebody's change has been noted.  Each part of the invariant says   *)
(* so of one thing read: the source (the search for the configured folder  *)
(* only starts under "config"), the permission to write, the folder, and   *)
(* the film's row, which no change of folder leaves behind while a plan    *)
(* runs.                                                                   *)
(***************************************************************************)
EXTENDS FolderConfig, TLAPS

AdoptsUnderConfig == cycle.step = "adopt" => cycle.source = "config"

Permitted ==
  /\ cycle.step \in {"open", "run"} => cycle.canWrite
  /\ cycle.step # "idle" /\ cycle.canWrite =>
       (device.enabled /\ device.inConfig) \/ cycle.synced

InPlace ==
  /\ cycle.step = "list" => cycle.path = device.path \/ cycle.moved
  /\ cycle.step = "open" => cycle.planned = device.path \/ cycle.moved
  /\ cycle.step = "run" => cycle.target = cycle.planned \/ cycle.moved

RowInPlace == cycle.step = "run" /\ row # None => cycle.target = device.path

SourceInv == TypeOK /\ SourceFollowsFile /\ AdoptsUnderConfig

-----------------------------------------------------------------------------
(* Sequences of plans stay sequences of actions.                           *)
LEMMA RestOfPlan ==
  ASSUME NEW todo \in Todo, todo # <<>>
  PROVE  Tail(todo) \in Todo
  BY DEF Todo

LEMMA PlansAreSequences ==
  ASSUME NEW r, NEW todo \in Plans(r)
  PROVE  todo \in Todo
<1> DEFINE kinds == {"write", "delete_legacy"}
<1>1. <<>> \in Seq(kinds) /\ <<"write">> \in Seq(kinds) /\ <<"delete_legacy">> \in Seq(kinds)
  OBVIOUS
<1>2. <<"write", "delete_legacy">> \in Seq(kinds)
  OBVIOUS
<1>3. todo \in {<<>>, <<"write">>, <<"delete_legacy">>, <<"write", "delete_legacy">>}
  BY Zenon DEF Plans
<1>4. QED BY <1>1, <1>2, <1>3, Zenon DEF Todo

LEMMA NoPlan == <<>> \in Todo
  BY DEF Todo

(* The types and the source.                                               *)
LEMMA SourceInit == Init => SourceInv
  BY FolderAssumption, NoPlan
     DEF Init, Idle, SourceInv, TypeOK, Path, Source, SourceFollowsFile, AdoptsUnderConfig

(* What is left of a plan, and whether the folder is open for it.          *)
LEMMA ContinueType ==
  ASSUME TypeOK, cycle.step = "run", NEW todo \in Todo
  PROVE  /\ Continue(todo) = [cycle EXCEPT !.todo = todo,
                                           !.step = IF todo = <<>> THEN "check" ELSE "run"]
         /\ Continue(todo).step \in {"check", "run"}
         /\ Continue(todo).step = "run" <=> Continue(todo).todo # <<>>
         /\ Continue(todo).todo = todo
         /\ Continue(todo).target = cycle.target
         /\ Continue(todo) \in
              [step : {"check", "run"}, canWrite : BOOLEAN, path : Path, source : Source,
               planned : Path, target : Path, todo : Todo, moved : BOOLEAN, synced : BOOLEAN]
  BY DEF Continue, TypeOK

(* A snapshot is a row.                                                    *)
LEMMA SnapshotType ==
  ASSUME TypeOK, NEW f \in Folders
  PROVE  Snapshot(f) \in [from : Folders, asked : BOOLEAN] \cup {None}
<1> DEFINE asked == row # None /\ row.asked /\ Film[row.from] = Film[f]
<1>1. asked \in BOOLEAN
  BY Zenon DEF TypeOK
<1>2. HIDE DEF asked
<1>3. [from |-> f, asked |-> asked] \in [from : Folders, asked : BOOLEAN]
  BY <1>1
<1>4. QED BY <1>3 DEF Snapshot, asked

(* What a deletion does to the Pi and to the cycle.                        *)
LEMMA DeleteDoes ==
  ASSUME DeleteLegacy
  PROVE  /\ cycle.step = "run" /\ UNCHANGED <<device, row, left>>
         /\ cycle' = Idle \/ cycle' = Continue(<<>>)
         /\ \/ pi' = pi
            \/ /\ StillAsked /\ SameSize
               /\ pi' = [pi EXCEPT ![cycle.target].film = FALSE]
<1>1. cycle.step = "run" /\ UNCHANGED <<device, row, left>>
  BY Zenon DEF DeleteLegacy
<1>2. cycle' = Idle \/ cycle' = Continue(<<>>)
  BY Zenon DEF DeleteLegacy
<1>3. \/ pi' = pi
      \/ StillAsked /\ SameSize /\ pi' = [pi EXCEPT ![cycle.target].film = FALSE]
  BY Zenon DEF DeleteLegacy
<1>4. QED BY <1>1, <1>2, <1>3

LEMMA FilmGone ==
  ASSUME NEW p \in [Folders -> [film : BOOLEAN, app : 0 .. 1]], NEW f \in Folders
  PROVE  [p EXCEPT ![f].film = FALSE] \in [Folders -> [film : BOOLEAN, app : 0 .. 1]]
  OBVIOUS

(* One step of a cycle.                                                    *)
LEMMA SourceCycle ==
  ASSUME SourceInv, CycleStep
  PROVE  SourceInv'
<1> USE FolderAssumption, NoPlan
        DEF SourceInv, TypeOK, Path, Source, SourceFollowsFile, AdoptsUnderConfig, Idle
<1>1. CASE Begin
  <2> DEFINE may == device.enabled /\ device.inConfig
  <2>1. may \in BOOLEAN
    BY Zenon
  <2>2. cycle' = [Idle EXCEPT !.step = "connect", !.canWrite = may]
    BY <1>1, Zenon DEF Begin
  <2>3. HIDE DEF may
  <2>4. QED BY <1>1, <2>1, <2>2 DEF Begin
<1>2. CASE Connect
  <2>1. CASE device.path = None /\ device.config # None
    BY <1>2, <2>1 DEF Connect
  <2>2. CASE device.path = None /\ device.config = None
    BY <1>2, <2>2 DEF Connect, Listing
  <2>3. CASE device.path # None
    BY <1>2, <2>3, ZenonT(40) DEF Connect, Listing
  <2>4. QED BY <2>1, <2>2, <2>3
<1>3. CASE AdoptConfigured
  BY <1>3 DEF AdoptConfigured, Listing
<1>4. CASE NotFound
  BY <1>4, ZenonT(40) DEF NotFound, Listing
<1>5. CASE SnapshotAndPlan
  <2>1. row' \in [from : Folders, asked : BOOLEAN] \cup {None}
    BY <1>5, SnapshotType DEF SnapshotAndPlan
  <2>2. PICK todo \in Plans(row') :
          cycle' = IF todo # <<>> /\ cycle.canWrite
                     THEN [cycle EXCEPT !.step = "open", !.planned = cycle.path, !.todo = todo]
                     ELSE Idle
    BY <1>5 DEF SnapshotAndPlan
  <2>3. todo \in Todo
    BY PlansAreSequences
  <2>4. QED BY <1>5, <2>1, <2>2, <2>3 DEF SnapshotAndPlan
<1>6. CASE OpenFolder
  BY <1>6, ZenonT(40) DEF OpenFolder
<1>7. CASE Write
  <2>1. pi' \in [Folders -> [film : BOOLEAN, app : 0 .. 1]]
    BY <1>7 DEF Write
  <2>2. Tail(cycle.todo) \in Todo
    BY <1>7, RestOfPlan DEF Write
  <2>3. QED BY <1>7, <2>1, <2>2, ContinueType, ZenonT(40) DEF Write
<1>8. CASE DeleteLegacy
  <2>1. cycle.step = "run" /\ device' = device /\ row' = row
    BY <1>8, DeleteDoes
  <2>2. pi' \in [Folders -> [film : BOOLEAN, app : 0 .. 1]]
    BY <1>8, DeleteDoes, FilmGone
  <2>3. CASE cycle' = Idle
    BY <2>1, <2>2, <2>3
  <2>4. CASE cycle' = Continue(<<>>)
    BY <2>1, <2>2, <2>4, ContinueType
  <2>5. QED BY <1>8, <2>3, <2>4, DeleteDoes
<1>9. CASE ListAgain
  BY <1>9, ZenonT(40) DEF ListAgain
<1>10. CASE SnapshotAfter
  BY <1>10, SnapshotType DEF SnapshotAfter
<1>11. QED
  BY <1>1, <1>2, <1>3, <1>4, <1>5, <1>6, <1>7, <1>8, <1>9, <1>10, Zenon DEF CycleStep
(* Failures, and what administrators do.                                   *)
LEMMA SourceOthers ==
  ASSUME SourceInv, ActionRefused \/ CycleLost \/ Administrators
  PROVE  SourceInv'
<1> USE FolderAssumption, NoPlan
        DEF SourceInv, TypeOK, Path, Source, SourceFollowsFile, AdoptsUnderConfig
<1>1. CASE ActionRefused
  BY <1>1, ContinueType DEF ActionRefused
<1>2. CASE CycleLost
  BY <1>2 DEF CycleLost, Idle
<1>3. ASSUME NEW d, NEW loaded \in BOOLEAN, cycle' = Noted(d, loaded), row' = None \/ row' = row,
             device' \in [path : Path, source : Source, config : Path,
                          enabled : BOOLEAN, inConfig : BOOLEAN],
             SourceFollowsFile', pi' = pi
      PROVE  SourceInv'
  <2> DEFINE moved == cycle.moved \/ d.path # device.path
             synced == cycle.synced \/ loaded
  <2>1. moved \in BOOLEAN /\ synced \in BOOLEAN
    BY Zenon
  <2>2. cycle' = cycle \/ cycle' = [cycle EXCEPT !.moved = moved, !.synced = synced]
    BY <1>3, Zenon DEF Noted
  <2>3. HIDE DEF moved, synced
  <2>4. QED BY <1>3, <2>1, <2>2, ZenonT(40)
<1>4. ASSUME NEW f \in Folders, ConfirmPath(f) PROVE SourceInv'
  BY <1>3, <1>4 DEF ConfirmPath
<1>5. CASE ClearPath
  BY <1>3, <1>5 DEF ClearPath
<1>6. ASSUME NEW asked \in BOOLEAN, RequestDelete(asked) PROVE SourceInv'
  BY <1>6 DEF RequestDelete
<1>7. CASE SyncRemoved
  BY <1>3, <1>7 DEF SyncRemoved
<1>8. ASSUME NEW enabled \in BOOLEAN, NEW path \in Path, SyncListed(enabled, path)
      PROVE  SourceInv'
  <2> DEFINE listed == [device EXCEPT !.inConfig = TRUE, !.enabled = enabled, !.config = path]
             source == IF path # None THEN "config" ELSE None
  <2>1. CASE path # device.config /\ (path # None \/ device.source = "config")
    <3>1. device' = [listed EXCEPT !.path = None, !.source = source] /\ row' = None
      BY <1>8, <2>1, Zenon DEF SyncListed
    <3>2. device' \in [path : Path, source : Source, config : Path,
                      enabled : BOOLEAN, inConfig : BOOLEAN]
      BY <3>1
    <3>3. SourceFollowsFile'
      BY <3>1
    <3>4. pi' = pi /\ cycle' = Noted(device', TRUE)
      BY <1>8, Zenon DEF SyncListed
    <3>5. QED BY <3>1, <3>2, <3>3, <3>4, <1>3
  <2>2. CASE ~ (path # device.config /\ (path # None \/ device.source = "config"))
    <3>1. device' = listed /\ row' = row
      BY <1>8, <2>2, Zenon DEF SyncListed
    <3>2. device' \in [path : Path, source : Source, config : Path,
                      enabled : BOOLEAN, inConfig : BOOLEAN]
      BY <3>1
    <3>3. SourceFollowsFile'
      BY <3>1, <2>2
    <3>4. pi' = pi /\ cycle' = Noted(device', TRUE)
      BY <1>8, Zenon DEF SyncListed
    <3>5. QED BY <3>1, <3>2, <3>3, <3>4, <1>3
  <2>3. QED BY <2>1, <2>2
<1>9. QED BY <1>1, <1>2, <1>4, <1>5, <1>6, <1>7, <1>8 DEF Administrators

LEMMA SourceNext == SourceInv /\ [Next]_vars => SourceInv'
<1>1. SourceInv /\ Next => SourceInv'
  BY SourceCycle, SourceOthers DEF Next
<1>2. SourceInv /\ UNCHANGED vars => SourceInv'
  BY DEF SourceInv, TypeOK, SourceFollowsFile, AdoptsUnderConfig, vars
<1>3. QED BY <1>1, <1>2

THEOREM SourceInvariant == Spec => []SourceInv
  BY SourceInit, SourceNext, PTL DEF Spec

(* Every state of the store, the Pi and the cycle is well formed; a plan   *)
(* that runs has a folder to run in.                                       *)
THEOREM FolderTypeCorrect == Spec => []TypeOK
<1>1. SourceInv => TypeOK
  BY DEF SourceInv
<1>2. QED BY <1>1, SourceInvariant, PTL

(* The panel and devices.yaml never disagree about whose the folder is.    *)
THEOREM NeverLockedOut == Spec => []SourceFollowsFile
<1>1. SourceInv => SourceFollowsFile
  BY DEF SourceInv
<1>2. QED BY <1>1, SourceInvariant, PTL
-----------------------------------------------------------------------------
(* What a cycle has read, and the actions that rest on it.                 *)
CycleInv == SourceInv /\ Permitted /\ InPlace /\ RowInPlace

LEMMA ReadInit == Init => Permitted /\ InPlace /\ RowInPlace
  BY DEF Init, Idle, Permitted, InPlace, RowInPlace

LEMMA ReadCycle ==
  ASSUME CycleInv, CycleStep
  PROVE  (Permitted /\ InPlace /\ RowInPlace)'
<1> USE DEF Permitted, InPlace, RowInPlace
<1> TypeOK /\ cycle.canWrite \in BOOLEAN /\ cycle.moved \in BOOLEAN /\ cycle.synced \in BOOLEAN
  BY DEF CycleInv, SourceInv, TypeOK
<1> SUFFICES ASSUME Permitted, InPlace, RowInPlace
             PROVE  (Permitted /\ InPlace /\ RowInPlace)'
  BY DEF CycleInv
<1>1. CASE Begin
  <2> DEFINE may == device.enabled /\ device.inConfig
  <2>1. cycle' = [Idle EXCEPT !.step = "connect", !.canWrite = may]
    BY <1>1, Zenon DEF Begin
  <2>2. device' = device /\ row' = row
    BY <1>1 DEF Begin
  <2>3. cycle'.step = "connect" /\ (cycle'.canWrite <=> may)
    BY <2>1 DEF Idle
  <2>4. QED BY <2>2, <2>3
<1>2. CASE Connect
  BY <1>2 DEF Connect, Listing, Idle, TypeOK
<1>3. CASE AdoptConfigured
  BY <1>3 DEF AdoptConfigured, Listing, Idle, TypeOK
<1>4. CASE NotFound
  BY <1>4 DEF NotFound, Listing, Idle, TypeOK
<1>5. CASE SnapshotAndPlan
  <2>1. \/ cycle' = Idle
        \/ /\ cycle.canWrite
           /\ \E todo \in Plans(row') :
                cycle' = [cycle EXCEPT !.step = "open", !.planned = cycle.path, !.todo = todo]
    BY <1>5, Zenon DEF SnapshotAndPlan
  <2>2. cycle.step = "list" /\ device' = device
    BY <1>5 DEF SnapshotAndPlan
  <2>3. CASE cycle' = Idle
    BY <2>2, <2>3 DEF Idle
  <2>4. ASSUME cycle.canWrite, NEW todo,
               cycle' = [cycle EXCEPT !.step = "open", !.planned = cycle.path, !.todo = todo]
        PROVE  (Permitted /\ InPlace /\ RowInPlace)'
    BY <2>2, <2>4 DEF TypeOK
  <2>5. QED BY <2>1, <2>3, <2>4
<1>6. CASE OpenFolder
  BY <1>6 DEF OpenFolder, Idle, TypeOK
<1>7. CASE Write
  BY <1>7 DEF Write, Continue, TypeOK
<1>8. CASE DeleteLegacy
  <2>1. cycle.step = "run" /\ device' = device /\ row' = row
    BY <1>8, DeleteDoes
  <2>2. CASE cycle' = Idle
    BY <2>1, <2>2 DEF Idle
  <2>3. CASE cycle' = Continue(<<>>)
    BY <2>1, <2>3 DEF Continue, TypeOK
  <2>4. QED BY <1>8, <2>2, <2>3, DeleteDoes
<1>9. CASE ListAgain
  BY <1>9 DEF ListAgain, Idle, TypeOK
<1>10. CASE SnapshotAfter
  BY <1>10 DEF SnapshotAfter, Idle
<1>11. QED
  BY <1>1, <1>2, <1>3, <1>4, <1>5, <1>6, <1>7, <1>8, <1>9, <1>10, Zenon DEF CycleStep

(* Whoever changes the path or loads devices.yaml is noted by the cycle    *)
(* under way, and no row survives a change of path.                        *)
LEMMA ReadOthers ==
  ASSUME CycleInv, ActionRefused \/ CycleLost \/ Administrators
  PROVE  (Permitted /\ InPlace /\ RowInPlace)'
<1> USE DEF Permitted, InPlace, RowInPlace
<1> TypeOK
  BY DEF CycleInv, SourceInv
<1> SUFFICES ASSUME Permitted, InPlace, RowInPlace
             PROVE  (Permitted /\ InPlace /\ RowInPlace)'
  BY DEF CycleInv
<1>1. CASE ActionRefused
  BY <1>1 DEF ActionRefused, Continue, TypeOK
<1>2. CASE CycleLost
  BY <1>2 DEF CycleLost, Idle
<1>3. ASSUME NEW loaded \in BOOLEAN, cycle' = Noted(device', loaded),
             row' = None \/ (row' = row /\ device'.path = device.path),
             loaded \/ (device'.enabled = device.enabled /\ device'.inConfig = device.inConfig)
      PROVE  (Permitted /\ InPlace /\ RowInPlace)'
  <2> DEFINE moved == cycle.moved \/ device'.path # device.path
             synced == cycle.synced \/ loaded
  <2>1. cycle' = IF cycle.step = "idle" THEN cycle
                 ELSE [cycle EXCEPT !.moved = moved, !.synced = synced]
    BY <1>3, Zenon DEF Noted
  <2>2. /\ cycle'.step = cycle.step /\ cycle'.canWrite = cycle.canWrite
        /\ cycle'.path = cycle.path /\ cycle'.planned = cycle.planned
        /\ cycle'.target = cycle.target
    BY <2>1 DEF TypeOK
  <2>3. cycle.step # "idle" => (cycle'.moved <=> moved) /\ (cycle'.synced <=> synced)
    BY <2>1 DEF TypeOK
  <2>4. QED BY <1>3, <2>2, <2>3
<1>4. ASSUME NEW f \in Folders, ConfirmPath(f) PROVE (Permitted /\ InPlace /\ RowInPlace)'
  BY <1>3, <1>4 DEF ConfirmPath, TypeOK
<1>5. CASE ClearPath
  BY <1>3, <1>5 DEF ClearPath, TypeOK
<1>6. ASSUME NEW asked \in BOOLEAN, RequestDelete(asked)
      PROVE  (Permitted /\ InPlace /\ RowInPlace)'
  BY <1>6 DEF RequestDelete
<1>7. CASE SyncRemoved
  <2>1. device'.path = device.path /\ row' = row
    BY <1>7 DEF SyncRemoved, TypeOK
  <2>2. cycle' = Noted(device', TRUE)
    BY <1>7, Zenon DEF SyncRemoved
  <2>3. QED BY <1>3, <2>1, <2>2
<1>8. ASSUME NEW enabled \in BOOLEAN, NEW path \in Folders \cup {None}, SyncListed(enabled, path)
      PROVE  (Permitted /\ InPlace /\ RowInPlace)'
  <2>1. row' = None \/ (row' = row /\ device'.path = device.path)
    BY <1>8 DEF SyncListed, TypeOK
  <2>2. cycle' = Noted(device', TRUE)
    BY <1>8, Zenon DEF SyncListed
  <2>3. QED BY <1>3, <2>1, <2>2
<1>9. QED BY <1>1, <1>2, <1>4, <1>5, <1>6, <1>7, <1>8 DEF Administrators

THEOREM CycleInvariant == Spec => []CycleInv
<1>1. Init => CycleInv
  BY SourceInit, ReadInit DEF CycleInv
<1>2. CycleInv /\ [Next]_vars => CycleInv'
  <2>1. CycleInv /\ Next => CycleInv'
    BY SourceNext, ReadCycle, ReadOthers DEF CycleInv, Next
  <2>2. CycleInv /\ UNCHANGED vars => CycleInv'
    BY SourceNext DEF CycleInv, Permitted, InPlace, RowInPlace, vars
  <2>3. QED BY <2>1, <2>2
<1>3. QED BY <1>1, <1>2, PTL DEF Spec

(* Only a plan changes the Pi, and only its target.                        *)
LEMMA OnlyPlansWrite ==
  ASSUME CycleInv, Next, NEW f \in Folders, Changed(f)
  PROVE  /\ cycle.step = "run" /\ f = cycle.target
         /\ pi[f].film /\ ~ pi'[f].film => StillAsked /\ SameSize
<1> TypeOK
  BY DEF CycleInv, SourceInv
<1>1. CASE Write
  <2>1. cycle.step = "run" /\ cycle.target \in Folders
    BY <1>1 DEF Write, TypeOK
  <2>2. pi' = [pi EXCEPT ![cycle.target].app = 1 - pi[cycle.target].app]
    BY <1>1 DEF Write
  <2>3. f = cycle.target
    BY <2>1, <2>2 DEF Changed, TypeOK
  <2>4. pi'[f].film = pi[f].film
    BY <2>1, <2>2, <2>3 DEF TypeOK
  <2>5. QED BY <2>1, <2>3, <2>4
<1>2. CASE DeleteLegacy
  BY <1>2, DeleteDoes DEF Changed, TypeOK
<1>3. CASE pi' = pi
  BY <1>3 DEF Changed
<1>4. ~ Write /\ ~ DeleteLegacy => pi' = pi
  BY DEF Next, CycleStep, Begin, Connect, AdoptConfigured, NotFound, SnapshotAndPlan, OpenFolder,
         ListAgain, SnapshotAfter, ActionRefused, CycleLost, Administrators, ConfirmPath,
         ClearPath, RequestDelete, SyncRemoved, SyncListed
<1>5. QED BY <1>1, <1>2, <1>3, <1>4

(* A film is deleted only from the store's folder, on a request that       *)
(* stands, and with the size it was seen with.                             *)
THEOREM FilmsAreSafe == Spec => LegacyOnlyInCurrentFolder
<1> DEFINE Safe == \A f \in Folders : (pi[f].film /\ ~ pi'[f].film) =>
                     /\ f = device.path
                     /\ row # None /\ row.asked
                     /\ Film[f].size = Film[row.from].size
<1>1. CycleInv /\ [Next]_vars => [Safe]_vars
  <2> SUFFICES ASSUME CycleInv, Next, NEW f \in Folders, pi[f].film, ~ pi'[f].film
               PROVE  /\ f = device.path
                      /\ row # None /\ row.asked
                      /\ Film[f].size = Film[row.from].size
    OBVIOUS
  <2>1. Changed(f)
    BY DEF Changed
  <2>2. cycle.step = "run" /\ f = cycle.target /\ StillAsked /\ SameSize
    BY <2>1, OnlyPlansWrite
  <2>3. row # None /\ row.asked
    BY <2>2 DEF StillAsked
  <2>4. f = device.path
    BY <2>2, <2>3 DEF CycleInv, RowInPlace
  <2>5. QED BY <2>2, <2>3, <2>4 DEF SameSize
<1>2. QED BY <1>1, CycleInvariant, PTL DEF Spec, LegacyOnlyInCurrentFolder

(* A store is written to only while it may be, or by the cycle that was    *)
(* under way when the file was loaded.                                     *)
THEOREM PermissionHolds == Spec => WritesPermitted
<1> DEFINE Held == (\E f \in Folders : Changed(f)) =>
                     (device.enabled /\ device.inConfig) \/ cycle.synced
<1>1. CycleInv /\ [Next]_vars => [Held]_vars
  <2> SUFFICES ASSUME CycleInv, Next, NEW f \in Folders, Changed(f)
               PROVE  (device.enabled /\ device.inConfig) \/ cycle.synced
    OBVIOUS
  <2>1. cycle.step = "run"
    BY OnlyPlansWrite
  <2>2. QED BY <2>1 DEF CycleInv, Permitted
<1>2. QED BY <1>1, CycleInvariant, PTL DEF Spec, WritesPermitted

(* A plan writes in the folder it was made from, or somebody has changed   *)
(* the store's folder since.                                               *)
THEOREM PlansStay == Spec => PlanStaysUnlessMoved
<1> DEFINE Stays == \A f \in Folders : Changed(f) => f = cycle.planned \/ cycle.moved
<1>1. CycleInv /\ [Next]_vars => [Stays]_vars
  <2> SUFFICES ASSUME CycleInv, Next, NEW f \in Folders, Changed(f)
               PROVE  f = cycle.planned \/ cycle.moved
    OBVIOUS
  <2>1. cycle.step = "run" /\ f = cycle.target
    BY OnlyPlansWrite
  <2>2. QED BY <2>1 DEF CycleInv, InPlace
<1>2. QED BY <1>1, CycleInvariant, PTL DEF Spec, PlanStaysUnlessMoved
=============================================================================
