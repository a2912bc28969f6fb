---------------------------- MODULE FolderConfig ----------------------------
(***************************************************************************)
(* Which folder of a Pi the app works in, and whether it may write there:  *)
(* devices.yaml (inventory.py), the panel (blueprints/devices.py), and a   *)
(* cycle (reconciler/cycle.py) that reads both at several points while     *)
(* FTP commands pass.                                                      *)
(*                                                                         *)
(* Data.  Every folder may hold a legacy film, under one name everywhere,  *)
(* with the size and date Film gives it; what the app keeps there is one   *)
(* value that each write changes.  A plan is any write at all, then the    *)
(* deletion of the film if it was asked for (Planner has the real one).    *)
(* A path of devices.yaml and the FTP path it resolves to are one value,   *)
(* and so are the panel's candidates and all folders.  The lease is        *)
(* DeviceLease's subject: one cycle at a time.  A handler of the panel is  *)
(* one step, and so is what a cycle does between two waits for the Pi,     *)
(* but for the commit after planning.                                      *)
(***************************************************************************)
EXTENDS Integers, Sequences

CONSTANTS
  Folders,
  Film,        (* [size, mtime] of the film in each folder                    *)
  None,
  MaxEdits,    (* bounds: what administrators do,                             *)
  MaxFaults    (*   and failures                                              *)

ASSUME FolderAssumption ==
       /\ None \notin Folders \cup {"config", "discovery"}
       /\ DOMAIN Film = Folders
       /\ MaxEdits \in Nat
       /\ MaxFaults \in Nat

VARIABLES
  device,  (* the Device row: path and source (video_path, video_path_source), *)
           (* config (config_video_path), enabled, inConfig                    *)
  row,     (* the film's DeviceFile row, None or [from, asked]: the folder it  *)
           (* was read from (its size and date), and whether to delete it      *)
  pi,      (* each folder of the Pi: film (is it there), app                   *)
  cycle,   (* the running cycle                                                *)
  left     (* what remains of the bounds                                       *)

vars == <<device, row, pi, cycle, left>>

-----------------------------------------------------------------------------
(* The cycle's state.  step: idle, connect, adopt (looking for the folder  *)
(* of devices.yaml), list, open (planned), run, check, relist.  path: what *)
(* the cycle has in hand of device, read before it waits for the Pi;       *)
(* planned: the folder the plan was made from; target: where it runs.      *)
(* moved, synced: somebody else changed the path since it was read, or     *)
(* devices.yaml was loaded since the cycle began.                          *)

Idle == [step |-> "idle", canWrite |-> FALSE, path |-> None, source |-> None,
         planned |-> None, target |-> None, todo |-> <<>>,
         moved |-> FALSE, synced |-> FALSE]

Init == /\ device = [path |-> None, source |-> None, config |-> None,
                     enabled |-> TRUE, inConfig |-> TRUE]
        /\ row = None
        /\ pi = [f \in Folders |-> [film |-> TRUE, app |-> 0]]
        /\ cycle = Idle
        /\ left = [edits |-> MaxEdits, faults |-> MaxFaults]

(* Mutant: a store with write access turned off is written to.             *)
BeginAnyhow ==
  /\ cycle.step = "idle"
  /\ cycle' = [Idle EXCEPT !.step = "connect", !.canWrite = device.inConfig]
  /\ UNCHANGED <<device, row, pi, left>>

Begin ==
  /\ cycle.step = "idle"
  /\ cycle' = [Idle EXCEPT !.step = "connect", !.canWrite = device.enabled /\ device.inConfig]
  /\ UNCHANGED <<device, row, pi, left>>

(* With a folder, list it; without one the cycle ends.                     *)
Listing(path) ==
  IF path = None THEN Idle
  ELSE [cycle EXCEPT !.step = "list", !.path = path, !.moved = FALSE]

(* Mutant: the folder of devices.yaml is listed, adopted or not.           *)
ConnectToConfigured ==
  /\ cycle.step = "connect"
  /\ cycle' = IF device.path = None /\ device.config # None
                THEN [cycle EXCEPT !.step = "adopt", !.path = device.config,
                                   !.source = device.source]
                ELSE Listing(IF device.config # None THEN device.config ELSE device.path)
  /\ UNCHANGED <<device, row, pi, left>>

Connect ==
  /\ cycle.step = "connect"
  /\ cycle' = IF device.path = None /\ device.config # None
                THEN [cycle EXCEPT !.step = "adopt", !.path = device.config,
                                   !.source = device.source]
                ELSE Listing(device.path)
  /\ UNCHANGED <<device, row, pi, left>>

(* Mutant: the source is written even if it was "config" already.          *)
AdoptAgain ==
  /\ cycle.step = "adopt"
  /\ device' = [device EXCEPT !.path = cycle.path, !.source = "config"]
  /\ cycle' = Listing(cycle.path)
  /\ UNCHANGED <<row, pi, left>>

(* The folder of devices.yaml was found.  The UPDATE holds the columns     *)
(* whose value differs from what the cycle had read before the search.     *)
AdoptConfigured ==
  /\ cycle.step = "adopt"
  /\ device' = [device EXCEPT !.path = cycle.path,
                              !.source = IF cycle.source = "config" THEN @ ELSE "config"]
  /\ cycle' = Listing(cycle.path)
  /\ UNCHANGED <<row, pi, left>>

NotFound ==
  /\ cycle.step = "adopt"
  /\ cycle' = Listing(device.path)
  /\ UNCHANGED <<device, row, pi, left>>

(* The film's row after a listing of folder f: a request survives only if  *)
(* the film looks the same.                                                *)
Snapshot(f) ==
  IF pi[f].film
    THEN [from |-> f, asked |-> row # None /\ row.asked /\ Film[row.from] = Film[f]]
    ELSE None

Plans(r) ==
  {<<>>, <<"write">>}
    \cup (IF r # None /\ r.asked
            THEN {<<"delete_legacy">>, <<"write", "delete_legacy">>} ELSE {})

(* Mutant: what is known of a file is not refreshed.                       *)
SnapshotOnce ==
  /\ cycle.step = "list"
  /\ row' = IF row = None THEN Snapshot(cycle.path) ELSE row
  /\ \E todo \in Plans(row') :
       cycle' = IF todo # <<>> /\ cycle.canWrite
                  THEN [cycle EXCEPT !.step = "open", !.planned = cycle.path, !.todo = todo]
                  ELSE Idle
  /\ UNCHANGED <<device, pi, left>>

SnapshotAndPlan ==
  /\ cycle.step = "list"
  /\ row' = Snapshot(cycle.path)
  /\ \E todo \in Plans(row') :
       cycle' = IF todo # <<>> /\ cycle.canWrite
                  THEN [cycle EXCEPT !.step = "open", !.planned = cycle.path, !.todo = todo]
                  ELSE Idle
  /\ UNCHANGED <<device, pi, left>>

-----------------------------------------------------------------------------
(* Execution.  The commit after planning expires what the cycle had read:  *)
(* the executor is given the path of now.  Without one it fails at once.   *)

OpenFolder ==
  /\ cycle.step = "open"
  /\ cycle' = IF device.path = None
                THEN Idle
                ELSE [cycle EXCEPT !.step = "run", !.target = device.path]
  /\ UNCHANGED <<device, row, pi, left>>

Continue(todo) ==
  [cycle EXCEPT !.todo = todo, !.step = IF todo = <<>> THEN "check" ELSE "run"]

Write ==
  /\ cycle.step = "run"
  /\ Head(cycle.todo) = "write"
  /\ pi' = [pi EXCEPT ![cycle.target].app = 1 - @]
  /\ cycle' = Continue(Tail(cycle.todo))
  /\ UNCHANGED <<device, row, left>>

(* The request must still stand, and the film have the size it was asked   *)
(* for with - in the store's folder of now.                                *)
StillAsked == row # None /\ row.asked

SameSize == /\ pi[device.path].film
            /\ Film[device.path].size = Film[row.from].size

DeleteLegacy ==
  /\ cycle.step = "run"
  /\ Head(cycle.todo) = "delete_legacy"
  /\ IF StillAsked /\ device.path = None
       THEN cycle' = Idle /\ UNCHANGED pi
       ELSE /\ cycle' = Continue(<<>>)
            /\ pi' = IF StillAsked /\ SameSize /\ pi[cycle.target].film
                       THEN [pi EXCEPT ![cycle.target].film = FALSE]
                       ELSE pi
  /\ UNCHANGED <<device, row, left>>

ListAgain ==
  /\ cycle.step = "check"
  /\ cycle' = IF device.path = None
                THEN Idle
                ELSE [cycle EXCEPT !.step = "relist", !.path = device.path]
  /\ UNCHANGED <<device, row, pi, left>>

SnapshotAfter ==
  /\ cycle.step = "relist"
  /\ row' = Snapshot(cycle.path)
  /\ cycle' = Idle
  /\ UNCHANGED <<device, pi, left>>

(* An action fails, or the whole cycle (link, lease, worker).              *)
ActionRefused ==
  /\ left.faults > 0
  /\ cycle.step = "run"
  /\ cycle' = Continue(<<>>)
  /\ left' = [left EXCEPT !.faults = @ - 1]
  /\ UNCHANGED <<device, row, pi>>

CycleLost ==
  /\ left.faults > 0
  /\ cycle.step # "idle"
  /\ cycle' = Idle
  /\ left' = [left EXCEPT !.faults = @ - 1]
  /\ UNCHANGED <<device, row, pi>>

-----------------------------------------------------------------------------
(* Administrators.  Noted says what the running cycle does not know of.    *)

Edit == left.edits > 0 /\ left' = [left EXCEPT !.edits = @ - 1]

Noted(d, loaded) ==
  IF cycle.step = "idle" THEN cycle
  ELSE [cycle EXCEPT !.moved = @ \/ d.path # device.path, !.synced = @ \/ loaded]

(* Mutant: requests survive a change of folder.                            *)
ConfirmKeepingRows(f) ==
  /\ Edit
  /\ device.source # "config"
  /\ device' = [device EXCEPT !.path = f, !.source = "discovery"]
  /\ cycle' = Noted(device', FALSE)
  /\ UNCHANGED <<row, pi>>

ConfirmPath(f) ==
  /\ Edit
  /\ device.source # "config"
  /\ device' = [device EXCEPT !.path = f, !.source = "discovery"]
  /\ row' = IF device.path # f THEN None ELSE row
  /\ cycle' = Noted(device', FALSE)
  /\ UNCHANGED pi

ClearPath ==
  /\ Edit
  /\ device.source # "config"
  /\ device' = [device EXCEPT !.path = None, !.source = None]
  /\ row' = None
  /\ cycle' = Noted(device', FALSE)
  /\ UNCHANGED pi

RequestDelete(asked) ==
  /\ Edit
  /\ row # None
  /\ row' = [row EXCEPT !.asked = asked]
  /\ UNCHANGED <<device, pi, cycle>>

(* devices.yaml is loaded: the store is not in it, ...                     *)
SyncRemoved ==
  /\ Edit
  /\ device.inConfig
  /\ device' = [device EXCEPT !.inConfig = FALSE, !.enabled = FALSE]
  /\ cycle' = Noted(device', TRUE)
  /\ UNCHANGED <<row, pi>>

(* ... or it is; a path that differs from the one last loaded wins.        *)
SyncListed(enabled, path) ==
  LET listed == [device EXCEPT !.inConfig = TRUE, !.enabled = enabled, !.config = path]
      resets == path # device.config /\ (path # None \/ device.source = "config")
  IN  /\ Edit
      /\ device' = IF resets
                     THEN [listed EXCEPT !.path = None,
                                         !.source = IF path # None THEN "config" ELSE None]
                     ELSE listed
      /\ row' = IF resets THEN None ELSE row
      /\ cycle' = Noted(device', TRUE)
      /\ UNCHANGED pi

-----------------------------------------------------------------------------
CycleStep ==
  \/ Begin
  \/ Connect
  \/ AdoptConfigured
  \/ NotFound
  \/ SnapshotAndPlan
  \/ OpenFolder
  \/ Write
  \/ DeleteLegacy
  \/ ListAgain
  \/ SnapshotAfter

Administrators ==
  \/ \E f \in Folders : ConfirmPath(f)
  \/ ClearPath
  \/ \E asked \in BOOLEAN : RequestDelete(asked)
  \/ SyncRemoved
  \/ \E enabled \in BOOLEAN, path \in Folders \cup {None} : SyncListed(enabled, path)

Next == CycleStep \/ ActionRefused \/ CycleLost \/ Administrators

Spec == Init /\ [][Next]_vars

(* The worker runs a cycle every few minutes, and each one gets on.        *)
FairSpec == Spec /\ WF_vars(CycleStep)
-----------------------------------------------------------------------------
(* The state's shape; a cycle that runs a plan has a folder to run it in.  *)

Path == Folders \cup {None}

Source == {"config", "discovery", None}

Todo == Seq({"write", "delete_legacy"})

TypeOK ==
  /\ device \in [path : Path, source : Source, config : Path,
                 enabled : BOOLEAN, inConfig : BOOLEAN]
  /\ row \in [from : Folders, asked : BOOLEAN] \cup {None}
  /\ pi \in [Folders -> [film : BOOLEAN, app : 0 .. 1]]
  /\ cycle \in [step : {"idle", "connect", "adopt", "list", "open", "run", "check", "relist"},
                canWrite : BOOLEAN, path : Path, source : Source, planned : Path, target : Path,
                todo : Todo, moved : BOOLEAN, synced : BOOLEAN]
  /\ cycle.step \in {"adopt", "list", "relist"} => cycle.path \in Folders
  /\ cycle.step = "run" => cycle.target \in Folders
  /\ cycle.step \in {"open", "run"} <=> cycle.todo # <<>>

Changed(f) == pi'[f] # pi[f]

(* The store's folder counts as set by devices.yaml exactly when the file  *)
(* sets it: the panel (which refuses to touch such a folder, devices.py:   *)
(* 126) never locks an administrator out, whatever cycle was under way     *)
(* when the file was loaded.                                               *)
SourceFollowsFile == device.source = "config" <=> device.config # None

(* A film leaves a folder only while a request for it stands, only if that *)
(* is the store's folder at that moment, and only with the size the film   *)
(* had when it was seen (README, "Legados").                               *)
LegacyOnlyInCurrentFolder ==
  [][\A f \in Folders : (pi[f].film /\ ~ pi'[f].film) =>
       /\ f = device.path
       /\ row # None /\ row.asked
       /\ Film[f].size = Film[row.from].size]_vars

(* A store is written to only while it is in devices.yaml and enabled, but *)
(* for the cycle that was under way when the file was loaded (cycle.py:8). *)
WritesPermitted ==
  [][(\E f \in Folders : Changed(f)) =>
       (device.enabled /\ device.inConfig) \/ cycle.synced]_vars

(* A plan runs in the folder whose listing it was made from, unless the    *)
(* folder was changed in between.                                          *)
PlanStaysUnlessMoved ==
  [][\A f \in Folders : Changed(f) => f = cycle.planned \/ cycle.moved]_vars

(* When administrators stop, the rows end up being those of the store's    *)
(* folder, whatever a cycle recorded of the one before.                    *)
RowsFollowFolder ==
  <>[](device.path # None => row = None \/ row.from = device.path)
=============================================================================
