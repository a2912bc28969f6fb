------------------------------ MODULE Reconcile ------------------------------
(***************************************************************************)
(* One store: the reconciliation cycle (reconciler/cycle.py, state.py and  *)
(* executor.py) against the video folder of its Pi, while the schedule is  *)
(* edited, an administrator asks for legacy files to be deleted, people    *)
(* copy files to the Pi by hand, links drop and the worker dies.           *)
(*                                                                         *)
(* A cycle lists the folder, records what it saw (store_snapshot), plans,  *)
(* executes the plan one FTP action at a time and reads the folder again.  *)
(* The lease that keeps two cycles of one store apart is DeviceLease's     *)
(* subject: here there is one cycle at a time, and it may write.           *)
(*                                                                         *)
(* disk is the truth on the Pi.  Its files carry what a listing does not   *)
(* show: data, the content of the bytes (the sha of a whole library video, *)
(* Foreign for a file the app did not make, Broken for a truncated one).   *)
(***************************************************************************)
EXTENDS Planner

CONSTANTS
  Library,      (* videos with a converted file, the retired ones included     *)
  WantPool,     (* assignments a user may create                               *)
  InitialWants, (* ... and those that exist at the start                       *)
  InitialRoot,  (* the folder before the app's first cycle: legacy files       *)
  HandFiles,    (* [name, file] a person may copy to the folder                *)
  MaxBytes,     (* the store's max_bytes, None for no limit                    *)
  MaxTime,      (* bounds: the clock,                                          *)
  MaxEdits,     (*   changes of the schedule,                                  *)
  MaxFaults,    (*   failures of the link, the Pi or the worker,               *)
  MaxTouches,   (*   changes of the folder by hand,                            *)
  MaxRequests,  (*   legacy deletions asked for or cancelled                   *)
  Foreign, Broken

PartialBytes == 1  (* what an interrupted STOR leaves *)

ASSUME ReconcileAssumption ==
       /\ InitialWants \subseteq WantPool
       /\ \A w \in WantPool : w.video \in Library
       /\ \A v \in Library : v.size > PartialBytes
       /\ \A v, w \in Library : v.id = w.id => v = w
       /\ \A b \in {MaxTime, MaxEdits, MaxFaults, MaxTouches, MaxRequests} : b \in Nat
       /\ MaxBytes # None => MaxBytes \in Nat

(* The state's shape: what a name in the video folder may be.  A name of   *)
(* the app's shape has a hash, one of a legacy file a slug of its own.     *)
Shas  == {v.sha : v \in Library}
Slugs == {v.slug : v \in Library}

Names == {n \in [nnn : Nat, slug : Nat, sha : Shas \cup {None}] :
            n.sha = None <=> n.slug \notin Slugs}

(***************************************************************************)
(* The types of the rows (models.py) and of a listing.  A hash stands for  *)
(* the bytes, so one content has one size.  MaxPrefix contents can have a  *)
(* prefix each (assign_prefixes refuses more), and an assignment that ends *)
(* ends after it starts.  A file that somebody else made, under a name     *)
(* with the hash of a video, is not of that size.                          *)
(***************************************************************************)
ASSUME LibraryAssumption ==
       /\ Library \subseteq [id : Nat, slug : Nat \ Unplayable, sha : Int, size : Nat]
       /\ \A v, w \in Library : v.sha = w.sha => v.size = w.size
       /\ {None, Foreign, Broken} \cap Shas = {} /\ Foreign # Broken
       /\ None \notin Names \cup Library
       /\ IsFiniteSet(WantPool)
       /\ WantPool \subseteq [id : Int, video : Library, start : Int, end : Int \cup {None},
                              position : Int, fallback : BOOLEAN]
       /\ \A u, w \in WantPool : u.id = w.id => u = w
       /\ \A w \in WantPool : w.end # None => w.start < w.end
       /\ Cardinality({w.video.sha : w \in WantPool}) <= MaxPrefix

FilesOfOthers ==
  {[name |-> n, file |-> InitialRoot[n]] : n \in DOMAIN InitialRoot} \cup HandFiles

ASSUME FilesAssumption ==
       /\ IsFiniteSet(DOMAIN InitialRoot)
       /\ \A f \in FilesOfOthers :
            /\ f.name \in Names
            /\ f.file \in [size : Nat, mtime : 0 .. MaxTime, isDir : BOOLEAN, data : {Foreign}]
            /\ \A v \in Library : ~ (/\ v.slug = f.name.slug /\ v.sha = f.name.sha
                                    /\ v.size = f.file.size)

VARIABLES
  disk,     (* the Pi: root, staging, stagingExists                            *)
  now,      (* the clock                                                       *)
  wants,    (* the store's assignments                                         *)
  rows,     (* DeviceFile rows of legacy files: what was last seen, and asked  *)
  cycle,    (* the running cycle                                               *)
  left      (* what remains of the bounds                                      *)

vars == <<disk, now, wants, rows, cycle, left>>

-----------------------------------------------------------------------------
(* What a listing shows, and the planner's input.                          *)

Listing(d) ==
  [root    |-> [n \in DOMAIN d.root |-> [size  |-> d.root[n].size,
                                         mtime |-> d.root[n].mtime,
                                         isDir |-> d.root[n].isDir]],
   staging |-> [s \in DOMAIN d.staging |-> [size  |-> d.staging[s].size,
                                            mtime |-> d.staging[s].mtime]],
   stagingExists |-> d.stagingExists]

StoreSnapshot(old, listing) ==
  [n \in Classify(listing, Library).legacy |->
     [seen  |-> listing.root[n],
      asked |-> n \in DOMAIN old /\ old[n].asked /\ old[n].seen = listing.root[n]]]

PlannerInput(listing, files, at) ==
  [now      |-> at,
   remote   |-> listing,
   wants    |-> {w \in wants : w.end = None \/ w.end > at},
   library  |-> Library,
   requests |-> {n \in DOMAIN files : files[n].asked},
   maxBytes |-> MaxBytes]

-----------------------------------------------------------------------------
(* The cycle's state.  step: idle, listed, run, sending (a STOR is under   *)
(* way), confirmed (a legacy deletion was checked), check.  at, listing    *)
(* and seen are what the last plan was made from; touched: a person        *)
(* changed the folder since that listing.                                  *)

Seen(files) == [wants |-> wants, requests |-> {n \in DOMAIN files : files[n].asked}]

Idle(outcome) ==
  [step |-> "idle", outcome |-> outcome, at |-> 0, listing |-> None,
   seen |-> [wants |-> {}, requests |-> {}],
   todo |-> <<>>, failed |-> FALSE, touched |-> FALSE]

Init == /\ disk = [root |-> InitialRoot, staging |-> <<>>, stagingExists |-> FALSE]
        /\ now = 0
        /\ wants = InitialWants
        /\ rows = <<>>
        /\ cycle = Idle("none")
        /\ left = [edits |-> MaxEdits, faults |-> MaxFaults,
                   touches |-> MaxTouches, requests |-> MaxRequests]

ReadRemoteState ==
  /\ cycle.step = "idle"
  /\ cycle' = [Idle("none") EXCEPT !.step = "listed", !.at = now, !.listing = Listing(disk)]
  /\ UNCHANGED <<disk, now, wants, rows, left>>

(* Record the listing and plan, in one transaction.  With nothing to do    *)
(* the store is up to date as of the start of the cycle.                   *)
SnapshotAndPlan ==
  LET files   == StoreSnapshot(rows, cycle.listing)
      actions == Plan(PlannerInput(cycle.listing, files, cycle.at))
  IN  /\ cycle.step = "listed"
      /\ rows' = files
      /\ cycle' = IF actions = <<>>
                    THEN [cycle EXCEPT !.step = "idle", !.outcome = "synced", !.seen = Seen(files)]
                    ELSE [cycle EXCEPT !.step = "run", !.todo = actions, !.seen = Seen(files)]
      /\ UNCHANGED <<disk, now, wants, left>>

-----------------------------------------------------------------------------
(* Execution.  The executor stops at the first action that fails.          *)

Action == Head(cycle.todo)

Running(kinds) == cycle.step = "run" /\ Action.kind \in kinds

Done == cycle' = [cycle EXCEPT !.todo = Tail(@),
                               !.step = IF Len(cycle.todo) = 1 THEN "check" ELSE "run"]

(* Mutant: a failed action does not stop the plan.                         *)
GoOn == cycle' = [cycle EXCEPT !.todo = Tail(@), !.failed = TRUE,
                               !.step = IF Len(cycle.todo) = 1 THEN "check" ELSE "run"]

Stop == cycle' = [cycle EXCEPT !.todo = <<>>, !.step = "check", !.failed = TRUE]

Without(f, x) == Restrict(f, DOMAIN f \ {x})

With(f, x, y) == [z \in DOMAIN f \cup {x} |-> IF z = x THEN y ELSE f[z]]

MakeStagingDir ==
  /\ Running({"mkdir_staging"})
  /\ disk' = [disk EXCEPT !.stagingExists = TRUE]
  /\ Done
  /\ UNCHANGED <<now, wants, rows, left>>

(* STOR truncates the .part and sends into it ...                          *)
StartUpload ==
  /\ Running({"upload"})
  /\ disk' = [disk EXCEPT !.staging =
       With(@, Part(Action.video.sha), [size |-> PartialBytes, mtime |-> now, data |-> Broken])]
  /\ cycle' = [cycle EXCEPT !.step = "sending"]
  /\ UNCHANGED <<now, wants, rows, left>>

(* ... and a file of the right size is renamed, unless its name is taken.  *)
FinishUpload ==
  LET v    == Action.video
      sent == [size |-> v.size, mtime |-> now, data |-> v.sha]
      rest == Without(disk.staging, Part(v.sha))
  IN  /\ cycle.step = "sending"
      /\ IF Action.dst \in DOMAIN disk.staging
           THEN /\ disk' = [disk EXCEPT !.staging = With(rest, Part(v.sha), sent)]
                /\ Stop
           ELSE /\ disk' = [disk EXCEPT !.staging = With(rest, Action.dst, sent)]
                /\ Done
      /\ UNCHANGED <<now, wants, rows, left>>

(* Mutant: the size on the Pi is not checked before the rename.            *)
UploadShortKept ==
  /\ cycle.step = "sending"
  /\ left.faults > 0
  /\ left' = [left EXCEPT !.faults = @ - 1]
  /\ disk' = [disk EXCEPT !.staging =
       With(@, Action.dst, [size |-> PartialBytes, mtime |-> now, data |-> Broken])]
  /\ Done
  /\ UNCHANGED <<now, wants, rows>>

(* The Pi holds fewer bytes than were sent (its disk is full): the .part   *)
(* is deleted and the action fails.                                        *)
UploadShort ==
  /\ cycle.step = "sending"
  /\ left.faults > 0
  /\ left' = [left EXCEPT !.faults = @ - 1]
  /\ disk' = [disk EXCEPT !.staging = Without(@, Part(Action.video.sha))]
  /\ Stop
  /\ UNCHANGED <<now, wants, rows>>

(* Mutant: nobody looks whether the target is free.                        *)
MoveInAnyway ==
  LET from == disk.staging[Action.src]
  IN  /\ Running({"activate"})
      /\ Action.src \in DOMAIN disk.staging
      /\ disk' = [disk EXCEPT
           !.staging = Without(@, Action.src),
           !.root = With(@, Action.dst, [size |-> from.size, mtime |-> from.mtime,
                                         isDir |-> FALSE, data |-> from.data])]
      /\ Done
      /\ UNCHANGED <<now, wants, rows, left>>

(* Renames go ahead only if the source is there and the target is free.    *)
MoveIn ==
  LET from == disk.staging[Action.src]
  IN  /\ Running({"activate"})
      /\ IF Action.dst \in DOMAIN disk.root \/ Action.src \notin DOMAIN disk.staging
           THEN Stop /\ UNCHANGED disk
           ELSE /\ disk' = [disk EXCEPT
                     !.staging = Without(@, Action.src),
                     !.root = With(@, Action.dst, [size |-> from.size, mtime |-> from.mtime,
                                                   isDir |-> FALSE, data |-> from.data])]
                /\ Done
      /\ UNCHANGED <<now, wants, rows, left>>

MoveWithin ==
  /\ Running({"reorder"})
  /\ IF Action.dst \in DOMAIN disk.root \/ Action.src \notin DOMAIN disk.root
       THEN Stop /\ UNCHANGED disk
       ELSE /\ disk' = [disk EXCEPT !.root = With(Without(@, Action.src), Action.dst, @[Action.src])]
            /\ Done
  /\ UNCHANGED <<now, wants, rows, left>>

MoveOut ==
  LET from == disk.root[Action.src]
  IN  /\ Running({"deactivate"})
      /\ IF Action.dst \in DOMAIN disk.staging \/ Action.src \notin DOMAIN disk.root
           THEN Stop /\ UNCHANGED disk
           ELSE /\ disk' = [disk EXCEPT
                     !.root = Without(@, Action.src),
                     !.staging = With(@, Action.dst, [size |-> from.size, mtime |-> from.mtime,
                                                      data |-> from.data])]
                /\ Done
      /\ UNCHANGED <<now, wants, rows, left>>

(* Mutant: the plan's word is taken for it.                                *)
DeleteUnconfirmed ==
  /\ Running({"delete_legacy"})
  /\ cycle' = [cycle EXCEPT !.step = "confirmed"]
  /\ UNCHANGED <<disk, now, wants, rows, left>>

(* Right before a legacy DELE: the request must still stand and the file   *)
(* still have the size the administrator saw.                              *)
ConfirmLegacyDelete ==
  LET n == Action.src
  IN  /\ Running({"delete_legacy"})
      /\ IF /\ n \in DOMAIN rows /\ rows[n].asked
            /\ n \in DOMAIN disk.root /\ disk.root[n].size = rows[n].seen.size
           THEN cycle' = [cycle EXCEPT !.step = "confirmed"]
           ELSE Stop
      /\ UNCHANGED <<disk, now, wants, rows, left>>

DeleteVisible ==
  /\ Running({"delete_active"}) \/ cycle.step = "confirmed"
  /\ IF Action.src \in DOMAIN disk.root
       THEN disk' = [disk EXCEPT !.root = Without(@, Action.src)] /\ Done
       ELSE Stop /\ UNCHANGED disk
  /\ UNCHANGED <<now, wants, rows, left>>

DeleteHidden ==
  /\ Running(StagingDeletes)
  /\ disk' = [disk EXCEPT !.staging = Without(@, Action.src)]
  /\ Done
  /\ UNCHANGED <<now, wants, rows, left>>

(* The folder is read again, even after a failed action, and the store is  *)
(* up to date if nothing is left to do.                                    *)
CheckAfter ==
  LET listing == Listing(disk)
      files   == StoreSnapshot(rows, listing)
      after   == Plan(PlannerInput(listing, files, now))
      outcome == CASE cycle.failed -> "error"
                   [] after = <<>> -> "synced"
                   [] OTHER        -> "pending"
  IN  /\ cycle.step = "check"
      /\ rows' = files
      /\ cycle' = [Idle(outcome) EXCEPT !.at = now, !.seen = Seen(files), !.listing = listing]
      /\ UNCHANGED <<disk, now, wants, left>>

-----------------------------------------------------------------------------
(* Failures.  The Pi refuses an action (or the local file is unusable):    *)
(* nothing changed, but for what was sent of a file, and the plan stops.   *)
(* The link drops, the lease is lost or the worker dies: the cycle is over *)
(* where it stood.                                                         *)

ActionRefused ==
  /\ cycle.step \in {"run", "sending", "confirmed"}
  /\ left.faults > 0
  /\ now + PartBusyWindow <= MaxTime  \* bound: time to retry what was cut short
  /\ left' = [left EXCEPT !.faults = @ - 1]
  /\ Stop
  /\ UNCHANGED <<disk, now, wants, rows>>

CycleLost ==
  /\ cycle.step # "idle"
  /\ left.faults > 0
  /\ now + PartBusyWindow <= MaxTime  \* bound: time to retry what was cut short
  /\ left' = [left EXCEPT !.faults = @ - 1]
  /\ cycle' = Idle("lost")
  /\ UNCHANGED <<disk, now, wants, rows>>

-----------------------------------------------------------------------------
(* Everybody else.                                                         *)

Tick ==
  /\ now < MaxTime
  /\ now' = now + 1
  /\ UNCHANGED <<disk, wants, rows, cycle, left>>

(* A user creates or ends an assignment.                                   *)
EditSchedule(w) ==
  /\ left.edits > 0
  /\ wants' = IF w \in wants THEN wants \ {w} ELSE wants \cup {w}
  /\ left' = [left EXCEPT !.edits = @ - 1]
  /\ UNCHANGED <<disk, now, rows, cycle>>

(* An administrator asks for a legacy file to be deleted, or cancels.      *)
RequestDelete(n) ==
  /\ left.requests > 0
  /\ ~ rows[n].seen.isDir
  /\ rows' = [rows EXCEPT ![n].asked = ~ @]
  /\ left' = [left EXCEPT !.requests = @ - 1]
  /\ UNCHANGED <<disk, now, wants, cycle>>

(* A person copies a file to the folder, or deletes one that is theirs.    *)
CopyByHand(h) ==
  /\ left.touches > 0
  /\ h.name \in DOMAIN disk.root => disk.root[h.name].data = Foreign
  /\ disk' = [disk EXCEPT !.root = With(@, h.name, h.file)]
  /\ cycle' = [cycle EXCEPT !.touched = TRUE]
  /\ left' = [left EXCEPT !.touches = @ - 1]
  /\ UNCHANGED <<now, wants, rows>>

DeleteByHand(n) ==
  /\ left.touches > 0
  /\ disk.root[n].data = Foreign
  /\ disk' = [disk EXCEPT !.root = Without(@, n)]
  /\ cycle' = [cycle EXCEPT !.touched = TRUE]
  /\ left' = [left EXCEPT !.touches = @ - 1]
  /\ UNCHANGED <<now, wants, rows>>

-----------------------------------------------------------------------------
Execute ==
  \/ MakeStagingDir
  \/ StartUpload
  \/ FinishUpload
  \/ MoveIn
  \/ MoveWithin
  \/ MoveOut
  \/ ConfirmLegacyDelete
  \/ DeleteVisible
  \/ DeleteHidden

CycleStep == ReadRemoteState \/ SnapshotAndPlan \/ Execute \/ CheckAfter

Fault == UploadShort \/ ActionRefused \/ CycleLost

People ==
  \/ \E w \in WantPool : EditSchedule(w)
  \/ \E n \in DOMAIN rows : RequestDelete(n)
  \/ \E h \in HandFiles : CopyByHand(h)
  \/ \E n \in DOMAIN disk.root : DeleteByHand(n)

Next == CycleStep \/ Fault \/ Tick \/ People

Spec == Init /\ [][Next]_vars

(* The worker keeps running cycles (APScheduler, every few minutes), each  *)
(* cycle runs to its end, and time passes.  A step of the cycle is always  *)
(* enabled, so this is its weak fairness.                                  *)
FairSpec == Spec /\ []<><<CycleStep>>_vars /\ WF_vars(Tick)
-----------------------------------------------------------------------------
(* The state's shape: names, files and the cycle's fields.                 *)
TypeOK ==
  /\ DOMAIN disk.root \subseteq Names
  /\ \A n \in DOMAIN disk.root :
       disk.root[n] \in [size : Nat, mtime : 0 .. MaxTime, isDir : BOOLEAN,
                         data : Shas \cup {Foreign, Broken}]
  /\ \A n \in DOMAIN disk.root : disk.root[n].data # Foreign => n.nnn \in 1 .. MaxPrefix
  /\ \A s \in DOMAIN disk.staging : disk.staging[s].mtime \in 0 .. now
  /\ disk.staging # <<>> => disk.stagingExists
  /\ now \in 0 .. MaxTime
  /\ wants \subseteq WantPool
  /\ cycle.step \in {"idle", "listed", "run", "sending", "confirmed", "check"}
  /\ cycle.outcome \in {"none", "synced", "pending", "error", "lost"}
  /\ cycle.step \in {"run", "sending", "confirmed"} <=> cycle.todo # <<>>

(***************************************************************************)
(* What the store should show, stated on the schedule alone, and what the  *)
(* disk shows: the contents of the app's visible files in name order.      *)
(***************************************************************************)
Due(ws, at) ==
  LET active  == {w \in ws : IsActive(w, at)}
      regular == {w \in active : ~ w.fallback}
  IN  IF regular # {} THEN regular ELSE active

Contents(ws) == {w.video.sha : w \in ws}

Shown(d) ==
  LET content(n) == d.root[n].data
  IN  Mapped(content, ByName({n \in DOMAIN d.root : d.root[n].data # Foreign}))

FirstWant(ws, sha) ==
  CHOOSE w \in ws : /\ w.video.sha = sha
                    /\ \A u \in ws \ {w} : u.video.sha = sha => OrderBefore(w, u)

Shows(d, ws) ==
  LET s == Shown(d)
  IN  /\ ToSet(s) = Contents(ws)
      /\ Len(s) = Cardinality(Contents(ws))
      /\ \A i, j \in DOMAIN s : i < j => OrderBefore(FirstWant(ws, s[i]), FirstWant(ws, s[j]))

(* The last plan came from an undisturbed listing, and no upload it needs  *)
(* was put off because its .part might still be growing.                   *)
Settled == /\ cycle.outcome = "synced"
           /\ ~ cycle.touched
           /\ BusyContents(cycle.listing, cycle.at) = {}

(* What the player can play: a visible, non-empty file with a name it can  *)
(* open.  A file by hand under a name of the app's may be anything.        *)
Playable(d) == {n \in DOMAIN d.root : /\ ~ d.root[n].isDir
                                      /\ d.root[n].size # 0
                                      /\ n.slug \notin Unplayable
                                      /\ d.root[n].data # Broken
                                      /\ d.root[n].data = Foreign =>
                                           \A v \in Library : v.slug # n.slug \/ v.sha # n.sha}

ByHand == left'.touches # left.touches
-----------------------------------------------------------------------------
(* Once something playable is in the folder, no step of the app - not one  *)
(* action of a plan, not a cycle cut short anywhere - leaves it without    *)
(* (planner.py:9, "keeps the invariants after every action"), as long as   *)
(* nobody takes files away by hand between the listing and the action.     *)
NeverBlack ==
  [][(Playable(disk) # {} /\ ~ cycle'.touched) => Playable(disk') # {}]_vars

(* What the app recognises as its own visible or staged copy of a video    *)
(* (by name and size) is that whole video: an upload that was cut short    *)
(* never becomes visible and never passes for a finished copy.             *)
OnlyWholeVideos ==
  /\ \A n \in DOMAIN disk.root :
       (\E v \in Library : v.slug = n.slug /\ v.sha = n.sha /\ v.size = disk.root[n].size)
         => disk.root[n].data = n.sha
  /\ \A s \in DOMAIN disk.staging : ~ s.part => disk.staging[s].data = s.sha

(* A legacy file leaves the folder only by a deletion of the plan, right   *)
(* after a last look that found an administrator's request for it standing *)
(* and the file of the size it was asked for with - whatever was asked,    *)
(* cancelled or replaced since the listing (README, "Legados").            *)
LegacyOnlyOnRequest ==
  [][/\ \A n \in DOMAIN disk.root \ DOMAIN disk'.root :
          (disk.root[n].data = Foreign /\ ~ ByHand) =>
             cycle.step = "confirmed" /\ n = Action.src
     /\ (cycle.step # "confirmed" /\ cycle'.step = "confirmed") =>
          /\ Action.src \in DOMAIN rows \cap DOMAIN disk.root
          /\ rows[Action.src].asked
          /\ rows[Action.src].seen.size = disk.root[Action.src].size]_vars

(* No upload or rename lands on a file that is already there, visible or   *)
(* staged - whatever was copied there since the listing.                   *)
NothingReplaced ==
  [][~ ByHand =>
       /\ \A n \in DOMAIN disk.root \cap DOMAIN disk'.root : disk'.root[n] = disk.root[n]
       /\ \A s \in DOMAIN disk.staging \cap DOMAIN disk'.staging :
            ~ s.part => disk'.staging[s] = disk.staging[s]]_vars

(* A store reported as up to date shows exactly what is due, each content  *)
(* once, in schedule order (SPEC 6.3); with nothing due it keeps what was  *)
(* there.                                                                  *)
SyncedShowsSchedule ==
  LET due == Due(cycle.seen.wants, cycle.at)
  IN  Settled /\ due # {} => Shows(disk, due)

(* ... and keeps ready, hidden, exactly the fallback and what starts       *)
(* within the lookahead, unless it is on the screen already (SPEC 6.4 and  *)
(* README, "Video de reserva sempre pronto").                              *)
SyncedKeepsReady ==
  LET due   == Due(cycle.seen.wants, cycle.at)
      soon  == {w \in cycle.seen.wants : \/ w.fallback /\ IsActive(w, cycle.at)
                                         \/ w.start \in (cycle.at + 1) .. (cycle.at + Lookahead)}
  IN  Settled /\ due # {} =>
        {s.sha : s \in {t \in DOMAIN disk.staging : ~ t.part}} = Contents(soon) \ Contents(due)

(* A cycle that ran to its end, with nothing else happening meanwhile,     *)
(* leaves nothing to do: the planner does not undo or repeat itself        *)
(* (SPEC 6.6, "idempotencia").                                             *)
OneCycleSettles ==
  (/\ cycle.step = "check"
   /\ ~ cycle.failed /\ ~ cycle.touched
   /\ cycle.seen = Seen(rows) /\ cycle.at = now)
  => Plan(PlannerInput(Listing(disk), StoreSnapshot(rows, Listing(disk)), now)) = <<>>

(* With a limit, the files on the Pi never take more than the limit while  *)
(* a plan runs - or than they took when it was made, if that was more.     *)
WithinCapacity ==
  (cycle.step \in {"run", "sending", "check"} /\ ~ cycle.touched /\ MaxBytes # None)
  => BytesOf(Listing(disk)) <= Max({MaxBytes, BytesOf(cycle.listing)})

(* With a limit, a store reported as up to date leaves out only what does  *)
(* not fit beside what is there, half-sent copies included (README,        *)
(* "Espaco": what has to play now is sent if something goes on playing)... *)
Omitted(ws) == {w.video : w \in {u \in ws : u.video.sha \notin ToSet(Shown(disk))}}

OmitsOnlyWhatDoesNotFit ==
  \A v \in Omitted(Due(cycle.seen.wants, cycle.at)) :
    BytesOf(Listing(disk)) + v.size > MaxBytes

SyncedSendsWhatFits ==
  Settled /\ Playable(disk) # {} => OmitsOnlyWhatDoesNotFit

(* ... at least when what goes on playing is due, or a legacy film nobody  *)
(* asked to delete; and then, of what is due, it shows in schedule order   *)
(* what is there.  A due content that is there under another title only    *)
(* does not count: that file is to go.                                     *)
SyncedOmitsOnlyWhatDoesNotFit ==
  LET due     == Due(cycle.seen.wants, cycle.at)
      there(v) == \E n \in DOMAIN disk.root : n.slug = v.slug /\ disk.root[n].data = v.sha
      showing == {w \in due : there(w.video) /\ w = FirstWant(due, w.video.sha)}
      legacy  == {n \in Playable(disk) : disk.root[n].data = Foreign}
  IN  Settled =>
        /\ showing # {} => Shows(disk, showing)
        /\ showing # {} \/ legacy \ cycle.seen.requests # {} => OmitsOnlyWhatDoesNotFit

(* When the edits and the failures stop, the screen ends up showing what   *)
(* is due, and stays there: whatever was cut short is resumed.             *)
EventuallyShowsSchedule ==
  <>[](Due(wants, now) # {} => Shows(disk, Due(wants, now)))

(* Documented: with a limit, what has to play is sent, before or after the *)
(* removals, if it fits and something goes on playing (README, "Espaco").  *)
(* Once edits and failures stop, what is due and not shown does not fit    *)
(* beside what is there, its own half-sent copy apart, which STOR writes   *)
(* over - at least when every half-sent copy is old enough to be deleted.  *)
Overdue(s) == s.part => now - disk.staging[s].mtime > PartMaxAge

OwnPartBytes(v) == IF Part(v.sha) \in DOMAIN disk.staging THEN disk.staging[Part(v.sha)].size ELSE 0

EventuallySendsWhatFits ==
  <>[]((\A s \in DOMAIN disk.staging : Overdue(s)) =>
         \A v \in Omitted(Due(wants, now)) :
           BytesOf(Listing(disk)) - OwnPartBytes(v) + v.size > MaxBytes)
=============================================================================
