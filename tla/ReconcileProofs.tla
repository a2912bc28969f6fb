--------------------------- MODULE ReconcileProofs ---------------------------
(***************************************************************************)
(* Theorems about the reconciliation cycle, for every library, schedule,   *)
(* folder, limit, fault and hand: nothing is replaced, no unfinished file  *)
(* passes for a video, legacy files go only on request, the screen never   *)
(* goes black, a store that is up to date shows the schedule, the limit is *)
(* kept, and a cycle that ran to its end leaves nothing to do.  They rest  *)
(* on what every plan is like and leaves (PlannerProofs, SettlingProofs),  *)
(* and on what is still to be done of a plan while it runs.                *)
(***************************************************************************)
EXTENDS Reconcile, SettlingProofs

-----------------------------------------------------------------------------
(* The shape of the disk and of the bounds                                 *)

DiskFields == {"root", "staging", "stagingExists"}

Shape == /\ DOMAIN disk = DiskFields
         /\ left \in [edits : Int, faults : Int, touches : Int, requests : Int]

(* Changing fields of the disk leaves the others.                          *)
LEMMA DiskChanged ==
  ASSUME DOMAIN disk = DiskFields, NEW r, NEW s, NEW e
  PROVE  /\ DOMAIN [disk EXCEPT !.root = r] = DiskFields
         /\ [disk EXCEPT !.root = r].root = r
         /\ [disk EXCEPT !.root = r].staging = disk.staging
         /\ [disk EXCEPT !.root = r].stagingExists = disk.stagingExists
         /\ DOMAIN [disk EXCEPT !.staging = s] = DiskFields
         /\ [disk EXCEPT !.staging = s].root = disk.root
         /\ [disk EXCEPT !.staging = s].staging = s
         /\ [disk EXCEPT !.staging = s].stagingExists = disk.stagingExists
         /\ DOMAIN [disk EXCEPT !.stagingExists = e] = DiskFields
         /\ [disk EXCEPT !.stagingExists = e].root = disk.root
         /\ [disk EXCEPT !.stagingExists = e].staging = disk.staging
         /\ [disk EXCEPT !.stagingExists = e].stagingExists = e
         /\ DOMAIN [disk EXCEPT !.staging = s, !.root = r] = DiskFields
         /\ [disk EXCEPT !.staging = s, !.root = r].root = r
         /\ [disk EXCEPT !.staging = s, !.root = r].staging = s
         /\ [disk EXCEPT !.staging = s, !.root = r].stagingExists = disk.stagingExists
         /\ DOMAIN [disk EXCEPT !.root = r, !.staging = s] = DiskFields
         /\ [disk EXCEPT !.root = r, !.staging = s].root = r
         /\ [disk EXCEPT !.root = r, !.staging = s].staging = s
         /\ [disk EXCEPT !.root = r, !.staging = s].stagingExists = disk.stagingExists
  BY DEF DiskFields

(* What NothingReplaced says of a step.                                    *)
Untouched(before, after) == \A x \in DOMAIN before \cap DOMAIN after : after[x] = before[x]

StagedUntouched ==
  \A s \in DOMAIN disk.staging \cap DOMAIN disk'.staging : ~ s.part => disk'.staging[s] = disk.staging[s]

Kept == Untouched(disk.root, disk'.root) /\ StagedUntouched

LEMMA NamesKept ==
  ASSUME NEW f, NEW x, NEW y
  PROVE  /\ x \notin DOMAIN f => Untouched(f, With(f, x, y))
         /\ Untouched(f, Without(f, x))
         /\ Untouched(f, f)
         /\ \A w : x \notin DOMAIN f => Untouched(f, With(Without(f, w), x, y))
<1>1. x \notin DOMAIN f => Untouched(f, With(f, x, y))
  BY DEF Untouched, With
<1>2. Untouched(f, Without(f, x))
  BY DEF Untouched, Without, Restrict
<1>3. Untouched(f, f)
  BY DEF Untouched
<1>4. ASSUME NEW w, x \notin DOMAIN f
      PROVE  Untouched(f, With(Without(f, w), x, y))
  <2>1. ASSUME NEW z \in DOMAIN f, z \in DOMAIN With(Without(f, w), x, y)
        PROVE  With(Without(f, w), x, y)[z] = f[z]
    <3>1. z # x /\ z \in DOMAIN Without(f, w) \cup {x}
      BY <1>4, <2>1 DEF With
    <3>2. z \in DOMAIN f \ {w} /\ Without(f, w)[z] = f[z]
      BY <3>1 DEF Without, Restrict
    <3>3. With(Without(f, w), x, y)[z] = Without(f, w)[z]
      BY <3>1 DEF With
    <3>4. QED BY <3>2, <3>3
  <2>2. QED BY <2>1 DEF Untouched
<1>5. QED BY <1>1, <1>2, <1>3, <1>4

(* A .part is the only thing that is written over.                         *)
LEMMA PartsAside ==
  ASSUME NEW f, NEW sha, NEW y, NEW s \in DOMAIN f, ~ s.part
  PROVE  /\ With(f, Part(sha), y)[s] = f[s]
         /\ Without(f, Part(sha))[s] = f[s]
         /\ s \in DOMAIN Without(f, Part(sha))
<1>1. s # Part(sha)
  BY DEF Part
<1>2. QED BY <1>1 DEF With, Without, Restrict

-----------------------------------------------------------------------------
(* The steps that change the disk                                          *)

LEMMA UploadsKeep ==
  ASSUME Shape, StartUpload \/ FinishUpload \/ UploadShort
  PROVE  DOMAIN disk' = DiskFields /\ Kept
<1> USE DEF Shape
<1>1. CASE StartUpload
  <2> DEFINE sent == [size |-> PartialBytes, mtime |-> now, data |-> Broken]
  <2>1. disk' = [disk EXCEPT !.staging = With(disk.staging, Part(Action.video.sha), sent)]
    BY <1>1 DEF StartUpload
  <2> HIDE DEF sent
  <2>2. /\ DOMAIN disk' = DiskFields /\ disk'.root = disk.root
        /\ disk'.staging = With(disk.staging, Part(Action.video.sha), sent)
    BY <2>1, DiskChanged
  <2>3. QED BY <2>2, PartsAside DEF Kept, Untouched, StagedUntouched
<1>2. CASE FinishUpload
  <2> DEFINE sha == Action.video.sha
             sent == [size |-> Action.video.size, mtime |-> now, data |-> sha]
             rest == Without(disk.staging, Part(sha))
  <2>1. CASE Action.dst \in DOMAIN disk.staging
    <3>1. disk' = [disk EXCEPT !.staging = With(rest, Part(sha), sent)]
      BY <1>2, <2>1 DEF FinishUpload
    <3> HIDE DEF sent, rest
    <3>2. /\ DOMAIN disk' = DiskFields /\ disk'.root = disk.root
          /\ disk'.staging = With(rest, Part(sha), sent)
      BY <3>1, DiskChanged
    <3>3. QED BY <3>2, PartsAside DEF Kept, Untouched, StagedUntouched, rest
  <2>2. CASE Action.dst \notin DOMAIN disk.staging
    <3>1. disk' = [disk EXCEPT !.staging = With(rest, Action.dst, sent)]
      BY <1>2, <2>2 DEF FinishUpload
    <3> HIDE DEF sent, rest
    <3>2. /\ DOMAIN disk' = DiskFields /\ disk'.root = disk.root
          /\ disk'.staging = With(rest, Action.dst, sent)
      BY <3>1, DiskChanged
    <3>3. ASSUME NEW s \in DOMAIN disk.staging, ~ s.part
          PROVE  disk'.staging[s] = disk.staging[s]
      <4>1. s \in DOMAIN rest /\ rest[s] = disk.staging[s]
        BY <3>3, PartsAside DEF rest
      <4>2. s # Action.dst
        BY <2>2
      <4>3. QED BY <3>2, <4>1, <4>2 DEF With
    <3>4. QED BY <3>2, <3>3 DEF Kept, Untouched, StagedUntouched
  <2>3. QED BY <2>1, <2>2
<1>3. CASE UploadShort
  <2>1. disk' = [disk EXCEPT !.staging = Without(disk.staging, Part(Action.video.sha))]
    BY <1>3 DEF UploadShort
  <2>2. /\ DOMAIN disk' = DiskFields /\ disk'.root = disk.root
        /\ disk'.staging = Without(disk.staging, Part(Action.video.sha))
    BY <2>1, DiskChanged
  <2>3. QED BY <2>2, PartsAside DEF Kept, Untouched, StagedUntouched
<1>4. QED BY <1>1, <1>2, <1>3

(* The renames look whether the target is free.                            *)
LEMMA RenamesKeep ==
  ASSUME Shape, MoveIn \/ MoveWithin \/ MoveOut
  PROVE  DOMAIN disk' = DiskFields /\ Kept
<1> USE DEF Shape
<1>1. Untouched(disk.staging, disk'.staging) => StagedUntouched
  BY DEF Untouched, StagedUntouched
<1>2. CASE UNCHANGED disk
  BY <1>2 DEF Kept, Untouched, StagedUntouched
<1>3. ASSUME MoveIn, disk' # disk PROVE DOMAIN disk' = DiskFields /\ Kept
  <2> DEFINE from == disk.staging[Action.src]
             file == [size |-> from.size, mtime |-> from.mtime, isDir |-> FALSE, data |-> from.data]
  <2>1. /\ Action.dst \notin DOMAIN disk.root
        /\ disk' = [disk EXCEPT !.staging = Without(disk.staging, Action.src),
                                !.root = With(disk.root, Action.dst, file)]
    BY <1>3 DEF MoveIn
  <2> HIDE DEF file
  <2>2. /\ DOMAIN disk' = DiskFields
        /\ disk'.staging = Without(disk.staging, Action.src)
        /\ disk'.root = With(disk.root, Action.dst, file)
    BY <2>1, DiskChanged
  <2>3. Untouched(disk.root, disk'.root)
    BY <2>1, <2>2, NamesKept
  <2>4. Untouched(disk.staging, disk'.staging)
    BY <2>2, NamesKept
  <2>5. QED BY <1>1, <2>2, <2>3, <2>4 DEF Kept
<1>4. ASSUME MoveWithin, disk' # disk PROVE DOMAIN disk' = DiskFields /\ Kept
  <2>1. /\ Action.dst \notin DOMAIN disk.root
        /\ disk' = [disk EXCEPT !.root = With(Without(disk.root, Action.src), Action.dst,
                                              disk.root[Action.src])]
    BY <1>4 DEF MoveWithin
  <2>2. /\ DOMAIN disk' = DiskFields
        /\ disk'.staging = disk.staging
        /\ disk'.root = With(Without(disk.root, Action.src), Action.dst, disk.root[Action.src])
    BY <2>1, DiskChanged
  <2>3. Untouched(disk.root, disk'.root)
    <3> DEFINE f == disk.root
               file == disk.root[Action.src]
    <3>1. Untouched(f, With(Without(f, Action.src), Action.dst, file))
      <4> HIDE DEF f, file
      <4>1. Action.dst \notin DOMAIN f
        BY <2>1 DEF f
      <4>2. QED BY <4>1, NamesKept
    <3>2. QED BY <2>2, <3>1
  <2>4. Untouched(disk.staging, disk'.staging)
    BY <2>2, NamesKept
  <2>5. QED BY <1>1, <2>2, <2>3, <2>4 DEF Kept
<1>5. ASSUME MoveOut, disk' # disk PROVE DOMAIN disk' = DiskFields /\ Kept
  <2> DEFINE from == disk.root[Action.src]
             file == [size |-> from.size, mtime |-> from.mtime, data |-> from.data]
  <2>1. /\ Action.dst \notin DOMAIN disk.staging
        /\ disk' = [disk EXCEPT !.root = Without(disk.root, Action.src),
                                !.staging = With(disk.staging, Action.dst, file)]
    BY <1>5 DEF MoveOut
  <2> HIDE DEF file
  <2>2. /\ DOMAIN disk' = DiskFields
        /\ disk'.root = Without(disk.root, Action.src)
        /\ disk'.staging = With(disk.staging, Action.dst, file)
    BY <2>1, DiskChanged
  <2>3. Untouched(disk.root, disk'.root)
    BY <2>2, NamesKept
  <2>4. Untouched(disk.staging, disk'.staging)
    BY <2>1, <2>2, NamesKept
  <2>5. QED BY <1>1, <2>2, <2>3, <2>4 DEF Kept
<1>6. QED BY <1>2, <1>3, <1>4, <1>5

(* Deletions, by the app or by hand, and the staging folder's creation.    *)
LEMMA DeletionsKeep ==
  ASSUME Shape,
         \/ MakeStagingDir
         \/ DeleteVisible
         \/ DeleteHidden
         \/ \E n \in DOMAIN disk.root : DeleteByHand(n)
  PROVE  DOMAIN disk' = DiskFields /\ Kept
<1> USE DEF Shape
<1>1. ASSUME NEW x, \/ disk' = [disk EXCEPT !.root = Without(disk.root, x)]
                    \/ disk' = [disk EXCEPT !.staging = Without(disk.staging, x)]
                    \/ disk' = [disk EXCEPT !.stagingExists = TRUE]
                    \/ disk' = disk
      PROVE  DOMAIN disk' = DiskFields /\ Kept
  <2>1. CASE disk' = [disk EXCEPT !.root = Without(disk.root, x)]
    <3>1. /\ DOMAIN disk' = DiskFields /\ disk'.staging = disk.staging
          /\ disk'.root = Without(disk.root, x)
      BY <2>1, DiskChanged
    <3>2. Untouched(disk.root, disk'.root) /\ Untouched(disk.staging, disk'.staging)
      BY <3>1, NamesKept
    <3>3. QED BY <3>1, <3>2 DEF Kept, Untouched, StagedUntouched
  <2>2. CASE disk' = [disk EXCEPT !.staging = Without(disk.staging, x)]
    <3>1. /\ DOMAIN disk' = DiskFields /\ disk'.root = disk.root
          /\ disk'.staging = Without(disk.staging, x)
      BY <2>2, DiskChanged
    <3>2. Untouched(disk.root, disk'.root) /\ Untouched(disk.staging, disk'.staging)
      BY <3>1, NamesKept
    <3>3. QED BY <3>1, <3>2 DEF Kept, Untouched, StagedUntouched
  <2>3. CASE disk' = [disk EXCEPT !.stagingExists = TRUE] \/ disk' = disk
    <3>1. DOMAIN disk' = DiskFields /\ disk'.root = disk.root /\ disk'.staging = disk.staging
      BY <2>3 DEF DiskFields
    <3>2. QED BY <3>1 DEF Kept, Untouched, StagedUntouched
  <2>4. QED BY <1>1, <2>1, <2>2, <2>3
<1>2. \E x : \/ disk' = [disk EXCEPT !.root = Without(disk.root, x)]
             \/ disk' = [disk EXCEPT !.staging = Without(disk.staging, x)]
             \/ disk' = [disk EXCEPT !.stagingExists = TRUE]
             \/ disk' = disk
  BY DEF MakeStagingDir, DeleteVisible, DeleteHidden, DeleteByHand
<1>3. QED BY <1>1, <1>2

(* A copy by hand may replace a file, and counts as one.                   *)
LEMMA CopiesShow ==
  ASSUME Shape, NEW h \in HandFiles, CopyByHand(h)
  PROVE  DOMAIN disk' = DiskFields /\ ByHand
<1> USE DEF Shape
<1>1. disk' = [disk EXCEPT !.root = With(disk.root, h.name, h.file)]
  BY DEF CopyByHand
<1>2. left'.touches = left.touches - 1 /\ left.touches \in Int
  BY DEF CopyByHand
<1>3. QED BY <1>1, <1>2, DiskChanged DEF ByHand

-----------------------------------------------------------------------------
(* The bounds only go down.                                                *)
LEMMA BoundsStay ==
  ASSUME Shape, Next
  PROVE  left' \in [edits : Int, faults : Int, touches : Int, requests : Int]
<1> USE DEF Shape
<1>1. \/ left' = left
      \/ left' = [left EXCEPT !.edits = left.edits - 1]
      \/ left' = [left EXCEPT !.faults = left.faults - 1]
      \/ left' = [left EXCEPT !.touches = left.touches - 1]
      \/ left' = [left EXCEPT !.requests = left.requests - 1]
  BY DEF Next, CycleStep, Execute, ReadRemoteState, SnapshotAndPlan, CheckAfter, MakeStagingDir,
         StartUpload, FinishUpload, MoveIn, MoveWithin, MoveOut, ConfirmLegacyDelete, DeleteVisible,
         DeleteHidden, Fault, UploadShort, ActionRefused, CycleLost, Tick, People, EditSchedule,
         RequestDelete, CopyByHand, DeleteByHand
<1>2. QED BY <1>1

LEMMA StepKeeps == Shape /\ [Next]_vars => Shape' /\ (~ ByHand => Kept)
<1> SUFFICES ASSUME Shape, [Next]_vars PROVE Shape' /\ (~ ByHand => Kept)
  OBVIOUS
<1>1. ASSUME disk' = disk PROVE DOMAIN disk' = DiskFields /\ Kept
  BY <1>1 DEF Shape, Kept, Untouched, StagedUntouched
<1>2. CASE UNCHANGED vars
  BY <1>1, <1>2 DEF vars, Shape
<1>3. CASE Next
  <2>1. ASSUME CycleStep PROVE DOMAIN disk' = DiskFields /\ Kept
    <3>1. CASE ReadRemoteState \/ SnapshotAndPlan \/ CheckAfter \/ ConfirmLegacyDelete
      BY <1>1, <3>1 DEF ReadRemoteState, SnapshotAndPlan, CheckAfter, ConfirmLegacyDelete
    <3>2. QED BY <2>1, <3>1, UploadsKeep, RenamesKeep, DeletionsKeep DEF CycleStep, Execute
  <2>2. ASSUME Fault \/ Tick PROVE DOMAIN disk' = DiskFields /\ Kept
    <3>1. CASE ActionRefused \/ CycleLost \/ Tick
      BY <1>1, <3>1 DEF ActionRefused, CycleLost, Tick
    <3>2. QED BY <2>2, <3>1, UploadsKeep DEF Fault
  <2>3. ASSUME People PROVE DOMAIN disk' = DiskFields /\ (~ ByHand => Kept)
    <3>1. ASSUME \/ \E w \in WantPool : EditSchedule(w)
                 \/ \E n \in DOMAIN rows : RequestDelete(n)
          PROVE  disk' = disk
      BY <3>1 DEF EditSchedule, RequestDelete
    <3>2. QED BY <1>1, <2>3, <3>1, CopiesShow, DeletionsKeep DEF People
  <2>4. QED BY <1>3, <2>1, <2>2, <2>3, BoundsStay DEF Next, Shape
<1>4. QED BY <1>2, <1>3

LEMMA InitShape == Init => Shape
  BY ReconcileAssumption DEF Init, Shape, DiskFields

(* No upload and no rename lands on a file that is already there, visible  *)
(* or staged: executor.py looks at the target before every rename, so it   *)
(* holds of any plan, also one made from a listing that no longer holds.   *)
THEOREM NothingIsReplaced == Spec => NothingReplaced
<1>1. Kept => /\ \A n \in DOMAIN disk.root \cap DOMAIN disk'.root : disk'.root[n] = disk.root[n]
              /\ \A s \in DOMAIN disk.staging \cap DOMAIN disk'.staging :
                   ~ s.part => disk'.staging[s] = disk.staging[s]
  BY DEF Kept, Untouched, StagedUntouched
<1>2. QED BY <1>1, InitShape, StepKeeps, PTL DEF Spec, NothingReplaced

-----------------------------------------------------------------------------
(* Files, visible and staged                                               *)

SizeMatches(v, n, f) == v.slug = n.slug /\ v.sha = n.sha /\ v.size = f.size

(* A file of the app's is a whole video under its own name; a file of      *)
(* somebody else does not look like one.                                   *)
FileOK(n, f, at) ==
  /\ f \in [size : Nat, mtime : 0 .. MaxTime, isDir : BOOLEAN, data : Shas \cup {Foreign}]
  /\ f.data = Foreign => \A v \in Library : ~ SizeMatches(v, n, f)
  /\ f.data # Foreign => /\ f.data = n.sha
                         /\ \E v \in Library : SizeMatches(v, n, f)
                         /\ n.nnn \in 1 .. MaxPrefix
                         /\ ~ f.isDir
                         /\ f.mtime <= at

FilesOK(root, at) ==
  /\ IsFiniteSet(DOMAIN root)
  /\ DOMAIN root \subseteq Names
  /\ \A n \in DOMAIN root : FileOK(n, root[n], at)

IsAFunction(f) == f = [x \in DOMAIN f |-> f[x]]

StagedNames == [sha : Shas, part : BOOLEAN]

StagedFileOK(s, f, at) ==
  /\ f.mtime \in 0 .. at
  /\ ~ s.part => f.data = s.sha /\ \E v \in Library : v.sha = s.sha /\ v.size = f.size

StagedOK(staging, at) ==
  /\ IsFiniteSet(DOMAIN staging)
  /\ DOMAIN staging \subseteq StagedNames
  /\ IsAFunction(staging)
  /\ \A s \in DOMAIN staging : StagedFileOK(s, staging[s], at)

DiskOK ==
  /\ DOMAIN disk = DiskFields
  /\ now \in 0 .. MaxTime
  /\ FilesOK(disk.root, now)
  /\ StagedOK(disk.staging, now)
  /\ disk.stagingExists \in BOOLEAN
  /\ DOMAIN disk.staging # {} => disk.stagingExists

(* What the player can play, and what is the app's own.                    *)
PlayableFile(n, f) ==
  /\ ~ f.isDir /\ f.size # 0 /\ n.slug \notin Unplayable /\ f.data # Broken
  /\ f.data = Foreign => \A v \in Library : v.slug # n.slug \/ v.sha # n.sha

PlayableNames(root) == {n \in DOMAIN root : PlayableFile(n, root[n])}

OwnNames(root) == {n \in DOMAIN root : root[n].data # Foreign}

-----------------------------------------------------------------------------
(* What is still to be done of a plan                                      *)

ActionOK(a) ==
  \/ a.kind \in StagingDeletes \cup {"mkdir_staging", "delete_active", "delete_legacy"}
  \/ a.kind = "upload" /\ a.video \in Library /\ a.dst = Staged(a.video.sha)
  \/ /\ a.kind = "activate" /\ a.video \in Library /\ a.src = Staged(a.video.sha)
     /\ \E p \in 1 .. MaxPrefix : a.dst = ActiveName(p, a.video)
  \/ /\ a.kind = "reorder"
     /\ \E v \in Library : /\ v.slug = a.src.slug /\ v.sha = a.src.sha
                           /\ \E p \in 1 .. MaxPrefix : a.dst = ActiveName(p, v)
  \/ a.kind = "deactivate" /\ a.dst = Staged(a.src.sha)

(* Its actions are of the right form and take files of the app's, but for  *)
(* the legacy deletions; and while nobody else touches the folder, another *)
(* film is there whenever one is taken away.                               *)
TodoOK(s, root, exists, touched) ==
  /\ \A i \in 1 .. Len(s) : ActionOK(s[i])
  /\ TakesApart(s)
  /\ \A i \in 1 .. Len(s) : s[i].kind \in Takes \ {"delete_legacy"} => s[i].src \in OwnNames(root)
  /\ StagingFirst(s, exists)
  /\ ~ touched => Guarded(s, PlayableNames(root))

(* What a cycle that has listed the folder knows of it.                    *)
Owned(l) == {n \in DOMAIN l.root : \E v \in Library : Matches(v, n, l.root)}

ListedOK(l, touched) ==
  /\ IsFiniteSet(DOMAIN l.root) /\ DOMAIN l.root \subseteq Names
  /\ IsFiniteSet(DOMAIN l.staging) /\ DOMAIN l.staging \subseteq StagedNames
  /\ l.stagingExists \in BOOLEAN
  /\ Owned(l) \subseteq OwnNames(disk.root)
  /\ l.stagingExists => disk.stagingExists
  /\ ~ touched => l = Listing(disk)

CycleFields == {"step", "outcome", "at", "listing", "seen", "todo", "failed", "touched"}

CycleOK ==
  /\ DOMAIN cycle = CycleFields
  /\ cycle.step \in {"idle", "listed", "run", "sending", "confirmed", "check"}
  /\ cycle.outcome \in {"none", "synced", "pending", "error", "lost"}
  /\ \E T : cycle.todo \in Seq(T)
  /\ cycle.step \in {"run", "sending", "confirmed"} <=> cycle.todo # <<>>
  /\ cycle.step = "sending" => Action.kind = "upload"
  /\ cycle.step = "confirmed" => Action.kind = "delete_legacy"

Inv ==
  /\ DiskOK
  /\ wants \subseteq WantPool
  /\ CycleOK
  /\ cycle.step = "listed" => ListedOK(cycle.listing, cycle.touched)
  /\ TodoOK(cycle.todo, disk.root, disk.stagingExists, cycle.touched)

-----------------------------------------------------------------------------
(* Files that come and go                                                  *)

LEMMA WithIs ==
  ASSUME NEW f, NEW x, NEW y
  PROVE  /\ DOMAIN With(f, x, y) = DOMAIN f \cup {x}
         /\ With(f, x, y)[x] = y
         /\ \A z \in DOMAIN f : z # x => With(f, x, y)[z] = f[z]
         /\ IsAFunction(With(f, x, y))
BY DEF With, IsAFunction

LEMMA WithoutIs ==
  ASSUME NEW f, NEW x
  PROVE  /\ DOMAIN Without(f, x) = DOMAIN f \ {x}
         /\ \A z \in DOMAIN f : z # x => Without(f, x)[z] = f[z]
         /\ IsAFunction(Without(f, x))
BY DEF Without, Restrict, IsAFunction

LEMMA FileAdded ==
  ASSUME NEW root, NEW at, FilesOK(root, at), NEW x \in Names, NEW y, FileOK(x, y, at)
  PROVE  FilesOK(With(root, x, y), at)
<1> DEFINE w == With(root, x, y)
<1>1. /\ DOMAIN w = DOMAIN root \cup {x} /\ w[x] = y
      /\ \A z \in DOMAIN root : z # x => w[z] = root[z]
  BY DEF With
<1> HIDE DEF w
<1>2. IsFiniteSet(DOMAIN w)
  BY <1>1, FS_AddElement DEF FilesOK
<1>3. \A n \in DOMAIN w : FileOK(n, w[n], at)
  BY <1>1 DEF FilesOK
<1>4. QED BY <1>1, <1>2, <1>3 DEF FilesOK, w

LEMMA FileRemoved ==
  ASSUME NEW root, NEW at, FilesOK(root, at), NEW x
  PROVE  FilesOK(Without(root, x), at)
<1> DEFINE w == Without(root, x)
<1>1. DOMAIN w = DOMAIN root \ {x} /\ \A z \in DOMAIN root : z # x => w[z] = root[z]
  BY WithoutIs
<1> HIDE DEF w
<1>2. DOMAIN w \in SUBSET DOMAIN root
  BY <1>1
<1>3. IsFiniteSet(DOMAIN w)
  BY <1>2, FS_Subset DEF FilesOK
<1>4. \A n \in DOMAIN w : FileOK(n, w[n], at)
  BY <1>1 DEF FilesOK
<1>5. QED BY <1>2, <1>3, <1>4 DEF FilesOK, w

LEMMA StagedAdded ==
  ASSUME NEW staging, NEW at, StagedOK(staging, at), NEW x \in StagedNames, NEW y, StagedFileOK(x, y, at)
  PROVE  StagedOK(With(staging, x, y), at)
<1> DEFINE w == With(staging, x, y)
<1>1. /\ DOMAIN w = DOMAIN staging \cup {x} /\ w[x] = y
      /\ \A z \in DOMAIN staging : z # x => w[z] = staging[z]
  BY DEF With
<1>2. IsAFunction(w)
  BY WithIs
<1> HIDE DEF w
<1>3. IsFiniteSet(DOMAIN w)
  BY <1>1, FS_AddElement DEF StagedOK
<1>4. \A s \in DOMAIN w : StagedFileOK(s, w[s], at)
  BY <1>1 DEF StagedOK
<1>5. DOMAIN w \subseteq StagedNames
  BY <1>1 DEF StagedOK
<1>6. QED BY <1>2, <1>1, <1>3, <1>4, <1>5 DEF StagedOK, w

LEMMA StagedRemoved ==
  ASSUME NEW staging, NEW at, StagedOK(staging, at), NEW x
  PROVE  StagedOK(Without(staging, x), at)
<1> DEFINE w == Without(staging, x)
<1>1. /\ DOMAIN w = DOMAIN staging \ {x}
      /\ \A z \in DOMAIN staging : z # x => w[z] = staging[z]
  BY WithoutIs
<1>2. IsAFunction(w)
  BY WithoutIs
<1> HIDE DEF w
<1>3. DOMAIN w \in SUBSET DOMAIN staging
  BY <1>1
<1>4. IsFiniteSet(DOMAIN w)
  BY <1>3, FS_Subset DEF StagedOK
<1>5. \A s \in DOMAIN w : StagedFileOK(s, w[s], at)
  BY <1>1 DEF StagedOK
<1>6. DOMAIN w \subseteq StagedNames
  BY <1>3 DEF StagedOK
<1>7. QED BY <1>2, <1>1, <1>4, <1>5, <1>6 DEF StagedOK, w

(* What holds of the files goes on holding as time passes.                 *)
LEMMA LaterOn ==
  ASSUME NEW root, NEW staging, NEW at \in Nat, FilesOK(root, at), StagedOK(staging, at)
  PROVE  FilesOK(root, at + 1) /\ StagedOK(staging, at + 1)
<1>1. ASSUME NEW n \in DOMAIN root PROVE FileOK(n, root[n], at + 1)
  <2> DEFINE f == root[n]
  <2>1. FileOK(n, f, at)
    BY DEF FilesOK
  <2> HIDE DEF f
  <2>2. f.data # Foreign => f.mtime \in Int /\ f.mtime <= at
    BY <2>1 DEF FileOK
  <2>3. f.data # Foreign => f.mtime <= at + 1
    BY <2>2
  <2>4. QED BY <2>1, <2>3 DEF FileOK, f
<1>2. ASSUME NEW s \in DOMAIN staging PROVE StagedFileOK(s, staging[s], at + 1)
  <2> DEFINE f == staging[s]
  <2>1. StagedFileOK(s, f, at)
    BY DEF StagedOK
  <2> HIDE DEF f
  <2>2. f.mtime \in 0 .. at + 1
    BY <2>1 DEF StagedFileOK
  <2>3. QED BY <2>1, <2>2 DEF StagedFileOK, f
<1>3. QED BY <1>1, <1>2 DEF FilesOK, StagedOK

(* The app's own files can be played.                                      *)
LEMMA OwnIsPlayable ==
  ASSUME NEW n, NEW f, NEW at, FileOK(n, f, at), f.data # Foreign
  PROVE  PlayableFile(n, f)
<1>1. PICK v \in Library : SizeMatches(v, n, f)
  BY DEF FileOK
<1>2. v.size > PartialBytes /\ v.size \in Nat /\ v.slug \notin Unplayable /\ v.sha \in Shas
  BY ReconcileAssumption, LibraryAssumption DEF Shas
<1>3. f.size # 0 /\ n.slug \notin Unplayable
  BY <1>1, <1>2 DEF SizeMatches, PartialBytes
<1>4. f.data \in Shas /\ f.data # Broken
  BY LibraryAssumption DEF FileOK
<1>5. QED BY <1>3, <1>4 DEF FileOK, PlayableFile

LEMMA PlayableIs == \A d : Playable(d) = PlayableNames(d.root)
BY DEF Playable, PlayableNames, PlayableFile

-----------------------------------------------------------------------------
(* What is still to be done, as the folder changes                         *)

LEMMA FirstOf ==
  ASSUME NEW T, NEW s \in Seq(T), s # <<>>
  PROVE  /\ Len(s) \in Nat /\ Len(s) >= 1 /\ Head(s) = s[1]
         /\ Tail(s) \in Seq(T) /\ Len(Tail(s)) = Len(s) - 1
         /\ \A i \in 1 .. Len(Tail(s)) : i + 1 \in 1 .. Len(s) /\ Tail(s)[i] = s[i + 1]
         /\ Tail(s) = <<>> <=> Len(s) = 1
<1>1. Len(s) \in Nat /\ Len(s) >= 1 /\ Head(s) = s[1] /\ Tail(s) \in Seq(T) /\ Len(Tail(s)) = Len(s) - 1
  OBVIOUS
<1>2. \A i \in 1 .. Len(Tail(s)) : i + 1 \in 1 .. Len(s) /\ Tail(s)[i] = s[i + 1]
  <2>1. \A i \in 1 .. Len(s) - 1 : Tail(s)[i] = s[i + 1]
    OBVIOUS
  <2>2. \A i \in 1 .. Len(s) - 1 : i + 1 \in 1 .. Len(s)
    <3> DEFINE n == Len(s)
    <3>1. n \in Nat
      OBVIOUS
    <3> HIDE DEF n
    <3>2. \A i \in 1 .. n - 1 : i + 1 \in 1 .. n
      BY <3>1
    <3>3. QED BY <3>2 DEF n
  <2>3. QED BY <1>1, <2>1, <2>2
<1>3. Tail(s) = <<>> <=> Len(s) = 1
  <2> DEFINE u == Tail(s)
             n == Len(s)
  <2>1. u \in Seq(T) /\ Len(u) = n - 1 /\ n \in Nat
    BY <1>1
  <2> HIDE DEF u, n
  <2>2. u = <<>> <=> Len(u) = 0
    BY <2>1
  <2>3. QED BY <2>1, <2>2 DEF u, n
<1>4. QED BY <1>1, <1>2, <1>3

LEMMA TodoEmpty ==
  ASSUME NEW root, NEW exists, NEW touched
  PROVE  TodoOK(<<>>, root, exists, touched)
<1>1. 1 .. Len(<<>>) = {}
  OBVIOUS
<1>2. QED BY <1>1 DEF TodoOK, TakesApart, StagingFirst, Guarded

(* Nothing that the plan is about was taken away.                          *)
LEMMA TodoSame ==
  ASSUME NEW s, NEW root, NEW exists, NEW touched, TodoOK(s, root, exists, touched),
         NEW root2, NEW exists2, NEW touched2,
         OwnNames(root) \subseteq OwnNames(root2), exists => exists2,
         ~ touched2 => ~ touched /\ PlayableNames(root) \subseteq PlayableNames(root2)
  PROVE  TodoOK(s, root2, exists2, touched2)
<1>1. ASSUME ~ touched2 PROVE Guarded(s, PlayableNames(root2))
  <2>1. Guarded(s, PlayableNames(root)) /\ PlayableNames(root) \subseteq PlayableNames(root2)
    BY <1>1 DEF TodoOK
  <2>2. QED BY <2>1 DEF Guarded, StillThere
<1>2. StagingFirst(s, exists2)
  BY DEF TodoOK, StagingFirst
<1>3. QED BY <1>1, <1>2 DEF TodoOK

(* The first action of a plan is done.                                     *)
LEMMA TodoTail ==
  ASSUME NEW T, NEW s \in Seq(T), s # <<>>,
         NEW root, NEW exists, NEW touched, TodoOK(s, root, exists, touched),
         NEW root2, NEW exists2, NEW touched2,
         \A n \in OwnNames(root) : (Head(s).kind \in Takes => n # Head(s).src) => n \in OwnNames(root2),
         exists \/ Head(s).kind = "mkdir_staging" => exists2,
         ~ touched2 =>
           /\ ~ touched
           /\ \A n \in PlayableNames(root) :
                (Head(s).kind \in Takes => n # Head(s).src) => n \in PlayableNames(root2)
           /\ Head(s).kind \in Puts => Head(s).dst \in PlayableNames(root2)
  PROVE  TodoOK(Tail(s), root2, exists2, touched2)
<1> DEFINE t == Tail(s)
           h == Head(s)
           n == Len(s)
           m == Len(t)
<1>1. /\ n \in Nat /\ n >= 1 /\ h = s[1] /\ m = n - 1 /\ m \in Nat
      /\ \A i \in 1 .. m : i + 1 \in 1 .. n /\ t[i] = s[i + 1]
  BY FirstOf
<1>2. /\ \A i \in 1 .. n : ActionOK(s[i])
      /\ \A i, j \in 1 .. n :
           s[i].kind \in Takes /\ s[j].kind \in Takes /\ s[i].src = s[j].src => i = j
      /\ \A i \in 1 .. n : s[i].kind \in Takes \ {"delete_legacy"} => s[i].src \in OwnNames(root)
  BY DEF TodoOK, TakesApart
<1>3. /\ exists \/ h.kind = "mkdir_staging" => exists2
      /\ \A x \in OwnNames(root) : (h.kind \in Takes => x # h.src) => x \in OwnNames(root2)
      /\ ~ touched2 =>
           /\ ~ touched
           /\ \A x \in PlayableNames(root) : (h.kind \in Takes => x # h.src) => x \in PlayableNames(root2)
           /\ h.kind \in Puts => h.dst \in PlayableNames(root2)
  OBVIOUS
<1>4. StagingFirst(s, exists) /\ (~ touched => Guarded(s, PlayableNames(root)))
  BY DEF TodoOK
<1> HIDE DEF t, h, n, m
<1>5. ASSUME NEW i \in 1 .. m PROVE ActionOK(t[i])
  BY <1>1, <1>2, <1>5
<1>6. ASSUME NEW i \in 1 .. m, NEW j \in 1 .. m,
             t[i].kind \in Takes, t[j].kind \in Takes, t[i].src = t[j].src
      PROVE  i = j
  <2>1. i + 1 = j + 1
    BY <1>1, <1>2, <1>6
  <2>2. QED BY <1>1, <2>1
<1>7. ASSUME NEW i \in 1 .. m, t[i].kind \in Takes \ {"delete_legacy"}
      PROVE  t[i].src \in OwnNames(root2)
  <2>1. i + 1 \in 1 .. n /\ t[i] = s[i + 1] /\ i + 1 # 1 /\ 1 \in 1 .. n
    BY <1>1
  <2>2. t[i].src \in OwnNames(root)
    BY <1>2, <1>7, <2>1
  <2>3. h.kind \in Takes => t[i].src # h.src
    BY <1>1, <1>2, <1>7, <2>1
  <2>4. QED BY <1>3, <2>2, <2>3
<1>8. StagingFirst(t, exists2)
  <2>1. ASSUME ~ exists2, NEW i \in 1 .. m, t[i].kind \in Staging
        PROVE  \E j \in 1 .. i - 1 : t[j].kind = "mkdir_staging"
    <3>1. i + 1 \in 1 .. n /\ t[i] = s[i + 1] /\ ~ exists /\ h.kind # "mkdir_staging"
      BY <1>1, <1>3, <2>1
    <3>2. PICK j \in 1 .. (i + 1) - 1 : s[j].kind = "mkdir_staging"
      BY <1>4, <2>1, <3>1 DEF StagingFirst, n
    <3>3. j # 1
      BY <1>1, <3>1, <3>2
    <3>4. j - 1 \in 1 .. i - 1 /\ j - 1 \in 1 .. m /\ (j - 1) + 1 = j
      BY <1>1, <3>3
    <3>5. t[j - 1] = s[j]
      BY <1>1, <3>4
    <3>6. QED BY <3>2, <3>4, <3>5
  <2>2. QED BY <2>1 DEF StagingFirst, m
<1>9. ASSUME ~ touched2 PROVE Guarded(t, PlayableNames(root2))
  <2>1. Guarded(s, PlayableNames(root))
    BY <1>3, <1>4, <1>9
  <2>2. ASSUME NEW y, NEW i \in 1 .. m, NEW b \in 1 .. i + 1, b # 1, LeftAlone(s, y, b, i + 1)
        PROVE  LeftAlone(t, y, b - 1, i)
    <3>1. ASSUME NEW l \in b - 1 .. i, t[l].kind \in Takes PROVE t[l].src # y
      <4>1. l \in 1 .. m /\ l + 1 \in b .. i + 1
        BY <1>1, <2>2
      <4>2. t[l] = s[l + 1]
        BY <1>1, <4>1
      <4>3. QED BY <2>2, <3>1, <4>1, <4>2 DEF LeftAlone
    <3>2. QED BY <3>1 DEF LeftAlone
  <2>3. ASSUME NEW y, NEW i \in 1 .. m, LeftAlone(s, y, 1, i + 1)
        PROVE  LeftAlone(t, y, 1, i) /\ (h.kind \in Takes => y # h.src)
    <3>1. 2 \in 1 .. i + 1 /\ 1 \in 1 .. i + 1 /\ 2 - 1 = 1
      BY <1>1
    <3>2. LeftAlone(s, y, 2, i + 1)
      BY <1>1, <2>3 DEF LeftAlone
    <3>3. LeftAlone(t, y, 2 - 1, i)
      BY <2>2, <3>1, <3>2
    <3>4. h.kind \in Takes => y # h.src
      BY <1>1, <2>3, <3>1 DEF LeftAlone
    <3>5. QED BY <3>1, <3>3, <3>4
  <2>4. ASSUME NEW i \in 1 .. m, t[i].kind \in Drops PROVE StillThere(t, i, PlayableNames(root2))
    <3>1. i + 1 \in 1 .. n /\ t[i] = s[i + 1]
      BY <1>1
    <3>2. StillThere(s, i + 1, PlayableNames(root))
      BY <2>1, <2>4, <3>1 DEF Guarded, n
    <3>3. CASE \E y \in PlayableNames(root) : LeftAlone(s, y, 1, i + 1)
      <4>1. PICK y \in PlayableNames(root) : LeftAlone(s, y, 1, i + 1)
        BY <3>3
      <4>2. LeftAlone(t, y, 1, i) /\ y \in PlayableNames(root2)
        BY <1>3, <1>9, <2>3, <4>1
      <4>3. QED BY <4>2 DEF StillThere
    <3>4. CASE \E j \in 1 .. (i + 1) - 1 : s[j].kind \in Puts /\ LeftAlone(s, s[j].dst, j + 1, i + 1)
      <4>1. PICK j \in 1 .. (i + 1) - 1 : s[j].kind \in Puts /\ LeftAlone(s, s[j].dst, j + 1, i + 1)
        BY <3>4
      <4>2. j \in 1 .. i /\ j + 1 \in 1 .. i + 1 /\ j + 1 # 1 /\ (j + 1) - 1 = j
        BY <1>1
      <4>3. LeftAlone(t, s[j].dst, j, i)
        BY <2>2, <4>1, <4>2
      <4>4. CASE j = 1
        <5>1. s[j] = h /\ s[j].dst \in PlayableNames(root2)
          BY <1>1, <1>3, <1>9, <4>1, <4>4
        <5>2. QED BY <4>3, <4>4, <5>1 DEF StillThere
      <4>5. CASE j # 1
        <5>1. j - 1 \in 1 .. m /\ j - 1 \in 1 .. i - 1 /\ (j - 1) + 1 = j
          BY <1>1, <4>2, <4>5
        <5>2. t[j - 1] = s[j]
          BY <1>1, <5>1
        <5>3. QED BY <4>1, <4>3, <5>1, <5>2 DEF StillThere
      <4>6. QED BY <4>4, <4>5
    <3>5. QED BY <3>2, <3>3, <3>4 DEF StillThere
  <2>5. QED BY <2>4 DEF Guarded, m
<1>10. QED BY <1>5, <1>6, <1>7, <1>8, <1>9 DEF TodoOK, TakesApart, t, m

-----------------------------------------------------------------------------
(* The running cycle                                                       *)

Busy == {"run", "sending", "confirmed"}

LEMMA CycleSteps ==
  ASSUME CycleOK, cycle.step \in Busy
  PROVE  /\ \E T : cycle.todo \in Seq(T)
         /\ cycle.todo # <<>>
         /\ Done => /\ CycleOK' /\ cycle'.todo = Tail(cycle.todo) /\ cycle'.touched = cycle.touched
                    /\ cycle'.step \in {"run", "check"}
         /\ Stop => /\ CycleOK' /\ cycle'.todo = <<>> /\ cycle'.touched = cycle.touched
                    /\ cycle'.step = "check"
         /\ cycle' = [cycle EXCEPT !.step = "sending"] /\ Action.kind = "upload" =>
              /\ CycleOK' /\ cycle'.todo = cycle.todo /\ cycle'.touched = cycle.touched
              /\ cycle'.step = "sending"
         /\ cycle' = [cycle EXCEPT !.step = "confirmed"] /\ Action.kind = "delete_legacy" =>
              /\ CycleOK' /\ cycle'.todo = cycle.todo /\ cycle'.touched = cycle.touched
              /\ cycle'.step = "confirmed"
<1> DEFINE s == cycle.todo
<1>1. PICK T : s \in Seq(T)
  BY DEF CycleOK
<1>2. s # <<>>
  BY DEF CycleOK, Busy
<1> HIDE DEF s
<1>3. Tail(s) \in Seq(T) /\ (Tail(s) = <<>> <=> Len(s) = 1)
  BY <1>1, <1>2, FirstOf
<1>4. DOMAIN cycle = CycleFields /\ cycle.outcome \in {"none", "synced", "pending", "error", "lost"}
  BY DEF CycleOK
<1>5. ASSUME Done
      PROVE  /\ CycleOK' /\ cycle'.todo = Tail(cycle.todo) /\ cycle'.touched = cycle.touched
             /\ cycle'.step \in {"run", "check"}
  <2> DEFINE next == IF Len(s) = 1 THEN "check" ELSE "run"
  <2>1. cycle' = [cycle EXCEPT !.todo = Tail(s), !.step = next]
    BY <1>5 DEF Done, s
  <2>2. next \in {"run", "check"} /\ (next = "check" <=> Len(s) = 1)
    OBVIOUS
  <2> HIDE DEF next
  <2>3. /\ DOMAIN cycle' = CycleFields /\ cycle'.todo = Tail(s) /\ cycle'.step = next
        /\ cycle'.outcome = cycle.outcome /\ cycle'.touched = cycle.touched
    BY <1>4, <2>1 DEF CycleFields
  <2>4. \E U : cycle'.todo \in Seq(U)
    BY <1>3, <2>3
  <2>5. next \in {"run", "sending", "confirmed"} <=> Tail(s) # <<>>
    BY <1>3, <2>2
  <2>6. CycleOK'
    BY <1>4, <2>2, <2>3, <2>4, <2>5 DEF CycleOK
  <2>7. QED BY <2>2, <2>3, <2>6 DEF s
<1>6. ASSUME Stop
      PROVE  /\ CycleOK' /\ cycle'.todo = <<>> /\ cycle'.touched = cycle.touched
             /\ cycle'.step = "check"
  <2>1. cycle' = [cycle EXCEPT !.todo = <<>>, !.step = "check", !.failed = TRUE]
    BY <1>6 DEF Stop
  <2>2. /\ DOMAIN cycle' = CycleFields /\ cycle'.todo = <<>> /\ cycle'.step = "check"
        /\ cycle'.outcome = cycle.outcome /\ cycle'.touched = cycle.touched
    BY <1>4, <2>1 DEF CycleFields
  <2>3. <<>> \in Seq(T)
    OBVIOUS
  <2>4. \E U : cycle'.todo \in Seq(U)
    BY <2>2, <2>3
  <2>5. CycleOK'
    BY <1>4, <2>2, <2>4 DEF CycleOK
  <2>6. QED BY <2>2, <2>5
<1>7. ASSUME NEW step \in {"sending", "confirmed"}, cycle' = [cycle EXCEPT !.step = step],
             step = "sending" => Action.kind = "upload",
             step = "confirmed" => Action.kind = "delete_legacy"
      PROVE  /\ CycleOK' /\ cycle'.todo = cycle.todo /\ cycle'.touched = cycle.touched
             /\ cycle'.step = step
  <2>1. /\ DOMAIN cycle' = CycleFields /\ cycle'.todo = s /\ cycle'.step = step
        /\ cycle'.outcome = cycle.outcome /\ cycle'.touched = cycle.touched
    BY <1>4, <1>7 DEF CycleFields, s
  <2>2. \E U : cycle'.todo \in Seq(U)
    BY <1>1, <2>1
  <2>3. Action' = Action
    BY <2>1 DEF Action, s
  <2>4. CycleOK'
    BY <1>2, <1>4, <1>7, <2>1, <2>2, <2>3 DEF CycleOK
  <2>5. QED BY <2>1, <2>4 DEF s
<1>8. QED BY <1>1, <1>2, <1>5, <1>6, <1>7 DEF s

(* A cycle that is over, or has just begun.                                *)
LEMMA CycleIdle ==
  ASSUME NEW outcome \in {"none", "synced", "pending", "error", "lost"}, NEW at, NEW seen, NEW listing
  PROVE  /\ cycle' = Idle(outcome) => CycleOK'
         /\ cycle' = [Idle(outcome) EXCEPT !.at = at, !.seen = seen, !.listing = listing] => CycleOK'
         /\ cycle' = [Idle("none") EXCEPT !.step = "listed", !.at = at, !.listing = listing] => CycleOK'
         /\ cycle' = Idle(outcome) => cycle'.step = "idle" /\ cycle'.todo = <<>>
         /\ cycle' = [Idle(outcome) EXCEPT !.at = at, !.seen = seen, !.listing = listing] =>
              cycle'.step = "idle" /\ cycle'.todo = <<>>
         /\ cycle' = [Idle("none") EXCEPT !.step = "listed", !.at = at, !.listing = listing] =>
              /\ cycle'.step = "listed" /\ cycle'.todo = <<>>
              /\ cycle'.listing = listing /\ cycle'.touched = FALSE
<1>1. <<>> \in Seq({})
  OBVIOUS
<1>2. ASSUME DOMAIN cycle' = CycleFields, cycle'.step \in {"idle", "listed"}, cycle'.todo = <<>>,
             cycle'.outcome \in {"none", "synced", "pending", "error", "lost"}
      PROVE  CycleOK'
  <2>1. \E U : cycle'.todo \in Seq(U)
    BY <1>1, <1>2
  <2>2. QED BY <1>2, <2>1 DEF CycleOK
<1>3. CASE cycle' = Idle(outcome)
  BY <1>2, <1>3 DEF Idle, CycleFields
<1>4. CASE cycle' = [Idle(outcome) EXCEPT !.at = at, !.seen = seen, !.listing = listing]
  BY <1>2, <1>4 DEF Idle, CycleFields
<1>5. CASE cycle' = [Idle("none") EXCEPT !.step = "listed", !.at = at, !.listing = listing]
  BY <1>2, <1>5 DEF Idle, CycleFields
<1>6. QED BY <1>3, <1>4, <1>5

-----------------------------------------------------------------------------
(* What a step may not do                                                  *)

LegacyStep ==
  /\ \A n \in DOMAIN disk.root \ DOMAIN disk'.root :
       (disk.root[n].data = Foreign /\ ~ ByHand) => cycle.step = "confirmed" /\ n = Action.src
  /\ (cycle.step # "confirmed" /\ cycle'.step = "confirmed") =>
       /\ Action.src \in DOMAIN rows \cap DOMAIN disk.root
       /\ rows[Action.src].asked
       /\ rows[Action.src].seen.size = disk.root[Action.src].size

BlackStep == (Playable(disk) # {} /\ ~ cycle'.touched) => Playable(disk') # {}

StepOK == Inv' /\ LegacyStep /\ BlackStep

(* How the app's actions leave the disk.                                   *)
LEMMA StepTaken ==
  ASSUME Inv, DiskOK', wants' = wants, CycleOK', cycle'.step # "listed",
         TodoOK(cycle'.todo, disk'.root, disk'.stagingExists, cycle'.touched),
         cycle.step # "confirmed" => cycle'.step # "confirmed",
         \A n \in DOMAIN disk.root \ DOMAIN disk'.root :
           disk.root[n].data = Foreign => cycle.step = "confirmed" /\ n = Action.src,
         ~ cycle'.touched /\ PlayableNames(disk.root) # {} => PlayableNames(disk'.root) # {}
  PROVE  StepOK
<1>1. Playable(disk) = PlayableNames(disk.root) /\ Playable(disk') = PlayableNames(disk'.root)
  BY PlayableIs
<1>2. Inv'
  BY DEF Inv
<1>3. LegacyStep
  BY DEF LegacyStep
<1>4. BlackStep
  BY <1>1 DEF BlackStep
<1>5. QED BY <1>2, <1>3, <1>4 DEF StepOK

-----------------------------------------------------------------------------
(* Listing and planning                                                    *)

LEMMA NamesAre == Names = NamesFor(Library)
BY DEF Names, NamesFor, Shas, Slugs

(* A listing made by the cycle is a proper input of the planner.           *)
LEMMA InputFrom ==
  ASSUME NEW l, NEW touched, ListedOK(l, touched), NEW W, W \subseteq WantPool,
         NEW inp, inp.library = Library, inp.remote = l, inp.wants = W
  PROVE  InputOK(inp)
<1> DEFINE sha  == [w \in WantPool |-> w.video.sha]
           A    == {w.video.sha : w \in WantPool}
           B    == {w.video.sha : w \in W}
<1>2. W \in SUBSET WantPool
  OBVIOUS
<1>3. IsFiniteSet(WantPool) /\ Cardinality(A) <= MaxPrefix
  BY LibraryAssumption
<1>4. IsFiniteSet(W) /\ \A u, w \in W : u.id = w.id => u = w
  BY <1>2, <1>3, FS_Subset, LibraryAssumption
<1>5. W \subseteq WantsFor(Library)
  BY <1>2, LibraryAssumption DEF WantsFor
<1>6. Cardinality(B) <= MaxPrefix
  <2>1. IsFiniteSet(A)
    <3>1. sha \in Surjection(WantPool, A)
      BY DEF Surjection
    <3> HIDE DEF sha
    <3>2. QED BY <1>3, <3>1, FS_Surjection
  <2>2. B \in SUBSET A
    BY <1>2
  <2> HIDE DEF A, B
  <2>3. Cardinality(B) <= Cardinality(A) /\ Cardinality(B) \in Nat /\ Cardinality(A) \in Nat
    BY <2>1, <2>2, FS_Subset, FS_CardinalityType
  <2>4. QED BY <1>3, <2>3, PrefixAssumption
<1>7. LibraryOK(Library)
  BY LibraryAssumption, ReconcileAssumption DEF LibraryOK, Videos
<1>8. None \notin NamesFor(Library) /\ \A v \in Library : v.sha # None
  BY NamesAre, LibraryAssumption DEF Shas
<1>9. /\ IsFiniteSet(DOMAIN l.root) /\ DOMAIN l.root \subseteq NamesFor(Library)
      /\ l.stagingExists \in BOOLEAN /\ IsFiniteSet(DOMAIN l.staging)
  BY NamesAre DEF ListedOK
<1>10. DOMAIN l.staging \subseteq [sha : Int, part : BOOLEAN]
  <2>1. Shas \subseteq Int
    BY LibraryAssumption DEF Shas
  <2>2. QED BY <2>1 DEF ListedOK, StagedNames
<1>11. QED BY <1>4, <1>5, <1>6, <1>7, <1>8, <1>9, <1>10 DEF InputOK

LEMMA InputIsOK ==
  ASSUME NEW l, NEW touched, ListedOK(l, touched), wants \subseteq WantPool, NEW files, NEW at
  PROVE  InputOK(PlannerInput(l, files, at))
<1> DEFINE inp == PlannerInput(l, files, at)
           W   == {w \in wants : w.end = None \/ w.end > at}
<1>1. inp.library = Library /\ inp.remote = l /\ inp.wants = W
  BY DEF PlannerInput
<1>2. W \subseteq WantPool
  OBVIOUS
<1> HIDE DEF inp, W
<1>3. QED BY <1>1, <1>2, InputFrom DEF inp

LEMMA AppNamesAre ==
  ASSUME NEW inp, inp.library = Library
  PROVE  AppNames(inp) = Owned(inp.remote)
BY DEF AppNames, Owned

(* The actions of a plan are of the form the execution relies on.          *)
LEMMA FormCarriesOver ==
  ASSUME NEW inp, inp.library = Library, NEW a, WellFormed(inp, a)
  PROVE  ActionOK(a) /\ (a.kind \in Takes \ {"delete_legacy"} => a.src \in AppNames(inp))
<1>1. CASE a.kind \in {"mkdir_staging", "delete_active", "delete_legacy"} \cup StagingDeletes
  <2>1. ActionOK(a)
    BY <1>1 DEF ActionOK
  <2>2. QED BY <1>1, <2>1 DEF WellFormed, Takes, StagingDeletes
<1>2. CASE a.kind \in {"upload", "activate"}
  BY <1>2 DEF WellFormed, ActionOK, Takes, StagingDeletes
<1>3. CASE a.kind = "reorder"
  <2>1. /\ a.src \in AppNames(inp)
        /\ \E v \in Library : /\ Matches(v, a.src, inp.remote.root)
                              /\ \E p \in 1 .. MaxPrefix : a.dst = ActiveName(p, v)
    BY <1>3 DEF WellFormed, StagingDeletes
  <2>2. QED BY <1>3, <2>1 DEF ActionOK, Matches
<1>4. CASE a.kind = "deactivate"
  BY <1>4 DEF WellFormed, ActionOK, StagingDeletes
<1>5. QED BY <1>1, <1>2, <1>3, <1>4 DEF WellFormed

(* What the listing calls playable is so on the disk.                      *)
LEMMA ListedArePlayable ==
  ASSUME DiskOK, NEW inp, inp.library = Library, inp.remote = Listing(disk), InputOK(inp)
  PROVE  AppNames(inp) \cup Classify(inp.remote, inp.library).playable \subseteq PlayableNames(disk.root)
<1> DEFINE c == Classify(inp.remote, inp.library)
           l == Listing(disk)
<1>1. ClassOK(inp, c)
  BY ClassifyIsOK
<1> HIDE DEF c
<1>2. /\ DOMAIN l.root = DOMAIN disk.root
      /\ \A n \in DOMAIN disk.root : /\ l.root[n].isDir = disk.root[n].isDir
                                     /\ l.root[n].size = disk.root[n].size
  BY DEF Listing
<1>3. FilesOK(disk.root, now)
  BY DEF DiskOK
<1> HIDE DEF l
<1>4. ASSUME NEW n \in AppNames(inp) PROVE n \in PlayableNames(disk.root)
  <2>1. n \in DOMAIN disk.root /\ \E v \in Library : Matches(v, n, l.root)
    BY <1>2 DEF AppNames, l
  <2>2. PICK v \in Library : Matches(v, n, l.root)
    BY <2>1
  <2>3. SizeMatches(v, n, disk.root[n])
    BY <1>2, <2>1, <2>2 DEF Matches, SizeMatches
  <2>4. FileOK(n, disk.root[n], now) /\ disk.root[n].data # Foreign
    BY <1>3, <2>1, <2>3 DEF FilesOK, FileOK
  <2>5. QED BY <2>1, <2>4, OwnIsPlayable DEF PlayableNames
<1>5. ASSUME NEW n \in c.playable PROVE n \in PlayableNames(disk.root)
  <2>1. /\ n \in DOMAIN l.root
        /\ ~ l.root[n].isDir /\ l.root[n].size # 0 /\ n.slug \notin Unplayable
        /\ \A v \in Library : v.slug # n.slug \/ v.sha # n.sha
    BY <1>1 DEF ClassOK, l
  <2>2. n \in DOMAIN disk.root /\ FileOK(n, disk.root[n], now)
    BY <1>2, <1>3, <2>1 DEF FilesOK
  <2>3. disk.root[n].data = Foreign
    BY <2>1, <2>2 DEF FileOK, SizeMatches
  <2>4. disk.root[n].data # Broken
    BY <2>3, LibraryAssumption
  <2>5. PlayableFile(n, disk.root[n])
    BY <1>2, <2>1, <2>2, <2>4 DEF PlayableFile
  <2>6. QED BY <2>2, <2>5 DEF PlayableNames
<1>6. QED BY <1>4, <1>5 DEF c

LEMMA PlanIsTodo ==
  ASSUME Inv, cycle.step = "listed", NEW files
  PROVE  LET s == Plan(PlannerInput(cycle.listing, files, cycle.at))
         IN  /\ \E T : s \in Seq(T)
             /\ TodoOK(s, disk.root, disk.stagingExists, cycle.touched)
<1> DEFINE inp == PlannerInput(cycle.listing, files, cycle.at)
           s   == Plan(inp)
           l   == cycle.listing
           T   == ActionsOf(inp)
<1>1. inp.library = Library /\ inp.remote = l
  BY DEF PlannerInput
<1>2. ListedOK(l, cycle.touched) /\ DiskOK /\ wants \subseteq WantPool
  BY DEF Inv
<1>3. InputOK(inp)
  BY <1>2, InputIsOK
<1> HIDE DEF inp, l
<1>4. Safe(inp, s) /\ StagingFirst(s, inp.remote.stagingExists)
  BY <1>3, PlansAreSafe
<1> HIDE DEF s, T
<1>5. s \in Seq(T) /\ \A i \in 1 .. Len(s) : s[i] \in T
  <2>1. s \in Seq(T)
    BY <1>4 DEF Safe, T
  <2>2. QED BY <2>1
<1>6. \A i \in 1 .. Len(s) : WellFormed(inp, s[i])
  BY <1>5 DEF T, ActionsOf
<1>7. AppNames(inp) \subseteq OwnNames(disk.root)
  BY <1>1, <1>2, AppNamesAre DEF ListedOK
<1>8. \A i \in 1 .. Len(s) : /\ ActionOK(s[i])
                             /\ s[i].kind \in Takes \ {"delete_legacy"} => s[i].src \in OwnNames(disk.root)
  BY <1>1, <1>6, <1>7, FormCarriesOver
<1>9. StagingFirst(s, disk.stagingExists)
  BY <1>1, <1>2, <1>4 DEF StagingFirst, ListedOK
<1>10. ASSUME ~ cycle.touched PROVE Guarded(s, PlayableNames(disk.root))
  <2>1. l = Listing(disk)
    BY <1>2, <1>10 DEF ListedOK
  <2>2. AppNames(inp) \cup Classify(inp.remote, inp.library).playable \subseteq PlayableNames(disk.root)
    BY <1>1, <1>2, <1>3, <2>1, ListedArePlayable
  <2>3. Guarded(s, AppNames(inp) \cup Classify(inp.remote, inp.library).playable)
    BY <1>4 DEF Safe
  <2>4. QED BY <2>2, <2>3 DEF Guarded, StillThere
<1>11. TakesApart(s)
  BY <1>4 DEF Safe
<1>12. TodoOK(s, disk.root, disk.stagingExists, cycle.touched)
  BY <1>8, <1>9, <1>10, <1>11 DEF TodoOK
<1>13. QED BY <1>5, <1>12 DEF inp, s, l

-----------------------------------------------------------------------------
(* An action of the plan                                                   *)

LEMMA Underway ==
  ASSUME Inv, cycle.step \in Busy
  PROVE  /\ ActionOK(Action)
         /\ Action.kind \in Takes \ {"delete_legacy"} => Action.src \in OwnNames(disk.root)
         /\ Action.kind \in Staging => disk.stagingExists
         /\ ~ cycle.touched /\ Action.kind \in Drops =>
              \E n \in PlayableNames(disk.root) : n # Action.src
<1> DEFINE s == cycle.todo
           h == Action
<1>1. PICK T : s \in Seq(T)
  BY DEF Inv, CycleOK
<1>2. s # <<>>
  BY DEF Inv, CycleOK, Busy
<1>3. TodoOK(s, disk.root, disk.stagingExists, cycle.touched)
  BY DEF Inv
<1>4. h = Head(s)
  BY DEF Action
<1> HIDE DEF s, h
<1>5. h = s[1] /\ 1 \in 1 .. Len(s) /\ Len(s) \in Nat
  BY <1>1, <1>2, <1>4
<1>6. ActionOK(h) /\ (h.kind \in Takes \ {"delete_legacy"} => h.src \in OwnNames(disk.root))
  BY <1>3, <1>5 DEF TodoOK
<1>7. ASSUME h.kind \in Staging PROVE disk.stagingExists
  <2>1. disk.stagingExists \/ \E j \in 1 .. 1 - 1 : s[j].kind = "mkdir_staging"
    BY <1>3, <1>5, <1>7 DEF TodoOK, StagingFirst
  <2>2. 1 .. 1 - 1 = {}
    OBVIOUS
  <2>3. QED BY <2>1, <2>2
<1>8. ASSUME ~ cycle.touched, h.kind \in Drops PROVE \E n \in PlayableNames(disk.root) : n # h.src
  <2>1. StillThere(s, 1, PlayableNames(disk.root))
    BY <1>3, <1>5, <1>8 DEF TodoOK, Guarded
  <2>2. 1 .. 1 - 1 = {} /\ 1 \in 1 .. 1 /\ h.kind \in Takes
    BY <1>8 DEF Drops, Takes
  <2>3. PICK n \in PlayableNames(disk.root) : LeftAlone(s, n, 1, 1)
    BY <2>1, <2>2 DEF StillThere
  <2>4. h.src # n
    BY <1>5, <2>2, <2>3 DEF LeftAlone
  <2>5. QED BY <2>4
<1>9. QED BY <1>6, <1>7, <1>8 DEF h

LEMMA ActionDone ==
  ASSUME Inv, cycle.step \in Busy, Done, DiskOK', wants' = wants,
         \A n \in OwnNames(disk.root) :
           (Action.kind \in Takes => n # Action.src) => n \in OwnNames(disk'.root),
         \A n \in PlayableNames(disk.root) :
           (Action.kind \in Takes => n # Action.src) => n \in PlayableNames(disk'.root),
         Action.kind \in Puts => Action.dst \in PlayableNames(disk'.root),
         disk.stagingExists \/ Action.kind = "mkdir_staging" => disk'.stagingExists,
         \A n \in DOMAIN disk.root \ DOMAIN disk'.root :
           disk.root[n].data = Foreign => cycle.step = "confirmed" /\ n = Action.src
  PROVE  StepOK
<1>1. CycleOK /\ TodoOK(cycle.todo, disk.root, disk.stagingExists, cycle.touched)
  BY DEF Inv
<1>2. /\ CycleOK' /\ cycle'.todo = Tail(cycle.todo) /\ cycle'.touched = cycle.touched
      /\ cycle'.step \in {"run", "check"} /\ cycle.todo # <<>>
  BY <1>1, CycleSteps
<1>3. PICK T : cycle.todo \in Seq(T)
  BY <1>1 DEF CycleOK
<1>4. TodoOK(Tail(cycle.todo), disk'.root, disk'.stagingExists, cycle'.touched)
  <2> DEFINE s == cycle.todo
             h == Head(s)
             root2 == disk'.root
             exists2 == disk'.stagingExists
             touched2 == cycle'.touched
  <2>1. /\ \A n \in OwnNames(disk.root) : (h.kind \in Takes => n # h.src) => n \in OwnNames(root2)
        /\ disk.stagingExists \/ h.kind = "mkdir_staging" => exists2
        /\ ~ touched2 =>
             /\ ~ cycle.touched
             /\ \A n \in PlayableNames(disk.root) :
                  (h.kind \in Takes => n # h.src) => n \in PlayableNames(root2)
             /\ h.kind \in Puts => h.dst \in PlayableNames(root2)
    BY <1>2 DEF Action
  <2>2. s \in Seq(T) /\ s # <<>> /\ TodoOK(s, disk.root, disk.stagingExists, cycle.touched)
    BY <1>1, <1>2, <1>3
  <2> HIDE DEF s, root2, exists2, touched2
  <2>3. TodoOK(Tail(s), root2, exists2, touched2)
    BY <2>1, <2>2, TodoTail
  <2>4. QED BY <2>3 DEF s, root2, exists2, touched2
<1>5. ASSUME ~ cycle'.touched, PlayableNames(disk.root) # {} PROVE PlayableNames(disk'.root) # {}
  <2>1. CASE Action.kind \in Drops
    <3>1. PICK n \in PlayableNames(disk.root) : n # Action.src
      BY <1>2, <1>5, <2>1, Underway
    <3>2. QED BY <3>1
  <2>2. CASE Action.kind \in Puts
    BY <2>2
  <2>3. CASE Action.kind \notin Takes
    BY <1>5, <2>3
  <2>4. QED BY <2>1, <2>2, <2>3 DEF Takes, Drops, Puts
<1>6. QED BY <1>2, <1>4, <1>5, StepTaken

(* ... and its actions stand, as long as nothing they need is taken away.  *)
LEMMA TodoKept ==
  ASSUME TodoOK(cycle.todo, disk.root, disk.stagingExists, cycle.touched),
         cycle'.todo = cycle.todo,
         OwnNames(disk.root) \subseteq OwnNames(disk'.root),
         disk.stagingExists => disk'.stagingExists,
         ~ cycle'.touched =>
           ~ cycle.touched /\ PlayableNames(disk.root) \subseteq PlayableNames(disk'.root)
  PROVE  TodoOK(cycle'.todo, disk'.root, disk'.stagingExists, cycle'.touched)
<1> DEFINE s == cycle.todo
           root == disk.root
           exists == disk.stagingExists
           touched == cycle.touched
           root2 == disk'.root
           exists2 == disk'.stagingExists
           touched2 == cycle'.touched
<1>1. /\ TodoOK(s, root, exists, touched) /\ cycle'.todo = s
      /\ OwnNames(root) \subseteq OwnNames(root2) /\ (exists => exists2)
      /\ ~ touched2 => ~ touched /\ PlayableNames(root) \subseteq PlayableNames(root2)
  OBVIOUS
<1> HIDE DEF s, root, exists, touched, root2, exists2, touched2
<1>2. TodoOK(s, root2, exists2, touched2)
  BY <1>1, TodoSame
<1>3. QED BY <1>1, <1>2 DEF root2, exists2, touched2

(* A plan that stops has changed nothing in the video folder.              *)
LEMMA PlanStopped ==
  ASSUME Inv, cycle.step \in Busy, Stop, DiskOK', wants' = wants, disk'.root = disk.root
  PROVE  StepOK
<1>1. CycleOK
  BY DEF Inv
<1>2. CycleOK' /\ cycle'.todo = <<>> /\ cycle'.step = "check"
  BY <1>1, CycleSteps
<1>3. TodoOK(cycle'.todo, disk'.root, disk'.stagingExists, cycle'.touched)
  BY <1>2, TodoEmpty
<1>4. QED BY <1>2, <1>3, StepTaken

LEMMA NewDisk ==
  ASSUME DiskOK, now' = now, DOMAIN disk' = DiskFields,
         FilesOK(disk'.root, now), StagedOK(disk'.staging, now), disk'.stagingExists \in BOOLEAN,
         DOMAIN disk'.staging # {} => disk'.stagingExists
  PROVE  DiskOK'
BY DEF DiskOK

LEMMA NamesAdded ==
  ASSUME NEW root, NEW at, FilesOK(root, at), NEW x, x \notin DOMAIN root,
         NEW y, FileOK(x, y, at), y.data # Foreign
  PROVE  LET w == With(root, x, y)
         IN  /\ OwnNames(root) \subseteq OwnNames(w)
             /\ PlayableNames(root) \subseteq PlayableNames(w)
             /\ x \in PlayableNames(w) /\ x \in OwnNames(w)
             /\ DOMAIN root \ DOMAIN w = {}
<1> DEFINE w == With(root, x, y)
<1>1. /\ DOMAIN w = DOMAIN root \cup {x} /\ w[x] = y
      /\ \A z \in DOMAIN root : w[z] = root[z]
  BY DEF With
<1> HIDE DEF w
<1>2. PlayableFile(x, y)
  BY OwnIsPlayable
<1>3. QED BY <1>1, <1>2 DEF OwnNames, PlayableNames, w

LEMMA NamesRemoved ==
  ASSUME NEW root, NEW x
  PROVE  LET w == Without(root, x)
         IN  /\ \A n \in OwnNames(root) : n # x => n \in OwnNames(w)
             /\ \A n \in PlayableNames(root) : n # x => n \in PlayableNames(w)
             /\ \A n \in DOMAIN root \ DOMAIN w : n = x
<1> DEFINE w == Without(root, x)
<1>1. DOMAIN w = DOMAIN root \ {x} /\ \A z \in DOMAIN root : z # x => w[z] = root[z]
  BY WithoutIs
<1> HIDE DEF w
<1>2. QED BY <1>1 DEF OwnNames, PlayableNames, w

(* The names of a video, visible and hidden.                               *)
LEMMA NamesOfVideo ==
  ASSUME NEW v \in Library
  PROVE  /\ \A p \in 1 .. MaxPrefix : ActiveName(p, v) \in Names
         /\ Staged(v.sha) \in StagedNames /\ ~ Staged(v.sha).part /\ Staged(v.sha).sha = v.sha
         /\ Part(v.sha) \in StagedNames /\ Part(v.sha).part
<1>1. v.slug \in Nat /\ v.slug \in Slugs /\ v.sha \in Shas /\ v.sha # None
  BY LibraryAssumption DEF Slugs, Shas
<1>2. \A p \in 1 .. MaxPrefix : ActiveName(p, v) \in Names
  BY <1>1, PrefixAssumption DEF ActiveName, Names
<1>3. QED BY <1>1, <1>2 DEF Staged, Part, StagedNames

-----------------------------------------------------------------------------
(* The actions on the staging folder                                       *)

LEMMA MkdirStep ==
  ASSUME Inv, MakeStagingDir
  PROVE  StepOK
<1>1. DiskOK /\ DOMAIN disk = DiskFields
  BY DEF Inv, DiskOK
<1>2. /\ cycle.step \in Busy /\ Action.kind = "mkdir_staging" /\ Done
      /\ now' = now /\ wants' = wants /\ disk' = [disk EXCEPT !.stagingExists = TRUE]
  BY DEF MakeStagingDir, Running, Busy
<1>3. /\ DOMAIN disk' = DiskFields /\ disk'.root = disk.root /\ disk'.staging = disk.staging
      /\ disk'.stagingExists = TRUE
  BY <1>1, <1>2, DiskChanged
<1>4. DiskOK'
  BY <1>1, <1>2, <1>3, NewDisk DEF DiskOK
<1>5. Action.kind \notin Takes /\ Action.kind \notin Puts
  BY <1>2 DEF Takes, Puts
<1>6. QED BY <1>2, <1>3, <1>4, <1>5, ActionDone

(* An upload in progress has the staging folder.                           *)
LEMMA Uploading ==
  ASSUME Inv, cycle.step \in Busy, Action.kind = "upload"
  PROVE  /\ Action.video \in Library /\ Action.dst = Staged(Action.video.sha)
         /\ disk.stagingExists /\ DiskOK /\ DOMAIN disk = DiskFields
         /\ Action.kind \notin Takes /\ Action.kind \notin Puts
<1>1. Action.video \in Library /\ Action.dst = Staged(Action.video.sha)
  BY Underway DEF ActionOK, StagingDeletes
<1>2. disk.stagingExists
  BY Underway DEF Staging
<1>3. QED BY <1>1, <1>2 DEF Inv, DiskOK, Takes, Puts

(* Whatever happens in the staging folder, the video folder stays.         *)
LEMMA StagingChanges ==
  ASSUME Inv, disk.stagingExists, NEW staging, StagedOK(staging, now),
         disk' = [disk EXCEPT !.staging = staging], now' = now
  PROVE  DiskOK' /\ disk'.root = disk.root /\ disk'.stagingExists
<1>1. DiskOK /\ DOMAIN disk = DiskFields
  BY DEF Inv, DiskOK
<1>2. /\ DOMAIN disk' = DiskFields /\ disk'.root = disk.root /\ disk'.staging = staging
      /\ disk'.stagingExists = disk.stagingExists
  BY <1>1, DiskChanged
<1>3. QED BY <1>1, <1>2, NewDisk DEF DiskOK

LEMMA StartUploadStep ==
  ASSUME Inv, StartUpload
  PROVE  StepOK
<1> DEFINE v == Action.video
           sent == [size |-> PartialBytes, mtime |-> now, data |-> Broken]
           staging == With(disk.staging, Part(v.sha), sent)
<1>1. /\ cycle.step \in Busy /\ cycle.step # "confirmed" /\ Action.kind = "upload"
      /\ now' = now /\ wants' = wants /\ disk' = [disk EXCEPT !.staging = staging]
      /\ cycle' = [cycle EXCEPT !.step = "sending"]
  BY DEF StartUpload, Running, Busy
<1>2. v \in Library /\ disk.stagingExists /\ now \in Nat /\ StagedOK(disk.staging, now)
  BY <1>1, Uploading, ReconcileAssumption DEF DiskOK
<1>3. Part(v.sha) \in StagedNames /\ Part(v.sha).part
  BY <1>2, NamesOfVideo
<1>4. StagedFileOK(Part(v.sha), sent, now)
  BY <1>2, <1>3 DEF StagedFileOK
<1> HIDE DEF sent
<1>5. StagedOK(staging, now)
  BY <1>2, <1>3, <1>4, StagedAdded
<1> HIDE DEF staging
<1>6. DiskOK' /\ disk'.root = disk.root /\ disk'.stagingExists
  BY <1>1, <1>2, <1>5, StagingChanges
<1>7. CycleOK /\ TodoOK(cycle.todo, disk.root, disk.stagingExists, cycle.touched)
  BY DEF Inv
<1>8. /\ CycleOK' /\ cycle'.todo = cycle.todo /\ cycle'.touched = cycle.touched
      /\ cycle'.step = "sending"
  BY <1>1, <1>7, CycleSteps
<1>9. TodoOK(cycle'.todo, disk'.root, disk'.stagingExists, cycle'.touched)
  BY <1>6, <1>7, <1>8, TodoKept
<1>10. QED BY <1>1, <1>6, <1>8, <1>9, StepTaken

LEMMA FinishUploadStep ==
  ASSUME Inv, FinishUpload
  PROVE  StepOK
<1> DEFINE v == Action.video
           sent == [size |-> v.size, mtime |-> now, data |-> v.sha]
           rest == Without(disk.staging, Part(v.sha))
<1>1. /\ cycle.step \in Busy /\ Action.kind = "upload" /\ now' = now /\ wants' = wants
  BY DEF FinishUpload, Busy, Inv, CycleOK
<1>2. /\ v \in Library /\ Action.dst = Staged(v.sha) /\ disk.stagingExists
      /\ now \in Nat /\ StagedOK(disk.staging, now)
      /\ Action.kind \notin Takes /\ Action.kind \notin Puts
  BY <1>1, Uploading, ReconcileAssumption DEF DiskOK
<1>3. /\ Part(v.sha) \in StagedNames /\ Part(v.sha).part
      /\ Staged(v.sha) \in StagedNames /\ Staged(v.sha).sha = v.sha
  BY <1>2, NamesOfVideo
<1>4. StagedFileOK(Part(v.sha), sent, now)
  BY <1>2, <1>3 DEF StagedFileOK
<1>5. StagedFileOK(Action.dst, sent, now)
  BY <1>2, <1>3 DEF StagedFileOK
<1>6. StagedOK(rest, now)
  BY <1>2, StagedRemoved
<1>7. CASE Action.dst \in DOMAIN disk.staging
  <2> DEFINE staging == With(rest, Part(v.sha), sent)
  <2>1. disk' = [disk EXCEPT !.staging = staging] /\ Stop
    BY <1>7 DEF FinishUpload
  <2> HIDE DEF sent, rest
  <2>2. StagedOK(staging, now)
    BY <1>3, <1>4, <1>6, StagedAdded
  <2> HIDE DEF staging
  <2>3. DiskOK' /\ disk'.root = disk.root
    BY <1>1, <1>2, <2>1, <2>2, StagingChanges
  <2>4. QED BY <1>1, <2>1, <2>3, PlanStopped
<1>8. CASE Action.dst \notin DOMAIN disk.staging
  <2> DEFINE staging == With(rest, Action.dst, sent)
  <2>1. disk' = [disk EXCEPT !.staging = staging] /\ Done
    BY <1>8 DEF FinishUpload
  <2> HIDE DEF sent, rest
  <2>2. StagedOK(staging, now)
    BY <1>2, <1>3, <1>5, <1>6, StagedAdded
  <2> HIDE DEF staging
  <2>3. DiskOK' /\ disk'.root = disk.root /\ disk'.stagingExists
    BY <1>1, <1>2, <2>1, <2>2, StagingChanges
  <2>4. QED BY <1>1, <1>2, <2>1, <2>3, ActionDone
<1>9. QED BY <1>7, <1>8

LEMMA UploadShortStep ==
  ASSUME Inv, UploadShort
  PROVE  StepOK
<1> DEFINE staging == Without(disk.staging, Part(Action.video.sha))
<1>1. /\ cycle.step \in Busy /\ Action.kind = "upload" /\ now' = now /\ wants' = wants
      /\ disk' = [disk EXCEPT !.staging = staging] /\ Stop
  BY DEF UploadShort, Busy, Inv, CycleOK
<1>2. disk.stagingExists /\ StagedOK(disk.staging, now)
  BY <1>1, Uploading DEF DiskOK
<1>3. StagedOK(staging, now)
  BY <1>2, StagedRemoved
<1> HIDE DEF staging
<1>4. DiskOK' /\ disk'.root = disk.root
  BY <1>1, <1>2, <1>3, StagingChanges
<1>5. QED BY <1>1, <1>4, PlanStopped

LEMMA DeleteHiddenStep ==
  ASSUME Inv, DeleteHidden
  PROVE  StepOK
<1> DEFINE staging == Without(disk.staging, Action.src)
<1>1. /\ cycle.step \in Busy /\ Action.kind \in StagingDeletes /\ now' = now /\ wants' = wants
      /\ disk' = [disk EXCEPT !.staging = staging] /\ Done
  BY DEF DeleteHidden, Running, Busy
<1>2. DiskOK /\ DOMAIN disk = DiskFields /\ StagedOK(disk.staging, now)
  BY DEF Inv, DiskOK
<1>3. StagedOK(staging, now) /\ DOMAIN staging \subseteq DOMAIN disk.staging
  <2>1. StagedOK(staging, now)
    BY <1>2, StagedRemoved
  <2>2. DOMAIN staging \subseteq DOMAIN disk.staging
    BY DEF Without, Restrict
  <2>3. QED BY <2>1, <2>2
<1> HIDE DEF staging
<1>4. /\ DOMAIN disk' = DiskFields /\ disk'.root = disk.root /\ disk'.staging = staging
      /\ disk'.stagingExists = disk.stagingExists
  BY <1>1, <1>2, DiskChanged
<1>5. DiskOK'
  BY <1>1, <1>2, <1>3, <1>4, NewDisk DEF DiskOK
<1>6. Action.kind \notin Takes /\ Action.kind \notin Puts /\ Action.kind # "mkdir_staging"
  BY <1>1 DEF Takes, Puts, StagingDeletes
<1>7. QED BY <1>1, <1>4, <1>5, <1>6, ActionDone

-----------------------------------------------------------------------------
(* The actions on the video folder                                         *)

LEMMA MoveInStep ==
  ASSUME Inv, MoveIn
  PROVE  StepOK
<1> DEFINE from == disk.staging[Action.src]
           file == [size |-> from.size, mtime |-> from.mtime, isDir |-> FALSE, data |-> from.data]
           staging == Without(disk.staging, Action.src)
           root == With(disk.root, Action.dst, file)
<1>1. cycle.step \in Busy /\ Action.kind = "activate" /\ now' = now /\ wants' = wants
  BY DEF MoveIn, Running, Busy
<1>2. /\ DiskOK /\ DOMAIN disk = DiskFields /\ FilesOK(disk.root, now) /\ StagedOK(disk.staging, now)
      /\ disk.stagingExists \in BOOLEAN /\ (DOMAIN disk.staging # {} => disk.stagingExists)
      /\ now \in 0 .. MaxTime /\ MaxTime \in Nat
  BY ReconcileAssumption DEF Inv, DiskOK
<1>3. CASE UNCHANGED disk /\ Stop
  <2>1. DiskOK' /\ disk'.root = disk.root
    BY <1>1, <1>2, <1>3 DEF DiskOK
  <2>2. QED BY <1>1, <1>3, <2>1, PlanStopped
<1>4. CASE /\ Action.dst \notin DOMAIN disk.root /\ Action.src \in DOMAIN disk.staging
           /\ disk' = [disk EXCEPT !.staging = staging, !.root = root]
           /\ Done
  <2>1. /\ Action.video \in Library /\ Action.src = Staged(Action.video.sha)
        /\ \E p \in 1 .. MaxPrefix : Action.dst = ActiveName(p, Action.video)
    BY <1>1, Underway DEF ActionOK, StagingDeletes
  <2>2. PICK p \in 1 .. MaxPrefix : Action.dst = ActiveName(p, Action.video)
    BY <2>1
  <2> DEFINE v == Action.video
             n == Action.dst
  <2>3. n \in Names /\ n.nnn = p /\ n.slug = v.slug /\ n.sha = v.sha
    BY <2>1, <2>2, NamesOfVideo DEF ActiveName
  <2>4. StagedFileOK(Action.src, from, now) /\ ~ Action.src.part /\ Action.src.sha = v.sha
    BY <1>2, <1>4, <2>1, NamesOfVideo DEF StagedOK
  <2> HIDE DEF from
  <2>5. from.data = v.sha /\ from.mtime \in 0 .. now /\ from.size = v.size /\ v.sha \in Shas /\ v.size \in Nat
    <3>1. from.data = v.sha /\ from.mtime \in 0 .. now /\ \E w \in Library : w.sha = v.sha /\ w.size = from.size
      BY <2>4 DEF StagedFileOK
    <3>2. QED BY <2>1, <3>1, LibraryAssumption DEF Shas
  <2>6. FileOK(n, file, now) /\ file.data # Foreign
    <3>1. from.mtime \in 0 .. MaxTime /\ from.mtime <= now
      BY <1>2, <2>5
    <3>2. v.sha # Foreign
      BY <2>5, LibraryAssumption
    <3>3. SizeMatches(v, n, file)
      BY <2>3, <2>5 DEF SizeMatches
    <3> HIDE DEF v, n
    <3>4. file \in [size : Nat, mtime : 0 .. MaxTime, isDir : BOOLEAN, data : Shas \cup {Foreign}]
      BY <2>5, <3>1
    <3>5. file.data = v.sha /\ ~ file.isDir /\ file.mtime = from.mtime
      BY <2>5
    <3> HIDE DEF file
    <3>6. QED BY <2>1, <2>2, <2>3, <3>1, <3>2, <3>3, <3>4, <3>5 DEF FileOK, v
  <2> HIDE DEF file
  <2>7. FilesOK(root, now)
    BY <1>2, <2>3, <2>6, FileAdded
  <2>8. /\ OwnNames(disk.root) \subseteq OwnNames(root)
        /\ PlayableNames(disk.root) \subseteq PlayableNames(root)
        /\ n \in PlayableNames(root)
        /\ DOMAIN disk.root \ DOMAIN root = {}
    BY <1>2, <1>4, <2>6, NamesAdded
  <2>9. StagedOK(staging, now)
    BY <1>2, StagedRemoved
  <2>10. DOMAIN staging \subseteq DOMAIN disk.staging
    BY DEF Without, Restrict
  <2> HIDE DEF staging, root
  <2>11. /\ DOMAIN disk' = DiskFields /\ disk'.root = root /\ disk'.staging = staging
         /\ disk'.stagingExists = disk.stagingExists
    BY <1>2, <1>4, DiskChanged
  <2>12. DiskOK'
    BY <1>1, <1>2, <2>7, <2>9, <2>10, <2>11, NewDisk
  <2>13. Action.kind \notin Takes /\ Action.kind # "mkdir_staging"
    BY <1>1 DEF Takes
  <2>14. QED BY <1>1, <1>4, <2>8, <2>11, <2>12, <2>13, ActionDone
<1>5. QED BY <1>3, <1>4 DEF MoveIn

LEMMA MoveWithinStep ==
  ASSUME Inv, MoveWithin
  PROVE  StepOK
<1> DEFINE file == disk.root[Action.src]
           rest == Without(disk.root, Action.src)
           root == With(rest, Action.dst, file)
<1>1. cycle.step \in Busy /\ Action.kind = "reorder" /\ now' = now /\ wants' = wants
  BY DEF MoveWithin, Running, Busy
<1>2. /\ DiskOK /\ DOMAIN disk = DiskFields /\ FilesOK(disk.root, now) /\ StagedOK(disk.staging, now)
      /\ disk.stagingExists \in BOOLEAN /\ (DOMAIN disk.staging # {} => disk.stagingExists)
  BY DEF Inv, DiskOK
<1>3. CASE UNCHANGED disk /\ Stop
  <2>1. DiskOK' /\ disk'.root = disk.root
    BY <1>1, <1>2, <1>3 DEF DiskOK
  <2>2. QED BY <1>1, <1>3, <2>1, PlanStopped
<1>4. CASE /\ Action.dst \notin DOMAIN disk.root /\ Action.src \in DOMAIN disk.root
           /\ disk' = [disk EXCEPT !.root = root]
           /\ Done
  <2> DEFINE n == Action.dst
             m == Action.src
  <2>1. m \in OwnNames(disk.root)
    BY <1>1, Underway DEF Takes
  <2>2. PICK v \in Library : /\ v.slug = m.slug /\ v.sha = m.sha
                             /\ \E p \in 1 .. MaxPrefix : n = ActiveName(p, v)
    BY <1>1, Underway DEF ActionOK, StagingDeletes
  <2>3. PICK p \in 1 .. MaxPrefix : n = ActiveName(p, v)
    BY <2>2
  <2>4. n \in Names /\ n.nnn = p /\ n.slug = m.slug /\ n.sha = m.sha
    BY <2>2, <2>3, NamesOfVideo DEF ActiveName
  <2>5. FileOK(m, file, now) /\ file.data # Foreign
    BY <1>2, <2>1 DEF FilesOK, OwnNames
  <2> HIDE DEF file, n, m
  <2>6. FileOK(n, file, now)
    BY <2>4, <2>5 DEF FileOK, SizeMatches
  <2>7. FilesOK(rest, now)
    BY <1>2, FileRemoved
  <2>8. n \notin DOMAIN rest /\ n \notin DOMAIN disk.root
    BY <1>4 DEF Without, Restrict, n
  <2>9. /\ \A x \in OwnNames(disk.root) : x # m => x \in OwnNames(rest)
        /\ \A x \in PlayableNames(disk.root) : x # m => x \in PlayableNames(rest)
        /\ \A x \in DOMAIN disk.root \ DOMAIN rest : x = m
    BY NamesRemoved DEF m
  <2> HIDE DEF rest
  <2>10. FilesOK(With(rest, n, file), now)
    BY <2>4, <2>6, <2>7, FileAdded
  <2>11. /\ OwnNames(rest) \subseteq OwnNames(With(rest, n, file))
         /\ PlayableNames(rest) \subseteq PlayableNames(With(rest, n, file))
         /\ n \in PlayableNames(With(rest, n, file))
         /\ DOMAIN rest \ DOMAIN With(rest, n, file) = {}
    BY <2>5, <2>6, <2>7, <2>8, NamesAdded
  <2>12. root = With(rest, n, file)
    BY DEF n
  <2> HIDE DEF root
  <2>13. /\ DOMAIN disk' = DiskFields /\ disk'.root = root /\ disk'.staging = disk.staging
         /\ disk'.stagingExists = disk.stagingExists
    BY <1>2, <1>4, DiskChanged
  <2>14. DiskOK'
    BY <1>1, <1>2, <2>10, <2>12, <2>13, NewDisk
  <2>15. Action.kind \in Takes /\ Action.kind # "mkdir_staging"
    BY <1>1 DEF Takes
  <2>16. ASSUME NEW x \in DOMAIN disk.root \ DOMAIN disk'.root PROVE disk.root[x].data # Foreign
    BY <2>1, <2>9, <2>11, <2>12, <2>13, <2>16 DEF OwnNames, m
  <2>17. /\ \A x \in OwnNames(disk.root) : x # m => x \in OwnNames(disk'.root)
         /\ \A x \in PlayableNames(disk.root) : x # m => x \in PlayableNames(disk'.root)
         /\ n \in PlayableNames(disk'.root)
    BY <2>9, <2>11, <2>12, <2>13
  <2>18. QED BY <1>1, <1>4, <2>13, <2>14, <2>15, <2>16, <2>17, ActionDone DEF n, m
<1>5. QED BY <1>3, <1>4 DEF MoveWithin

LEMMA MoveOutStep ==
  ASSUME Inv, MoveOut
  PROVE  StepOK
<1> DEFINE from == disk.root[Action.src]
           file == [size |-> from.size, mtime |-> from.mtime, data |-> from.data]
           staging == With(disk.staging, Action.dst, file)
           root == Without(disk.root, Action.src)
<1>1. cycle.step \in Busy /\ Action.kind = "deactivate" /\ now' = now /\ wants' = wants
  BY DEF MoveOut, Running, Busy
<1>2. /\ DiskOK /\ DOMAIN disk = DiskFields /\ FilesOK(disk.root, now) /\ StagedOK(disk.staging, now)
  BY DEF Inv, DiskOK
<1>3. disk.stagingExists
  BY <1>1, Underway DEF Staging
<1>4. CASE UNCHANGED disk /\ Stop
  <2>1. DiskOK' /\ disk'.root = disk.root
    BY <1>1, <1>2, <1>4 DEF DiskOK
  <2>2. QED BY <1>1, <1>4, <2>1, PlanStopped
<1>5. CASE /\ Action.dst \notin DOMAIN disk.staging /\ Action.src \in DOMAIN disk.root
           /\ disk' = [disk EXCEPT !.root = root, !.staging = staging]
           /\ Done
  <2> DEFINE m == Action.src
  <2>1. m \in OwnNames(disk.root) /\ Action.dst = Staged(m.sha)
    BY <1>1, Underway DEF Takes, ActionOK, StagingDeletes
  <2>2. FileOK(m, from, now) /\ from.data # Foreign
    BY <1>2, <2>1 DEF FilesOK, OwnNames
  <2> HIDE DEF from
  <2>3. /\ from.data = m.sha /\ from.mtime <= now /\ from.mtime \in 0 .. MaxTime
        /\ \E v \in Library : SizeMatches(v, m, from)
    BY <2>2 DEF FileOK
  <2>4. PICK v \in Library : SizeMatches(v, m, from)
    BY <2>3
  <2>5. v.sha = m.sha /\ v.size = from.size
    BY <2>4 DEF SizeMatches
  <2>6. from.mtime \in 0 .. now
    BY <1>2, <2>3, ReconcileAssumption DEF DiskOK
  <2>7. Action.dst \in StagedNames /\ Action.dst.sha = v.sha
    BY <2>1, <2>5, NamesOfVideo
  <2>8. StagedFileOK(Action.dst, file, now)
    BY <2>3, <2>5, <2>6, <2>7 DEF StagedFileOK
  <2> HIDE DEF file
  <2>9. StagedOK(staging, now)
    BY <1>2, <2>7, <2>8, StagedAdded
  <2>10. FilesOK(root, now)
    BY <1>2, FileRemoved
  <2>11. /\ \A x \in OwnNames(disk.root) : x # m => x \in OwnNames(root)
         /\ \A x \in PlayableNames(disk.root) : x # m => x \in PlayableNames(root)
         /\ \A x \in DOMAIN disk.root \ DOMAIN root : x = m
    BY NamesRemoved
  <2> HIDE DEF staging, root
  <2>12. /\ DOMAIN disk' = DiskFields /\ disk'.root = root /\ disk'.staging = staging
         /\ disk'.stagingExists = disk.stagingExists
    BY <1>2, <1>5, DiskChanged
  <2>13. DiskOK'
    BY <1>1, <1>2, <1>3, <2>9, <2>10, <2>12, NewDisk
  <2>14. Action.kind \in Takes /\ Action.kind \notin Puts /\ Action.kind # "mkdir_staging"
    BY <1>1 DEF Takes, Puts
  <2>15. ASSUME NEW x \in DOMAIN disk.root \ DOMAIN disk'.root PROVE disk.root[x].data # Foreign
    BY <2>1, <2>11, <2>12, <2>15 DEF OwnNames
  <2>16. QED BY <1>1, <1>3, <1>5, <2>11, <2>12, <2>13, <2>14, <2>15, ActionDone
<1>6. QED BY <1>4, <1>5 DEF MoveOut

(* The last look before a legacy deletion is what LegacyOnlyOnRequest asks *)
(* for.                                                                    *)
LEMMA ConfirmStep ==
  ASSUME Inv, ConfirmLegacyDelete
  PROVE  StepOK
<1>1. /\ cycle.step = "run" /\ cycle.step \in Busy /\ Action.kind = "delete_legacy"
      /\ disk' = disk /\ now' = now /\ wants' = wants
  BY DEF ConfirmLegacyDelete, Running, Busy
<1>2. DiskOK' /\ CycleOK /\ TodoOK(cycle.todo, disk.root, disk.stagingExists, cycle.touched)
  BY <1>1 DEF Inv, DiskOK
<1>3. CASE Stop
  BY <1>1, <1>2, <1>3, PlanStopped
<1>4. CASE /\ Action.src \in DOMAIN rows /\ rows[Action.src].asked
           /\ Action.src \in DOMAIN disk.root
           /\ disk.root[Action.src].size = rows[Action.src].seen.size
           /\ cycle' = [cycle EXCEPT !.step = "confirmed"]
  <2>1. /\ CycleOK' /\ cycle'.todo = cycle.todo /\ cycle'.touched = cycle.touched
        /\ cycle'.step = "confirmed"
    BY <1>1, <1>2, <1>4, CycleSteps
  <2>2. TodoOK(cycle'.todo, disk'.root, disk'.stagingExists, cycle'.touched)
    BY <1>1, <1>2, <2>1
  <2>3. Inv'
    BY <1>1, <1>2, <2>1, <2>2 DEF Inv
  <2>4. LegacyStep
    BY <1>1, <1>4 DEF LegacyStep
  <2>5. BlackStep
    BY <1>1 DEF BlackStep
  <2>6. QED BY <2>3, <2>4, <2>5 DEF StepOK
<1>5. QED BY <1>3, <1>4 DEF ConfirmLegacyDelete

LEMMA DeleteVisibleStep ==
  ASSUME Inv, DeleteVisible
  PROVE  StepOK
<1> DEFINE m == Action.src
           root == Without(disk.root, m)
<1>1. /\ cycle.step \in Busy /\ now' = now /\ wants' = wants
      /\ Action.kind = "delete_active" \/ (cycle.step = "confirmed" /\ Action.kind = "delete_legacy")
  BY DEF DeleteVisible, Running, Busy, Inv, CycleOK
<1>2. /\ DiskOK /\ DOMAIN disk = DiskFields /\ FilesOK(disk.root, now) /\ StagedOK(disk.staging, now)
      /\ disk.stagingExists \in BOOLEAN /\ (DOMAIN disk.staging # {} => disk.stagingExists)
  BY DEF Inv, DiskOK
<1>3. CASE UNCHANGED disk /\ Stop
  <2>1. DiskOK' /\ disk'.root = disk.root
    BY <1>1, <1>2, <1>3 DEF DiskOK
  <2>2. QED BY <1>1, <1>3, <2>1, PlanStopped
<1>4. CASE disk' = [disk EXCEPT !.root = root] /\ Done
  <2>1. Action.kind = "delete_active" => m \in OwnNames(disk.root)
    BY <1>1, Underway DEF Takes
  <2>2. FilesOK(root, now)
    BY <1>2, FileRemoved
  <2>3. /\ \A x \in OwnNames(disk.root) : x # m => x \in OwnNames(root)
        /\ \A x \in PlayableNames(disk.root) : x # m => x \in PlayableNames(root)
        /\ \A x \in DOMAIN disk.root \ DOMAIN root : x = m
    BY NamesRemoved
  <2> HIDE DEF root
  <2>4. /\ DOMAIN disk' = DiskFields /\ disk'.root = root /\ disk'.staging = disk.staging
        /\ disk'.stagingExists = disk.stagingExists
    BY <1>2, <1>4, DiskChanged
  <2>5. DiskOK'
    BY <1>1, <1>2, <2>2, <2>4, NewDisk
  <2>6. Action.kind \in Takes /\ Action.kind \notin Puts /\ Action.kind # "mkdir_staging"
    BY <1>1 DEF Takes, Puts
  <2>7. ASSUME NEW x \in DOMAIN disk.root \ DOMAIN disk'.root, disk.root[x].data = Foreign
        PROVE  cycle.step = "confirmed" /\ x = m
    BY <1>1, <2>1, <2>3, <2>4, <2>7 DEF OwnNames
  <2>8. QED BY <1>1, <1>4, <2>3, <2>4, <2>5, <2>6, <2>7, ActionDone
<1>5. QED BY <1>3, <1>4 DEF DeleteVisible

-----------------------------------------------------------------------------
(* The cycle's other steps: nothing changes on the disk                    *)

LEMMA DiskLeftAlone ==
  ASSUME Inv, disk' = disk, now' = now, wants' \subseteq WantPool, CycleOK',
         cycle'.step = "listed" => ListedOK(cycle'.listing, cycle'.touched),
         TodoOK(cycle'.todo, disk.root, disk.stagingExists, cycle'.touched),
         cycle.step # "confirmed" => cycle'.step # "confirmed"
  PROVE  StepOK
<1>1. DiskOK'
  BY DEF Inv, DiskOK
<1>2. cycle'.step = "listed" => ListedOK(cycle.listing, cycle.touched)'
  BY DEF ListedOK
<1>3. Inv'
  BY <1>1, <1>2 DEF Inv
<1>4. LegacyStep /\ BlackStep
  BY DEF LegacyStep, BlackStep
<1>5. QED BY <1>3, <1>4 DEF StepOK

LEMMA ListingIsOK ==
  ASSUME DiskOK, NEW touched
  PROVE  ListedOK(Listing(disk), touched)
<1> DEFINE l == Listing(disk)
<1>1. /\ DOMAIN l.root = DOMAIN disk.root /\ DOMAIN l.staging = DOMAIN disk.staging
      /\ l.stagingExists = disk.stagingExists
      /\ \A n \in DOMAIN disk.root : l.root[n].size = disk.root[n].size
  BY DEF Listing
<1>2. /\ FilesOK(disk.root, now) /\ StagedOK(disk.staging, now) /\ disk.stagingExists \in BOOLEAN
  BY DEF DiskOK
<1> HIDE DEF l
<1>3. ASSUME NEW n \in Owned(l) PROVE n \in OwnNames(disk.root)
  <2>1. n \in DOMAIN disk.root /\ \E v \in Library : Matches(v, n, l.root)
    BY <1>1, <1>3 DEF Owned
  <2>2. PICK v \in Library : Matches(v, n, l.root)
    BY <2>1
  <2>3. SizeMatches(v, n, disk.root[n])
    BY <1>1, <2>1, <2>2 DEF Matches, SizeMatches
  <2>4. disk.root[n].data # Foreign
    BY <1>2, <2>1, <2>3 DEF FilesOK, FileOK
  <2>5. QED BY <2>1, <2>4 DEF OwnNames
<1>4. QED BY <1>1, <1>2, <1>3 DEF ListedOK, FilesOK, StagedOK, l

LEMMA ReadStep ==
  ASSUME Inv, ReadRemoteState
  PROVE  StepOK
<1> DEFINE l == Listing(disk)
<1>1. /\ cycle' = [Idle("none") EXCEPT !.step = "listed", !.at = now, !.listing = l]
      /\ disk' = disk /\ now' = now /\ wants' = wants
  BY DEF ReadRemoteState
<1>2. DiskOK /\ wants \subseteq WantPool
  BY DEF Inv
<1>3. ListedOK(l, FALSE)
  BY <1>2, ListingIsOK
<1> HIDE DEF l
<1>4. /\ CycleOK' /\ cycle'.step = "listed" /\ cycle'.todo = <<>>
      /\ cycle'.listing = l /\ cycle'.touched = FALSE
  BY <1>1, CycleIdle
<1>5. TodoOK(cycle'.todo, disk.root, disk.stagingExists, cycle'.touched)
  BY <1>4, TodoEmpty
<1>6. QED BY <1>1, <1>2, <1>3, <1>4, <1>5, DiskLeftAlone

LEMMA PlanStep ==
  ASSUME Inv, SnapshotAndPlan
  PROVE  StepOK
<1> DEFINE files == StoreSnapshot(rows, cycle.listing)
           s == Plan(PlannerInput(cycle.listing, files, cycle.at))
           seen == Seen(files)
<1>1. /\ cycle.step = "listed" /\ disk' = disk /\ now' = now /\ wants' = wants
      /\ cycle' = IF s = <<>>
                    THEN [cycle EXCEPT !.step = "idle", !.outcome = "synced", !.seen = seen]
                    ELSE [cycle EXCEPT !.step = "run", !.todo = s, !.seen = seen]
  BY DEF SnapshotAndPlan
<1>2. (\E T : s \in Seq(T)) /\ TodoOK(s, disk.root, disk.stagingExists, cycle.touched)
  BY <1>1, PlanIsTodo
<1> HIDE DEF s, seen
<1>3. CycleOK /\ wants \subseteq WantPool /\ DOMAIN cycle = CycleFields /\ cycle.todo = <<>>
  BY <1>1 DEF Inv, CycleOK
<1>4. CASE s = <<>>
  <2>1. /\ DOMAIN cycle' = CycleFields /\ cycle'.step = "idle" /\ cycle'.outcome = "synced"
        /\ cycle'.todo = <<>> /\ cycle'.touched = cycle.touched
    BY <1>1, <1>3, <1>4 DEF CycleFields
  <2>2. \E T : cycle'.todo \in Seq(T)
    BY <1>2, <1>4, <2>1
  <2>3. CycleOK'
    BY <2>1, <2>2 DEF CycleOK
  <2>4. TodoOK(cycle'.todo, disk.root, disk.stagingExists, cycle'.touched)
    BY <2>1, TodoEmpty
  <2>5. QED BY <1>1, <1>3, <2>1, <2>3, <2>4, DiskLeftAlone
<1>5. CASE s # <<>>
  <2>1. /\ DOMAIN cycle' = CycleFields /\ cycle'.step = "run" /\ cycle'.outcome = cycle.outcome
        /\ cycle'.todo = s /\ cycle'.touched = cycle.touched
    BY <1>1, <1>3, <1>5 DEF CycleFields
  <2>2. CycleOK'
    BY <1>2, <1>3, <1>5, <2>1 DEF CycleOK
  <2>3. QED BY <1>1, <1>2, <1>3, <2>1, <2>2, DiskLeftAlone
<1>6. QED BY <1>4, <1>5

LEMMA OverStep ==
  ASSUME Inv, CheckAfter \/ CycleLost
  PROVE  StepOK
<1>1. disk' = disk /\ now' = now /\ wants' = wants /\ wants \subseteq WantPool
  BY DEF CheckAfter, CycleLost, Inv
<1>2. CycleOK' /\ cycle'.step = "idle" /\ cycle'.todo = <<>>
  <2>1. CASE CheckAfter
    <3> DEFINE listing == Listing(disk)
               files   == StoreSnapshot(rows, listing)
               after   == Plan(PlannerInput(listing, files, now))
               outcome == CASE cycle.failed -> "error"
                            [] after = <<>> -> "synced"
                            [] OTHER        -> "pending"
               seen    == Seen(files)
    <3>1. cycle' = [Idle(outcome) EXCEPT !.at = now, !.seen = seen, !.listing = listing]
      BY <2>1 DEF CheckAfter
    <3> HIDE DEF listing, after, seen
    <3>2. outcome \in {"none", "synced", "pending", "error", "lost"}
      OBVIOUS
    <3> HIDE DEF outcome
    <3>3. QED BY <3>1, <3>2, CycleIdle
  <2>2. CASE CycleLost
    BY <2>2, CycleIdle DEF CycleLost
  <2>3. QED BY <2>1, <2>2
<1>3. TodoOK(cycle'.todo, disk.root, disk.stagingExists, cycle'.touched)
  BY <1>2, TodoEmpty
<1>4. QED BY <1>1, <1>2, <1>3, DiskLeftAlone

LEMMA RefusedStep ==
  ASSUME Inv, ActionRefused
  PROVE  StepOK
<1>1. /\ cycle.step \in Busy /\ Stop /\ wants' = wants /\ disk' = disk /\ now' = now
  BY DEF ActionRefused, Busy
<1>2. DiskOK'
  BY <1>1 DEF Inv, DiskOK
<1>3. QED BY <1>1, <1>2, PlanStopped

(* The schedule and the requests change only what the next plan reads.     *)
LEMMA AskedStep ==
  ASSUME Inv, \/ \E w \in WantPool : EditSchedule(w)
              \/ \E n \in DOMAIN rows : RequestDelete(n)
              \/ UNCHANGED vars
  PROVE  StepOK
<1>1. disk' = disk /\ now' = now /\ cycle' = cycle /\ wants' \subseteq WantPool
  BY DEF EditSchedule, RequestDelete, Inv, vars
<1>2. CycleOK'
  BY <1>1 DEF Inv, CycleOK, Action
<1>3. QED BY <1>1, <1>2, DiskLeftAlone DEF Inv

LEMMA TickStep ==
  ASSUME Inv, Tick
  PROVE  StepOK
<1>1. /\ disk' = disk /\ cycle' = cycle /\ wants' = wants /\ now' = now + 1 /\ now < MaxTime
  BY DEF Tick
<1>2. DiskOK /\ now \in Nat /\ FilesOK(disk.root, now) /\ StagedOK(disk.staging, now)
  BY ReconcileAssumption DEF Inv, DiskOK
<1>3. FilesOK(disk.root, now + 1) /\ StagedOK(disk.staging, now + 1)
  <2> DEFINE root == disk.root
             staging == disk.staging
  <2>1. FilesOK(root, now) /\ StagedOK(staging, now)
    BY <1>2
  <2> HIDE DEF root, staging
  <2>2. FilesOK(root, now + 1) /\ StagedOK(staging, now + 1)
    BY <1>2, <2>1, LaterOn
  <2>3. QED BY <2>2 DEF root, staging
<1>4. now + 1 \in 0 .. MaxTime
  BY <1>1, <1>2, ReconcileAssumption
<1>5. DiskOK'
  BY <1>1, <1>2, <1>3, <1>4 DEF DiskOK
<1>6. CycleOK'
  BY <1>1 DEF Inv, CycleOK, Action
<1>7. cycle'.step = "listed" => ListedOK(cycle.listing, cycle.touched)'
  BY <1>1 DEF Inv, ListedOK
<1>8. Inv'
  BY <1>1, <1>5, <1>6, <1>7 DEF Inv
<1>9. LegacyStep /\ BlackStep
  BY <1>1 DEF LegacyStep, BlackStep
<1>10. QED BY <1>8, <1>9 DEF StepOK

-----------------------------------------------------------------------------
(* People at the folder                                                    *)

(* A hand may add any file of somebody else's and take such a file away:   *)
(* what is still to be done stands, but no longer promises a film.         *)
LEMMA HandStep ==
  ASSUME Inv, Shape, NEW root, FilesOK(root, now), OwnNames(disk.root) \subseteq OwnNames(root),
         disk' = [disk EXCEPT !.root = root], cycle' = [cycle EXCEPT !.touched = TRUE],
         left' = [left EXCEPT !.touches = left.touches - 1],
         now' = now, wants' = wants
  PROVE  StepOK
<1>1. /\ DiskOK /\ DOMAIN disk = DiskFields /\ StagedOK(disk.staging, now) /\ wants \subseteq WantPool
      /\ disk.stagingExists \in BOOLEAN /\ (DOMAIN disk.staging # {} => disk.stagingExists)
      /\ CycleOK /\ DOMAIN cycle = CycleFields
      /\ TodoOK(cycle.todo, disk.root, disk.stagingExists, cycle.touched)
      /\ cycle.step = "listed" => ListedOK(cycle.listing, cycle.touched)
  BY DEF Inv, DiskOK, CycleOK
<1>2. /\ DOMAIN disk' = DiskFields /\ disk'.root = root /\ disk'.staging = disk.staging
      /\ disk'.stagingExists = disk.stagingExists
  BY <1>1, DiskChanged
<1>3. DiskOK'
  BY <1>1, <1>2, NewDisk
<1>4. /\ DOMAIN cycle' = CycleFields /\ cycle'.step = cycle.step /\ cycle'.outcome = cycle.outcome
      /\ cycle'.todo = cycle.todo /\ cycle'.touched = TRUE /\ cycle'.listing = cycle.listing
  BY <1>1 DEF CycleFields
<1>5. Action' = Action
  BY <1>4 DEF Action
<1>6. CycleOK'
  BY <1>1, <1>4, <1>5 DEF CycleOK
<1>7. TodoOK(cycle'.todo, disk'.root, disk'.stagingExists, cycle'.touched)
  BY <1>1, <1>2, <1>4, TodoKept
<1>8. cycle'.step = "listed" => ListedOK(cycle.listing, cycle.touched)'
  BY <1>1, <1>2, <1>4 DEF ListedOK
<1>9. Inv'
  BY <1>1, <1>3, <1>6, <1>7, <1>8 DEF Inv
<1>10. LegacyStep
  <2>1. ByHand
    BY DEF ByHand, Shape
  <2>2. QED BY <1>4, <2>1 DEF LegacyStep
<1>11. BlackStep
  BY <1>4 DEF BlackStep
<1>12. QED BY <1>9, <1>10, <1>11 DEF StepOK

(* A file by hand is not of the size of the video its name speaks of.      *)
LEMMA HandFileOK ==
  ASSUME NEW f \in FilesOfOthers, NEW at
  PROVE  f.name \in Names /\ FileOK(f.name, f.file, at) /\ f.file.data = Foreign
<1> DEFINE n == f.name
           file == f.file
<1>1. /\ n \in Names /\ file \in [size : Nat, mtime : 0 .. MaxTime, isDir : BOOLEAN, data : {Foreign}]
      /\ \A v \in Library : ~ (v.slug = n.slug /\ v.sha = n.sha /\ v.size = file.size)
  BY FilesAssumption
<1> HIDE DEF n, file
<1>2. file \in [size : Nat, mtime : 0 .. MaxTime, isDir : BOOLEAN, data : Shas \cup {Foreign}]
  BY <1>1
<1>3. file.data = Foreign
  BY <1>1
<1>4. FileOK(n, file, at)
  BY <1>1, <1>2, <1>3 DEF FileOK, SizeMatches
<1>5. QED BY <1>1, <1>3, <1>4 DEF n, file

LEMMA CopyStep ==
  ASSUME Inv, Shape, NEW h \in HandFiles, CopyByHand(h)
  PROVE  StepOK
<1> DEFINE n == h.name
           file == h.file
           root == With(disk.root, n, file)
<1>1. /\ disk' = [disk EXCEPT !.root = root] /\ cycle' = [cycle EXCEPT !.touched = TRUE]
      /\ left' = [left EXCEPT !.touches = left.touches - 1] /\ now' = now /\ wants' = wants
      /\ n \in DOMAIN disk.root => disk.root[n].data = Foreign
  BY DEF CopyByHand
<1>2. n \in Names /\ FileOK(n, file, now)
  BY HandFileOK DEF FilesOfOthers
<1>3. FilesOK(disk.root, now)
  BY DEF Inv, DiskOK
<1> HIDE DEF n, file
<1>4. FilesOK(root, now)
  BY <1>2, <1>3, FileAdded
<1>5. OwnNames(disk.root) \subseteq OwnNames(root)
  <2>1. /\ DOMAIN root = DOMAIN disk.root \cup {n}
        /\ \A z \in DOMAIN disk.root : z # n => root[z] = disk.root[z]
    BY DEF With
  <2> HIDE DEF root
  <2>2. QED BY <1>1, <2>1 DEF OwnNames
<1> HIDE DEF root
<1>6. QED BY <1>1, <1>4, <1>5, HandStep

LEMMA TakeStep ==
  ASSUME Inv, Shape, NEW n \in DOMAIN disk.root, DeleteByHand(n)
  PROVE  StepOK
<1> DEFINE root == Without(disk.root, n)
<1>1. /\ disk' = [disk EXCEPT !.root = root] /\ cycle' = [cycle EXCEPT !.touched = TRUE]
      /\ left' = [left EXCEPT !.touches = left.touches - 1] /\ now' = now /\ wants' = wants
      /\ disk.root[n].data = Foreign
  BY DEF DeleteByHand
<1>2. FilesOK(disk.root, now)
  BY DEF Inv, DiskOK
<1>3. FilesOK(root, now)
  BY <1>2, FileRemoved
<1>4. OwnNames(disk.root) \subseteq OwnNames(root)
  BY <1>1, NamesRemoved DEF OwnNames
<1> HIDE DEF root
<1>5. QED BY <1>1, <1>3, <1>4, HandStep

-----------------------------------------------------------------------------
(* Every step                                                              *)

LEMMA InitOK == Init => Inv
<1> SUFFICES ASSUME Init PROVE Inv
  OBVIOUS
<1>1. /\ disk = [root |-> InitialRoot, staging |-> <<>>, stagingExists |-> FALSE]
      /\ now = 0 /\ wants = InitialWants /\ cycle = Idle("none")
  BY DEF Init
<1>2. /\ DOMAIN disk = DiskFields /\ disk.root = InitialRoot /\ disk.staging = <<>>
      /\ disk.stagingExists = FALSE
  BY <1>1 DEF DiskFields
<1>3. FilesOK(InitialRoot, now)
  <2>1. ASSUME NEW n \in DOMAIN InitialRoot
        PROVE  n \in Names /\ FileOK(n, InitialRoot[n], now)
    <3> DEFINE f == [name |-> n, file |-> InitialRoot[n]]
    <3>1. f \in FilesOfOthers
      BY DEF FilesOfOthers
    <3>2. f.name \in Names /\ FileOK(f.name, f.file, now)
      BY <3>1, HandFileOK
    <3>3. QED BY <3>2
  <2>2. QED BY <2>1, FilesAssumption DEF FilesOK
<1>4. StagedOK(<<>>, now)
  <2>1. DOMAIN <<>> = {}
    OBVIOUS
  <2>2. IsAFunction(<<>>)
    BY DEF IsAFunction
  <2>3. QED BY <2>1, <2>2, FS_EmptySet DEF StagedOK
<1>5. DiskOK
  <2>1. DOMAIN disk.staging = {} /\ 0 \in 0 .. MaxTime
    BY <1>2, ReconcileAssumption
  <2>2. QED BY <1>1, <1>2, <1>3, <1>4, <2>1 DEF DiskOK
<1>6. /\ DOMAIN cycle = CycleFields /\ cycle.step = "idle" /\ cycle.outcome = "none"
      /\ cycle.todo = <<>>
  BY <1>1 DEF Idle, CycleFields
<1>7. CycleOK
  <2>1. <<>> \in Seq({})
    OBVIOUS
  <2>2. \E T : cycle.todo \in Seq(T)
    BY <1>6, <2>1
  <2>3. QED BY <1>6, <2>2 DEF CycleOK
<1>8. TodoOK(cycle.todo, disk.root, disk.stagingExists, cycle.touched)
  BY <1>6, TodoEmpty
<1>9. QED BY <1>1, <1>5, <1>6, <1>7, <1>8, ReconcileAssumption DEF Inv

LEMMA EveryStep == Shape /\ Inv /\ [Next]_vars => StepOK
<1> SUFFICES ASSUME Shape, Inv, [Next]_vars PROVE StepOK
  OBVIOUS
<1>1. CASE UNCHANGED vars
  BY <1>1, AskedStep
<1>2. CASE CycleStep
  BY <1>2, ReadStep, PlanStep, OverStep, MkdirStep, StartUploadStep, FinishUploadStep, MoveInStep,
     MoveWithinStep, MoveOutStep, ConfirmStep, DeleteVisibleStep, DeleteHiddenStep
     DEF CycleStep, Execute
<1>3. CASE Fault
  BY <1>3, UploadShortStep, RefusedStep, OverStep DEF Fault
<1>4. CASE Tick
  BY <1>4, TickStep
<1>5. CASE People
  BY <1>5, AskedStep, CopyStep, TakeStep DEF People
<1>6. QED BY <1>1, <1>2, <1>3, <1>4, <1>5 DEF Next

-----------------------------------------------------------------------------
(* The theorems                                                            *)

(* The inductive invariant: in every state, idle or in the middle of a     *)
(* plan, whatever failed, was edited or was copied by hand, the app's      *)
(* files are whole videos under their own names, and what is still to be   *)
(* done of the plan takes away only files of the app's that are there (and *)
(* legacy files), each once, and never the last thing the player can play. *)
THEOREM CycleInvariant == Spec => [](Shape /\ Inv)
<1>1. Shape /\ Inv /\ [Next]_vars => (Shape /\ Inv)'
  BY StepKeeps, EveryStep DEF StepOK
<1>2. QED BY <1>1, InitShape, InitOK, PTL DEF Spec

(* What the app recognises by name and size as its own copy of a video is  *)
(* that whole video: an upload cut short never becomes visible and never   *)
(* passes for a finished copy (executor.py sends to a .part, and renames   *)
(* it only once the size on the Pi is right).                              *)
THEOREM OnlyWholeVideosAreSeen == Spec => []OnlyWholeVideos
<1>1. Inv => OnlyWholeVideos
  <2> SUFFICES ASSUME Inv PROVE OnlyWholeVideos
    OBVIOUS
  <2>1. FilesOK(disk.root, now) /\ StagedOK(disk.staging, now)
    BY DEF Inv, DiskOK
  <2>2. ASSUME NEW n \in DOMAIN disk.root,
               NEW v \in Library, v.slug = n.slug, v.sha = n.sha, v.size = disk.root[n].size
        PROVE  disk.root[n].data = n.sha
    BY <2>1, <2>2 DEF FilesOK, FileOK, SizeMatches
  <2>3. ASSUME NEW s \in DOMAIN disk.staging, ~ s.part PROVE disk.staging[s].data = s.sha
    BY <2>1, <2>3 DEF StagedOK, StagedFileOK
  <2>4. QED BY <2>2, <2>3 DEF OnlyWholeVideos
<1>2. QED BY <1>1, CycleInvariant, PTL

(* The shape of the state.                                                 *)
THEOREM CycleTypeCorrect == Spec => []TypeOK
<1>1. Inv => TypeOK
  <2> SUFFICES ASSUME Inv PROVE TypeOK
    OBVIOUS
  <2>1. /\ FilesOK(disk.root, now) /\ StagedOK(disk.staging, now) /\ now \in 0 .. MaxTime
        /\ DOMAIN disk.staging # {} => disk.stagingExists
    BY DEF Inv, DiskOK
  <2>2. ASSUME NEW n \in DOMAIN disk.root
        PROVE  /\ disk.root[n] \in [size : Nat, mtime : 0 .. MaxTime, isDir : BOOLEAN,
                                    data : Shas \cup {Foreign, Broken}]
               /\ disk.root[n].data # Foreign => n.nnn \in 1 .. MaxPrefix
    <3> DEFINE f == disk.root[n]
    <3>1. FileOK(n, f, now)
      BY <2>1 DEF FilesOK
    <3> HIDE DEF f
    <3>2. f \in [size : Nat, mtime : 0 .. MaxTime, isDir : BOOLEAN, data : Shas \cup {Foreign}]
      BY <3>1 DEF FileOK
    <3>3. f \in [size : Nat, mtime : 0 .. MaxTime, isDir : BOOLEAN, data : Shas \cup {Foreign, Broken}]
      BY <3>2
    <3>4. f.data # Foreign => n.nnn \in 1 .. MaxPrefix
      BY <3>1 DEF FileOK
    <3>5. QED BY <3>3, <3>4 DEF f
  <2>3. DOMAIN disk.root \subseteq Names /\ \A s \in DOMAIN disk.staging : disk.staging[s].mtime \in 0 .. now
    BY <2>1 DEF FilesOK, StagedOK, StagedFileOK
  <2>4. disk.staging # <<>> => disk.stagingExists
    <3> DEFINE staging == disk.staging
    <3>1. IsAFunction(staging)
      BY <2>1 DEF StagedOK
    <3> HIDE DEF staging
    <3>2. DOMAIN staging = {} => staging = <<>>
      BY <3>1 DEF IsAFunction
    <3>3. QED BY <2>1, <3>2 DEF staging
  <2>5. wants \subseteq WantPool /\ CycleOK
    BY DEF Inv
  <2>6. QED BY <2>1, <2>2, <2>3, <2>4, <2>5 DEF TypeOK, CycleOK
<1>2. QED BY <1>1, CycleInvariant, PTL

(* A legacy file leaves the folder only by a deletion of the plan, right   *)
(* after a last look that found an administrator's request for it standing *)
(* and the file of the size it was asked for with (executor.py,            *)
(* DELETE_LEGACY; cycle.py, the confirmation).                             *)
THEOREM LegacyGoesOnlyOnRequest == Spec => LegacyOnlyOnRequest
<1>1. Shape /\ Inv /\ [Next]_vars => LegacyStep
  BY EveryStep DEF StepOK
<1>2. QED BY <1>1, CycleInvariant, PTL DEF Spec, LegacyOnlyOnRequest, LegacyStep

(* Once something playable is in the folder, no step leaves it without: no *)
(* action of any plan, executed or cut short anywhere, and whatever is     *)
(* edited, asked for or lost meanwhile - as long as nobody takes files     *)
(* away by hand between the listing and the action (planner.py:9).         *)
THEOREM TheScreenIsNeverBlack == Spec => NeverBlack
<1>1. Shape /\ Inv /\ [Next]_vars => BlackStep
  BY EveryStep DEF StepOK
<1>2. QED BY <1>1, CycleInvariant, PTL DEF Spec, NeverBlack, BlackStep

-----------------------------------------------------------------------------
(* A store that is up to date                                              *)

(* What the last plan was made from.                                       *)
LastInput ==
  [now      |-> cycle.at,
   remote   |-> cycle.listing,
   wants    |-> {w \in cycle.seen.wants : w.end = None \/ w.end > cycle.at},
   library  |-> Library,
   requests |-> cycle.seen.requests,
   maxBytes |-> MaxBytes]

(* As long as nobody touches the folder, it stays as it was when the plan  *)
(* found nothing to do.                                                    *)
UpToDate ==
  /\ cycle.step = "listed" => cycle.at \in Nat
  /\ cycle.outcome = "synced" => cycle.step = "idle"
  /\ cycle.outcome = "synced" /\ ~ cycle.touched =>
       /\ cycle.at \in Nat
       /\ cycle.listing = Listing(disk)
       /\ cycle.seen.wants \subseteq WantPool
       /\ Plan(LastInput) = <<>>

LEMMA NotYet ==
  ASSUME cycle'.step # "listed", cycle'.outcome # "synced"
  PROVE  UpToDate'
BY DEF UpToDate

LEMMA WhileBusy ==
  ASSUME CycleOK, UpToDate, cycle.step \in Busy,
         \/ Done
         \/ Stop
         \/ cycle' = [cycle EXCEPT !.step = "sending"]
         \/ cycle' = [cycle EXCEPT !.step = "confirmed"]
  PROVE  UpToDate'
<1>1. DOMAIN cycle = CycleFields /\ cycle.outcome # "synced"
  BY DEF CycleOK, UpToDate, Busy
<1>2. cycle'.outcome = cycle.outcome /\ cycle'.step # "listed"
  BY <1>1 DEF Done, Stop, CycleFields
<1>3. QED BY <1>1, <1>2, NotYet

LEMMA SyncedByPlan ==
  ASSUME Inv, UpToDate, SnapshotAndPlan
  PROVE  UpToDate'
<1> DEFINE files == StoreSnapshot(rows, cycle.listing)
           inp   == PlannerInput(cycle.listing, files, cycle.at)
           s     == Plan(inp)
           seen  == Seen(files)
<1>1. /\ cycle.step = "listed" /\ disk' = disk /\ wants' = wants
      /\ cycle' = IF s = <<>>
                    THEN [cycle EXCEPT !.step = "idle", !.outcome = "synced", !.seen = seen]
                    ELSE [cycle EXCEPT !.step = "run", !.todo = s, !.seen = seen]
  BY DEF SnapshotAndPlan
<1>2. /\ seen.wants = wants
      /\ inp = [now |-> cycle.at, remote |-> cycle.listing,
                wants |-> {w \in seen.wants : w.end = None \/ w.end > cycle.at},
                library |-> Library, requests |-> seen.requests, maxBytes |-> MaxBytes]
  BY DEF PlannerInput, Seen
<1> HIDE DEF seen, inp
<1>3. /\ DOMAIN cycle = CycleFields /\ wants \subseteq WantPool
      /\ cycle.outcome # "synced" /\ cycle.at \in Nat
      /\ ListedOK(cycle.listing, cycle.touched)
  BY <1>1 DEF Inv, CycleOK, UpToDate
<1>4. CASE s = <<>>
  <2> HIDE DEF s
  <2>1. /\ cycle'.step = "idle" /\ cycle'.outcome = "synced" /\ cycle'.seen = seen
        /\ cycle'.at = cycle.at /\ cycle'.listing = cycle.listing /\ cycle'.touched = cycle.touched
    BY <1>1, <1>3, <1>4 DEF CycleFields
  <2>2. LastInput' = inp
    BY <1>2, <2>1 DEF LastInput
  <2>3. Plan(LastInput)' = <<>>
    BY <1>4, <2>2 DEF s
  <2>4. ~ cycle.touched => cycle.listing = Listing(disk)
    BY <1>3 DEF ListedOK
  <2>5. Listing(disk)' = Listing(disk)
    BY <1>1
  <2>6. QED BY <1>2, <1>3, <2>1, <2>3, <2>4, <2>5 DEF UpToDate
<1>5. CASE s # <<>>
  <2> HIDE DEF s
  <2>1. cycle'.step = "run" /\ cycle'.outcome = cycle.outcome
    BY <1>1, <1>3, <1>5 DEF CycleFields
  <2>2. QED BY <1>3, <2>1, NotYet
<1>6. QED BY <1>4, <1>5

LEMMA SyncedByCheck ==
  ASSUME Inv, CheckAfter
  PROVE  UpToDate'
<1> DEFINE listing == Listing(disk)
           files   == StoreSnapshot(rows, listing)
           inp     == PlannerInput(listing, files, now)
           after   == Plan(inp)
           outcome == CASE cycle.failed -> "error"
                        [] after = <<>> -> "synced"
                        [] OTHER        -> "pending"
           seen    == Seen(files)
<1>1. /\ cycle' = [Idle(outcome) EXCEPT !.at = now, !.seen = seen, !.listing = listing]
      /\ disk' = disk /\ wants' = wants
  BY DEF CheckAfter
<1>2. /\ seen.wants = wants
      /\ inp = [now |-> now, remote |-> listing,
                wants |-> {w \in seen.wants : w.end = None \/ w.end > now},
                library |-> Library, requests |-> seen.requests, maxBytes |-> MaxBytes]
  BY DEF PlannerInput, Seen
<1>3. outcome = "synced" => after = <<>>
  OBVIOUS
<1>4. wants \subseteq WantPool /\ now \in Nat
  <2>1. now \in 0 .. MaxTime
    BY DEF Inv, DiskOK
  <2>2. QED BY <2>1 DEF Inv
<1> HIDE DEF seen, inp, outcome, after, listing
<1>5. /\ cycle'.step = "idle" /\ cycle'.outcome = outcome /\ cycle'.seen = seen
      /\ cycle'.at = now /\ cycle'.listing = listing
  BY <1>1 DEF Idle
<1>6. LastInput' = inp
  BY <1>2, <1>5 DEF LastInput
<1>7. outcome = "synced" => Plan(LastInput)' = <<>>
  BY <1>3, <1>6 DEF after
<1>8. Listing(disk)' = listing
  BY <1>1 DEF listing
<1>9. QED BY <1>2, <1>4, <1>5, <1>7, <1>8 DEF UpToDate

LEMMA SyncedByNobody ==
  ASSUME Inv, UpToDate, ReadRemoteState \/ CycleLost
  PROVE  UpToDate'
<1>1. CASE ReadRemoteState
  <2>1. now \in 0 .. MaxTime
    BY DEF Inv, DiskOK
  <2>2. cycle' = [Idle("none") EXCEPT !.step = "listed", !.at = now, !.listing = Listing(disk)]
    BY <1>1 DEF ReadRemoteState
  <2>3. cycle'.outcome = "none" /\ cycle'.step = "listed" /\ cycle'.at = now
    BY <2>2 DEF Idle
  <2>4. QED BY <2>1, <2>3 DEF UpToDate
<1>2. CASE CycleLost
  <2>1. cycle'.outcome = "lost" /\ cycle'.step = "idle"
    BY <1>2 DEF CycleLost, Idle
  <2>2. QED BY <2>1, NotYet
<1>3. QED BY <1>1, <1>2

LEMMA StaysUpToDate ==
  ASSUME UpToDate, cycle' = cycle, disk' = disk
  PROVE  UpToDate'
<1>1. LastInput' = LastInput /\ Listing(disk)' = Listing(disk)
  BY DEF LastInput
<1>2. Plan(LastInput)' = Plan(LastInput)
  BY <1>1
<1>3. QED BY <1>1, <1>2 DEF UpToDate

LEMMA TouchedByHand ==
  ASSUME CycleOK, UpToDate, cycle' = [cycle EXCEPT !.touched = TRUE]
  PROVE  UpToDate'
<1>1. /\ cycle'.touched = TRUE /\ cycle'.step = cycle.step /\ cycle'.outcome = cycle.outcome
      /\ cycle'.at = cycle.at
  BY DEF CycleOK, CycleFields
<1>2. QED BY <1>1 DEF UpToDate

LEMMA InitUpToDate == Init => UpToDate
BY DEF Init, Idle, UpToDate

LEMMA UpToDateSteps == Inv /\ UpToDate /\ [Next]_vars => UpToDate'
<1> SUFFICES ASSUME Inv, UpToDate, [Next]_vars PROVE UpToDate'
  OBVIOUS
<1>1. CycleOK
  BY DEF Inv
<1>2. CASE UNCHANGED vars
  BY <1>2, StaysUpToDate DEF vars
<1>3. CASE ReadRemoteState \/ SnapshotAndPlan \/ CheckAfter \/ CycleLost
  BY <1>3, SyncedByPlan, SyncedByCheck, SyncedByNobody
<1>4. CASE \/ MakeStagingDir \/ StartUpload \/ FinishUpload \/ UploadShort
           \/ MoveIn \/ MoveWithin \/ MoveOut
           \/ ConfirmLegacyDelete \/ DeleteVisible \/ DeleteHidden \/ ActionRefused
  <2>1. cycle.step \in Busy
    BY <1>4 DEF Busy, Running, MakeStagingDir, StartUpload, FinishUpload, UploadShort, MoveIn,
       MoveWithin, MoveOut, ConfirmLegacyDelete, DeleteVisible, DeleteHidden, ActionRefused
  <2>2. \/ Done
        \/ Stop
        \/ cycle' = [cycle EXCEPT !.step = "sending"]
        \/ cycle' = [cycle EXCEPT !.step = "confirmed"]
    BY <1>4, Zenon DEF MakeStagingDir, StartUpload, FinishUpload, UploadShort, MoveIn,
       MoveWithin, MoveOut, ConfirmLegacyDelete, DeleteVisible, DeleteHidden, ActionRefused
  <2>3. QED BY <1>1, <2>1, <2>2, WhileBusy
<1>5. CASE Tick \/ (\E w \in WantPool : EditSchedule(w)) \/ (\E n \in DOMAIN rows : RequestDelete(n))
  BY <1>5, StaysUpToDate DEF Tick, EditSchedule, RequestDelete
<1>6. CASE (\E h \in HandFiles : CopyByHand(h)) \/ (\E n \in DOMAIN disk.root : DeleteByHand(n))
  BY <1>1, <1>6, TouchedByHand DEF CopyByHand, DeleteByHand
<1>7. QED BY <1>2, <1>3, <1>4, <1>5, <1>6 DEF Next, CycleStep, Execute, Fault, People

LEMMA StoresUpToDate == Spec => []UpToDate
<1>1. QED BY CycleInvariant, InitUpToDate, UpToDateSteps, PTL DEF Spec

-----------------------------------------------------------------------------
(* The schedule and the folder                                             *)

(* No two videos of the library have one title and one content, and no     *)
(* file of somebody else's in the folder has a name of the app's.          *)
NoTwins == \A v, w \in Library : v.slug = w.slug /\ v.sha = w.sha => v = w

NothingLooksAlike ==
  \A n \in DOMAIN disk.root : disk.root[n].data = Foreign =>
    \A v \in Library : v.slug # n.slug \/ v.sha # n.sha

(* What the planner sets out to show is the first want of each content of  *)
(* what is due, in order.                                                  *)
LEMMA WantsAre ==
  ASSUME NEW w \in WantPool
  PROVE  /\ w.video \in Library /\ w.video.size > 0 /\ w.start \in Int
         /\ w.end = None \/ (w.end \in Int /\ w.start < w.end)
<1>1. /\ w.video \in Library /\ w.start \in Int
      /\ w.end \in Int \cup {None} /\ (w.end # None => w.start < w.end)
  BY LibraryAssumption
<1>2. w.video.size \in Nat /\ w.video.size > 1
  BY <1>1, LibraryAssumption, ReconcileAssumption DEF PartialBytes
<1>3. QED BY <1>1, <1>2

LEMMA DesiredIsDue ==
  ASSUME NEW ws, ws \subseteq WantPool, NEW at \in Nat
  PROVE  LET W == {w \in ws : w.end = None \/ w.end > at}
         IN  DesiredWants(W, at) = DistinctContent(InOrder(Due(ws, at)))
<1> DEFINE W      == {w \in ws : w.end = None \/ w.end > at}
           active == {w \in W : ValidWant(w) /\ IsActive(w, at)}
           live   == {w \in ws : IsActive(w, at)}
<1>1. \A w \in live : w \in W /\ ValidWant(w)
  <2>1. ASSUME NEW w \in ws, IsActive(w, at) PROVE w \in W /\ ValidWant(w)
    <3>1. w \in WantPool
      OBVIOUS
    <3>2. /\ w.video.size > 0 /\ (w.end = None \/ (w.end \in Int /\ w.start < w.end))
          /\ w.end = None \/ at < w.end
      BY <2>1, <3>1, WantsAre DEF IsActive
    <3>3. QED BY <3>2 DEF ValidWant
  <2>2. QED BY <2>1
<1>2. active = live
  BY <1>1
<1>3. DesiredWants(W, at) =
        DistinctContent(InOrder(IF {w \in active : ~ w.fallback} # {}
                                  THEN {w \in active : ~ w.fallback} ELSE active))
  BY DEF DesiredWants
<1>4. Due(ws, at) = IF {w \in live : ~ w.fallback} # {} THEN {w \in live : ~ w.fallback} ELSE live
  BY DEF Due
<1> HIDE DEF active, live
<1>5. QED BY <1>2, <1>3, <1>4

LEMMA DueInOrder ==
  ASSUME NEW ws, ws \subseteq WantPool, NEW at \in Nat
  PROVE  LET W == {w \in ws : w.end = None \/ w.end > at}
         IN  Firsts(DesiredWants(W, at), Due(ws, at)) /\ Due(ws, at) \subseteq WantsFor(Library)
<1> DEFINE due == Due(ws, at)
<1>1. due \in SUBSET WantPool
  BY DEF Due
<1> HIDE DEF due
<1>2. IsFiniteSet(due) /\ due \subseteq WantsFor(Library) /\ \A u, w \in due : u.id = w.id => u = w
  BY <1>1, FS_Subset, LibraryAssumption DEF WantsFor
<1>3. Firsts(DistinctContent(InOrder(due)), due)
  BY <1>2, FirstsInOrder
<1>4. QED BY <1>2, <1>3, DesiredIsDue DEF due

LEMMA FirstWantIs ==
  ASSUME NEW W, W \subseteq WantsFor(Library), NEW t, Firsts(t, W), NEW k \in 1 .. Len(t)
  PROVE  t[k] \in W /\ FirstWant(W, t[k].video.sha) = t[k]
<1> DEFINE sha == t[k].video.sha
           Is(w) == /\ w.video.sha = sha
                    /\ \A u \in W \ {w} : u.video.sha = sha => OrderBefore(w, u)
<1>1. t[k] \in W
  BY DEF Firsts, Schedule
<1>2. Is(t[k])
  BY DEF Firsts
<1>3. ASSUME NEW w \in W, Is(w) PROVE w = t[k]
  <2>1. ASSUME w # t[k] PROVE FALSE
    <3>1. OrderBefore(w, t[k]) /\ OrderBefore(t[k], w)
      BY <1>1, <1>2, <1>3, <2>1
    <3>2. /\ w.position \in Int /\ w.start \in Int /\ w.id \in Int
          /\ t[k].position \in Int /\ t[k].start \in Int /\ t[k].id \in Int
      BY <1>1 DEF WantsFor
    <3>3. QED BY <3>1, <3>2 DEF OrderBefore
  <2>2. QED BY <2>1
<1>4. FirstWant(W, sha) = CHOOSE w \in W : Is(w)
  BY DEF FirstWant
<1> HIDE DEF Is, sha
<1>5. (CHOOSE w \in W : Is(w)) = t[k]
  BY <1>1, <1>2, <1>3
<1>6. QED BY <1>1, <1>4, <1>5 DEF sha

(* What the planner takes for the app's copies is what the app sent.       *)
LEMMA OwnAre ==
  ASSUME DiskOK, NEW inp, inp.library = Library, inp.remote = Listing(disk)
  PROVE  /\ AppNames(inp) = OwnNames(disk.root)
         /\ \A n \in OwnNames(disk.root) : disk.root[n].data = n.sha
<1> DEFINE root == inp.remote.root
<1>1. /\ DOMAIN root = DOMAIN disk.root
      /\ \A n \in DOMAIN disk.root : /\ root[n].size = disk.root[n].size
                                     /\ root[n].isDir = disk.root[n].isDir
  BY DEF Listing
<1>2. \A n \in DOMAIN disk.root : FileOK(n, disk.root[n], now)
  BY DEF DiskOK, FilesOK
<1>3. AppNames(inp) = {n \in DOMAIN root : \E v \in Library : Matches(v, n, root)}
  BY DEF AppNames
<1> HIDE DEF root
<1>4. ASSUME NEW n \in DOMAIN disk.root
      PROVE  (\E v \in Library : Matches(v, n, root)) <=> disk.root[n].data # Foreign
  <2>1. FileOK(n, disk.root[n], now)
    BY <1>2
  <2>2. CASE disk.root[n].data = Foreign
    <3>1. \A v \in Library : ~ SizeMatches(v, n, disk.root[n])
      BY <2>1, <2>2 DEF FileOK
    <3>2. QED BY <1>1, <2>2, <3>1 DEF SizeMatches, Matches
  <2>3. CASE disk.root[n].data # Foreign
    <3>1. ~ disk.root[n].isDir /\ \E v \in Library : SizeMatches(v, n, disk.root[n])
      BY <2>1, <2>3 DEF FileOK
    <3>2. QED BY <1>1, <2>3, <3>1 DEF SizeMatches, Matches
  <2>4. QED BY <2>2, <2>3
<1>5. AppNames(inp) = OwnNames(disk.root)
  BY <1>1, <1>3, <1>4 DEF OwnNames
<1>6. \A n \in OwnNames(disk.root) : disk.root[n].data = n.sha
  BY <1>2 DEF OwnNames, FileOK
<1>7. QED BY <1>5, <1>6

(* What stands for each content of due is the want of t at a position in I. *)
StandFor(t, I, due) ==
  /\ Contents(due) = {t[i].video.sha : i \in I}
  /\ \A i \in I : FirstWant(due, t[i].video.sha) = t[i]

(* A folder whose own files are the wanted contents under rising numbers   *)
(* shows the schedule.                                                     *)
LEMMA ShownInOrder ==
  ASSUME DiskOK, NEW inp, InputOK(inp), inp.library = Library, inp.remote = Listing(disk),
         NEW all, NEW t, Firsts(t, all), NEW I, I \subseteq 1 .. Len(t), ShowsOf(inp, t, I),
         NEW due, StandFor(t, I, due)
  PROVE  Shows(disk, due)
<1> DEFINE own     == OwnNames(disk.root)
           names   == ByName(own)
           content(n) == disk.root[n].data
           s       == Shown(disk)
           n       == Len(t)
           m       == Len(names)
           C       == Contents(due)
<1>1. AppNames(inp) = own /\ \A x \in own : content(x) = x.sha
  BY OwnAre
<1>2. s = [i \in DOMAIN names |-> content(names[i])]
  BY DEF Shown, Mapped, OwnNames
<1>3. IsFiniteSet(own) /\ own \subseteq NamesFor(Library) /\ LibraryOK(Library)
  <2>1. own \in SUBSET DOMAIN disk.root
    BY DEF OwnNames
  <2>2. IsFiniteSet(DOMAIN disk.root) /\ DOMAIN disk.root \subseteq Names
    BY DEF DiskOK, FilesOK
  <2>3. QED BY <2>1, <2>2, FS_Subset, NamesAre DEF InputOK
<1> HIDE DEF own, content
<1>4. Enumerates(names, own) /\ \A i, j \in 1 .. m : i < j => NameBefore(names[i], names[j])
  BY <1>3, ByNameEnumerates, NamesAscend
<1> HIDE DEF names, s
<1>5. /\ m \in Nat /\ DOMAIN names = 1 .. m
      /\ \A i \in 1 .. m : names[i] \in own
      /\ \A x \in own : \E i \in 1 .. m : names[i] = x
      /\ \A i, j \in 1 .. m : names[i] = names[j] => i = j
  BY <1>4 DEF Enumerates
<1>6. PICK name : /\ AppNames(inp) = {name[i] : i \in I}
                  /\ \A i \in I : name[i].sha = t[i].video.sha /\ name[i].nnn \in Nat
                  /\ \A i, j \in I : i < j => name[i].nnn < name[j].nnn
  BY DEF ShowsOf
<1>7. n \in Nat /\ \A i, j \in 1 .. n : t[i].video.sha = t[j].video.sha => i = j
  BY DEF Firsts, Schedule
<1>8. C = {t[a].video.sha : a \in I} /\ \A a \in I : a \in 1 .. n
  BY DEF StandFor
<1> HIDE DEF C, m, n
<1>9. \A i \in 1 .. m : \E a \in I : names[i] = name[a] /\ s[i] = t[a].video.sha
  <2>1. ASSUME NEW i \in 1 .. m PROVE \E a \in I : names[i] = name[a] /\ s[i] = t[a].video.sha
    <3>1. names[i] \in AppNames(inp) /\ names[i] \in own
      BY <1>1, <1>5
    <3>2. PICK a \in I : names[i] = name[a]
      BY <1>6, <3>1
    <3>3. s[i] = names[i].sha
      BY <1>1, <1>2, <1>5, <3>1
    <3>4. QED BY <1>6, <3>2, <3>3
  <2>2. QED BY <2>1
<1>10. \A a \in I : \E i \in 1 .. m : s[i] = t[a].video.sha
  <2>1. ASSUME NEW a \in I PROVE \E i \in 1 .. m : s[i] = t[a].video.sha
    <3>1. name[a] \in own
      BY <1>1, <1>6
    <3>2. PICK i \in 1 .. m : names[i] = name[a]
      BY <1>5, <3>1
    <3>3. s[i] = name[a].sha
      BY <1>1, <1>2, <1>5, <3>1, <3>2
    <3>4. QED BY <1>6, <3>2, <3>3
  <2>2. QED BY <2>1
<1>11. DOMAIN s = 1 .. m /\ Len(s) = m /\ s \in [1 .. m -> C]
  <2>1. \A i \in 1 .. m : s[i] \in C
    BY <1>8, <1>9
  <2>2. s = [i \in 1 .. m |-> content(names[i])]
    BY <1>2, <1>5
  <2>3. s \in [1 .. m -> C]
    BY <2>1, <2>2
  <2>4. Len(s) = m
    BY <1>5, <2>3
  <2>5. QED BY <2>3, <2>4
<1>12. ToSet(s) = C
  <2>1. \A x \in ToSet(s) : x \in C
    BY <1>11 DEF ToSet
  <2>2. \A x \in C : x \in ToSet(s)
    BY <1>8, <1>10, <1>11 DEF ToSet
  <2>3. QED BY <2>1, <2>2
<1>13. ASSUME NEW i \in 1 .. m, NEW j \in 1 .. m, s[i] = s[j] PROVE i = j
  <2>1. PICK a \in I : names[i] = name[a] /\ s[i] = t[a].video.sha
    BY <1>9
  <2>2. PICK b \in I : names[j] = name[b] /\ s[j] = t[b].video.sha
    BY <1>9
  <2>3. a = b
    BY <1>7, <1>8, <1>13, <2>1, <2>2
  <2>4. QED BY <1>5, <2>1, <2>2, <2>3
<1>14. Len(s) = Cardinality(C)
  <2>1. s \in Surjection(1 .. m, C)
    BY <1>11, <1>12 DEF Surjection, ToSet
  <2>2. s \in Injection(1 .. m, C)
    BY <1>11, <1>13 DEF Injection, IsInjective
  <2>3. s \in Bijection(1 .. m, C)
    BY <2>1, <2>2 DEF Bijection
  <2>4. ExistsBijection(1 .. m, C)
    BY <2>3 DEF ExistsBijection
  <2>5. Cardinality(C) = m
    BY <1>5, <2>4, FS_CountingElements
  <2>6. QED BY <1>11, <2>5
<1>15. ASSUME NEW i \in 1 .. m, NEW j \in 1 .. m, i < j
       PROVE  OrderBefore(FirstWant(due, s[i]), FirstWant(due, s[j]))
  <2>1. PICK a \in I : names[i] = name[a] /\ s[i] = t[a].video.sha
    BY <1>9
  <2>2. PICK b \in I : names[j] = name[b] /\ s[j] = t[b].video.sha
    BY <1>9
  <2>3. NameBefore(name[a], name[b]) /\ a # b
    BY <1>4, <1>5, <1>15, <2>1, <2>2
  <2>4. name[a].nnn \in Nat /\ name[b].nnn \in Nat
    BY <1>6
  <2>5. ~ (name[b].nnn < name[a].nnn)
    BY <2>3, <2>4 DEF NameBefore
  <2>6. a < b
    BY <1>6, <1>7, <1>8, <2>3, <2>5
  <2>7. OrderBefore(t[a], t[b])
    BY <1>8, <2>6 DEF Firsts, n
  <2>8. FirstWant(due, t[a].video.sha) = t[a] /\ FirstWant(due, t[b].video.sha) = t[b]
    BY DEF StandFor
  <2>9. QED BY <2>1, <2>2, <2>7, <2>8
<1>16. QED BY <1>11, <1>12, <1>14, <1>15 DEF Shows, C, s

(* ... the whole schedule, if all of it is there.                          *)
LEMMA AllStandFor ==
  ASSUME NEW due, due \subseteq WantsFor(Library), NEW t, Firsts(t, due)
  PROVE  StandFor(t, 1 .. Len(t), due)
<1>1. t \in Seq(due) /\ \A w \in due : \E a \in 1 .. Len(t) : t[a].video.sha = w.video.sha
  BY DEF Firsts, Schedule
<1>2. \A a \in 1 .. Len(t) : t[a] \in due
  BY <1>1
<1>3. Contents(due) = {t[a].video.sha : a \in 1 .. Len(t)}
  <2> DEFINE n == Len(t)
  <2> HIDE DEF n
  <2>1. Contents(due) = {t[a].video.sha : a \in 1 .. n}
    BY <1>1, <1>2 DEF Contents, n
  <2>2. QED BY <2>1 DEF n
<1>4. QED BY <1>3, FirstWantIs DEF StandFor

(* The input a store is up to date with.                                   *)
LEMMA LastInputIs ==
  ASSUME NoTwins, Inv, UpToDate, Settled, NothingLooksAlike
  PROVE  /\ LastInput.library = Library /\ LastInput.remote = Listing(disk)
         /\ LastInput.maxBytes = MaxBytes /\ LastInput.requests = cycle.seen.requests
         /\ LastInput.now = cycle.at /\ cycle.at \in Nat
         /\ LastInput.wants = {w \in cycle.seen.wants : w.end = None \/ w.end > cycle.at}
         /\ cycle.seen.wants \subseteq WantPool
         /\ InputOK(LastInput) /\ Plain(LastInput) /\ Plan(LastInput) = <<>>
<1> DEFINE inp == LastInput
           W   == {w \in cycle.seen.wants : w.end = None \/ w.end > cycle.at}
           l   == cycle.listing
<1>1. /\ cycle.at \in Nat /\ l = Listing(disk) /\ cycle.seen.wants \subseteq WantPool
      /\ Plan(inp) = <<>> /\ BusyContents(l, cycle.at) = {}
  BY DEF Settled, UpToDate
<1>2. /\ inp.library = Library /\ inp.remote = l /\ inp.now = cycle.at /\ inp.wants = W
      /\ inp.maxBytes = MaxBytes /\ inp.requests = cycle.seen.requests
  BY DEF LastInput
<1>3. ListedOK(l, FALSE) /\ DiskOK
  BY <1>1, ListingIsOK DEF Inv
<1>4. W \subseteq WantPool
  BY <1>1
<1> HIDE DEF inp, W, l
<1>5. InputOK(inp)
  BY <1>2, <1>3, <1>4, InputFrom
<1>6. AppNames(inp) = OwnNames(disk.root)
  BY <1>1, <1>2, <1>3, OwnAre
<1>7. DOMAIN inp.remote.root = DOMAIN disk.root
  BY <1>1, <1>2 DEF Listing
<1>8. Plain(inp)
  <2>1. \A v, w \in inp.library : v.slug = w.slug /\ v.sha = w.sha => v = w
    BY <1>2 DEF NoTwins
  <2>2. \A n \in DOMAIN inp.remote.root \ AppNames(inp) :
          \A v \in inp.library : v.slug # n.slug \/ v.sha # n.sha
    BY <1>2, <1>6, <1>7 DEF NothingLooksAlike, OwnNames
  <2>3. QED BY <1>1, <1>2, <2>1, <2>2 DEF Plain, OwnTitles
<1>9. QED BY <1>1, <1>2, <1>5, <1>8 DEF inp, W

LEMMA UpToDateShows ==
  ASSUME MaxBytes = None, NoTwins, Inv, UpToDate, NothingLooksAlike
  PROVE  SyncedShowsSchedule
<1> DEFINE ws  == cycle.seen.wants
           at  == cycle.at
           due == Due(ws, at)
           inp == LastInput
           W   == {w \in ws : w.end = None \/ w.end > at}
           t   == DesiredWants(W, at)
<1> SUFFICES ASSUME Settled, due # {} PROVE Shows(disk, due)
  BY DEF SyncedShowsSchedule
<1>1. /\ inp.library = Library /\ inp.remote = Listing(disk) /\ inp.now = at /\ inp.wants = W
      /\ at \in Nat /\ ws \subseteq WantPool
      /\ InputOK(inp) /\ Plain(inp) /\ inp.maxBytes = None /\ Plan(inp) = <<>>
  BY LastInputIs
<1>2. Firsts(t, due) /\ due \subseteq WantsFor(Library)
  BY <1>1, DueInOrder
<1> HIDE DEF inp, t, due, W, ws, at
<1>3. t # <<>>
  <2>1. \E k \in 1 .. Len(t) : TRUE
    BY <1>2 DEF Firsts
  <2>2. 1 .. Len(<<>>) = {}
    OBVIOUS
  <2>3. QED BY <2>1, <2>2
<1>4. ShowsInOrder(inp, t)
  BY <1>1, <1>3, NothingLeftToDo DEF t
<1>5. DiskOK
  BY DEF Inv
<1>6. QED BY <1>1, <1>2, <1>4, <1>5, ShownInOrder, AllStandFor DEF ShowsInOrder

LEMMA UpToDateKeeps ==
  ASSUME MaxBytes = None, NoTwins, Inv, UpToDate, NothingLooksAlike
  PROVE  SyncedKeepsReady
<1> DEFINE ws   == cycle.seen.wants
           at   == cycle.at
           due  == Due(ws, at)
           soon == {w \in ws : \/ w.fallback /\ IsActive(w, at)
                               \/ w.start \in (at + 1) .. (at + Lookahead)}
           inp  == LastInput
           W    == {w \in ws : w.end = None \/ w.end > at}
           t    == DesiredWants(W, at)
<1> SUFFICES ASSUME Settled, due # {}
             PROVE  {s.sha : s \in {x \in DOMAIN disk.staging : ~ x.part}} = Contents(soon) \ Contents(due)
  BY DEF SyncedKeepsReady
<1>1. /\ inp.library = Library /\ inp.remote = Listing(disk) /\ inp.now = at /\ inp.wants = W
      /\ at \in Nat /\ ws \subseteq WantPool
      /\ InputOK(inp) /\ Plain(inp) /\ inp.maxBytes = None /\ Plan(inp) = <<>>
  BY LastInputIs
<1>2. Firsts(t, due) /\ due \subseteq WantsFor(Library)
  BY <1>1, DueInOrder
<1>3. Waiting(W, at) = soon
  <2>1. ASSUME NEW w \in ws
        PROVE  w \in Waiting(W, at) <=> w \in soon
    <3>1. w \in WantPool
      BY <1>1
    <3>2. /\ w.video.size > 0 /\ w.start \in Int
          /\ w.end = None \/ (w.end \in Int /\ w.start < w.end)
      BY <3>1, WantsAre
    <3>3. ValidWant(w)
      BY <3>2 DEF ValidWant
    <3>4. w.start \in (at + 1) .. (at + Lookahead) <=> at < w.start /\ w.start <= at + Lookahead
      BY <1>1, <3>2, PlannerAssumption
    <3>5. (w.fallback /\ IsActive(w, at)) \/ at < w.start => w \in W
      BY <1>1, <3>2 DEF IsActive
    <3>6. QED BY <3>3, <3>4, <3>5 DEF Waiting
  <2>2. QED BY <2>1 DEF Waiting
<1> HIDE DEF inp, t, due, W, ws, at, soon
<1>4. t # <<>>
  <2>1. \E k \in 1 .. Len(t) : TRUE
    BY <1>2 DEF Firsts
  <2>2. 1 .. Len(<<>>) = {}
    OBVIOUS
  <2>3. QED BY <2>1, <2>2
<1>5. {s.sha : s \in {x \in DOMAIN inp.remote.staging : ~ x.part}} = ContentsIn(ToSet(KeepStaged(W, at)))
  BY <1>1, <1>4, NothingLeftToDo DEF t
<1>6. ContentsIn(ToSet(KeepStaged(W, at))) = ContentsIn(Waiting(W, at)) \ ContentsIn(ToSet(t))
  BY <1>1, KeptContents DEF t
<1>7. ContentsIn(ToSet(t)) = Contents(due)
  <2>1. t \in Seq(due) /\ \A w \in due : \E k \in 1 .. Len(t) : t[k].video.sha = w.video.sha
    BY <1>2 DEF Firsts, Schedule
  <2>2. DOMAIN t = 1 .. Len(t) /\ \A k \in 1 .. Len(t) : t[k] \in due
    BY <2>1
  <2>3. \A x \in ToSet(t) : x \in due
    BY <2>2 DEF ToSet
  <2>4. \A w \in due : \E x \in ToSet(t) : x.video.sha = w.video.sha
    BY <2>1, <2>2 DEF ToSet
  <2>5. QED BY <2>3, <2>4 DEF ContentsIn, Contents
<1>8. ContentsIn(soon) = Contents(soon)
  BY DEF ContentsIn, Contents
<1>9. DOMAIN inp.remote.staging = DOMAIN disk.staging
  BY <1>1 DEF Listing
<1>10. QED BY <1>3, <1>5, <1>6, <1>7, <1>8, <1>9

(* A store reported as up to date, whose folder nobody touched since,      *)
(* shows exactly what is due, each content once and in schedule order, for *)
(* every library, schedule and folder (SPEC 6.3; planner.py, desired_wants *)
(* and assign_prefixes).  There is no limit, no two videos have one title  *)
(* and one content, and no file of somebody else's has a name of the app's *)
(* (which may leave no name for the video it looks like).                  *)
THEOREM SyncedStoresShowTheSchedule ==
  ASSUME MaxBytes = None, NoTwins
  PROVE  Spec => [](NothingLooksAlike => SyncedShowsSchedule)
<1>1. Inv /\ UpToDate => (NothingLooksAlike => SyncedShowsSchedule)
  BY UpToDateShows
<1>2. QED BY <1>1, CycleInvariant, StoresUpToDate, PTL

(* ... and keeps ready, hidden, exactly the fallback and what starts       *)
(* within the lookahead, unless it is on the screen already (SPEC 6.4;     *)
(* planner.py, keep_staged).                                               *)
THEOREM SyncedStoresKeepReady ==
  ASSUME MaxBytes = None, NoTwins
  PROVE  Spec => [](NothingLooksAlike => SyncedKeepsReady)
<1>1. Inv /\ UpToDate => (NothingLooksAlike => SyncedKeepsReady)
  BY UpToDateKeeps
<1>2. QED BY <1>1, CycleInvariant, StoresUpToDate, PTL

-----------------------------------------------------------------------------
(* Bytes that come and go                                                  *)

LEMMA SpaceWithout ==
  ASSUME NEW f, SizesKnown(f), NEW x
  PROVE  /\ SizesKnown(Without(f, x)) /\ Space(Without(f, x)) \in Nat /\ Space(f) \in Nat
         /\ x \in DOMAIN f => f[x].size \in Nat /\ Space(f) = Space(Without(f, x)) + f[x].size
         /\ Space(Without(f, x)) <= Space(f)
<1> DEFINE g == Without(f, x)
<1>1. DOMAIN g = DOMAIN f \ {x} /\ \A z \in DOMAIN g : g[z] = f[z]
  BY DEF Without, Restrict
<1> HIDE DEF g
<1>2. Space(f) \in Nat
  BY SpaceKnown
<1>3. CASE x \in DOMAIN f
  <2>1. SizesKnown(g) /\ Space(g) \in Nat /\ Space(f) = Space(g) + f[x].size
    BY <1>1, <1>3, SpaceSplit
  <2>2. f[x].size \in Nat
    BY <1>3 DEF SizesKnown
  <2>3. QED BY <1>2, <2>1, <2>2 DEF g
<1>4. CASE x \notin DOMAIN f
  <2>1. DOMAIN g = DOMAIN f /\ \A z \in DOMAIN f : g[z].size = f[z].size
    BY <1>1, <1>4
  <2>2. SizesKnown(g) /\ Space(g) = Space(f)
    BY <2>1, SpaceSame DEF SizesKnown
  <2>3. QED BY <1>2, <1>4, <2>2 DEF g
<1>5. QED BY <1>3, <1>4

LEMMA SpaceWith ==
  ASSUME NEW f, SizesKnown(f), NEW x, NEW y, y.size \in Nat
  PROVE  /\ SizesKnown(With(f, x, y))
         /\ Space(With(f, x, y)) = Space(Without(f, x)) + y.size
         /\ Space(With(f, x, y)) \in Nat
<1> DEFINE g == With(f, x, y)
           h == Without(f, x)
<1>1. /\ DOMAIN g = DOMAIN f \cup {x} /\ g[x] = y
      /\ \A z \in DOMAIN f : z # x => g[z] = f[z]
  BY DEF With
<1>2. /\ DOMAIN h = DOMAIN f \ {x}
      /\ \A z \in DOMAIN f : z # x => h[z] = f[z]
  BY DEF Without, Restrict
<1> HIDE DEF g, h
<1>3. SizesKnown(g)
  <2>1. IsFiniteSet(DOMAIN f \cup {x})
    BY FS_AddElement DEF SizesKnown
  <2>2. QED BY <1>1, <2>1 DEF SizesKnown
<1>4. x \in DOMAIN g /\ DOMAIN h = DOMAIN g \ {x} /\ \A z \in DOMAIN h : h[z].size = g[z].size
  BY <1>1, <1>2
<1>5. Space(h) \in Nat /\ Space(g) = Space(h) + g[x].size
  BY <1>3, <1>4, SpaceSplit
<1>6. QED BY <1>1, <1>3, <1>5 DEF g, h

LEMMA RootWithout ==
  ASSUME NEW root, SizesKnown(root), NEW x \in DOMAIN root
  PROVE  /\ SizesKnown(Without(root, x)) /\ RootBytes(Without(root, x)) \in Nat
         /\ SizeIn(root, x) \in Nat
         /\ RootBytes(root) = RootBytes(Without(root, x)) + SizeIn(root, x)
<1> DEFINE g == Without(root, x)
<1>1. DOMAIN g = DOMAIN root \ {x} /\ \A z \in DOMAIN g : g[z] = root[z]
  BY DEF Without, Restrict
<1> HIDE DEF g
<1>2. \A z \in DOMAIN g : g[z].size = root[z].size /\ g[z].isDir = root[z].isDir
  BY <1>1
<1>3. /\ SizesKnown(g) /\ RootBytes(g) \in Nat /\ SizeIn(root, x) \in Nat
      /\ RootBytes(root) = RootBytes(g) + SizeIn(root, x)
  BY <1>1, <1>2, RootSplit
<1>4. QED BY <1>3 DEF g

LEMMA RootWith ==
  ASSUME NEW root, SizesKnown(root), NEW x, x \notin DOMAIN root, NEW y, y.size \in Nat
  PROVE  /\ SizesKnown(With(root, x, y)) /\ RootBytes(With(root, x, y)) \in Nat
         /\ RootBytes(With(root, x, y)) = RootBytes(root) + (IF y.isDir THEN 0 ELSE y.size)
<1> DEFINE g == With(root, x, y)
<1>1. /\ DOMAIN g = DOMAIN root \cup {x} /\ g[x] = y
      /\ \A z \in DOMAIN root : z # x => g[z] = root[z]
  BY DEF With
<1> HIDE DEF g
<1>2. SizesKnown(g)
  <2>1. IsFiniteSet(DOMAIN root \cup {x})
    BY FS_AddElement DEF SizesKnown
  <2>2. QED BY <1>1, <2>1 DEF SizesKnown
<1>3. x \in DOMAIN g /\ DOMAIN root = DOMAIN g \ {x}
      /\ \A z \in DOMAIN root : root[z].size = g[z].size /\ root[z].isDir = g[z].isDir
  BY <1>1
<1>4. RootBytes(root) \in Nat /\ SizeIn(g, x) \in Nat /\ RootBytes(g) = RootBytes(root) + SizeIn(g, x)
  BY <1>2, <1>3, RootSplit
<1>5. SizeIn(g, x) = IF y.isDir THEN 0 ELSE y.size
  BY <1>1 DEF SizeIn
<1>6. QED BY <1>2, <1>4, <1>5 DEF g

-----------------------------------------------------------------------------
(* The room that the rest of a plan needs                                  *)

OnPi(root, staging) == RootBytes(root) + Space(staging)

(* What the rest of a plan takes away is there as it was listed.           *)
Stands(s, listing, root, staging) ==
  \A i \in 1 .. Len(s) :
    /\ s[i].kind \in Takes =>
         /\ s[i].src \in DOMAIN root /\ s[i].src \in DOMAIN listing.root
         /\ root[s[i].src].size = listing.root[s[i].src].size
         /\ root[s[i].src].isDir = listing.root[s[i].src].isDir
    /\ s[i].kind \in StagingDeletes =>
         /\ s[i].src \in DOMAIN staging /\ s[i].src \in DOMAIN listing.staging
         /\ staging[s[i].src].size = listing.staging[s[i].src].size

(* From base on, the rest of a plan never passes the limit.                *)
Spends(listing, s, base, limit) ==
  \E g : /\ g \in [0 .. Len(s) -> Int]
         /\ g[0] = base
         /\ \A k \in 1 .. Len(s) : g[k] = g[k - 1] + Delta(listing, s[k])
         /\ \A k \in 0 .. Len(s) : g[k] <= limit

RoomLeft(listing, s, root, staging, limit) ==
  /\ \A i \in 1 .. Len(s) : Accounted(listing, s[i])
  /\ Stands(s, listing, root, staging)
  /\ \E base \in Int : OnPi(root, staging) <= base /\ Spends(listing, s, base, limit)
  /\ \E c : ClearsUpTo(s, c)

LEMMA SpendsTail ==
  ASSUME NEW T, NEW s \in Seq(T), s # <<>>, NEW listing, NEW limit \in Int,
         NEW base \in Int, Spends(listing, s, base, limit), Delta(listing, Head(s)) \in Int
  PROVE  /\ base <= limit
         /\ base + Delta(listing, Head(s)) <= limit
         /\ Spends(listing, Tail(s), base + Delta(listing, Head(s)), limit)
<1> DEFINE n == Len(s)
           t == Tail(s)
           D == Delta(listing, Head(s))
<1>1. /\ n \in Nat /\ n >= 1 /\ Head(s) = s[1] /\ Len(t) = n - 1
      /\ \A i \in 1 .. Len(t) : i + 1 \in 1 .. n /\ t[i] = s[i + 1]
  BY FirstOf
<1>2. PICK g : /\ g \in [0 .. n -> Int]
               /\ g[0] = base
               /\ \A k \in 1 .. n : g[k] = g[k - 1] + Delta(listing, s[k])
               /\ \A k \in 0 .. n : g[k] <= limit
  BY DEF Spends
<1> HIDE DEF n, t, D
<1>3. g[1] = base + D /\ g[0] <= limit /\ g[1] <= limit
  <2>1. 1 \in 1 .. n /\ 1 - 1 = 0 /\ 0 \in 0 .. n /\ 1 \in 0 .. n
    BY <1>1
  <2>2. g[1] = g[1 - 1] + Delta(listing, s[1])
    BY <1>2, <2>1
  <2>3. QED BY <1>1, <1>2, <2>1, <2>2 DEF D
<1> DEFINE h == [k \in 0 .. n - 1 |-> g[k + 1]]
<1>4. \A k \in 0 .. n - 1 : k + 1 \in 0 .. n
  BY <1>1
<1>5. h \in [0 .. n - 1 -> Int] /\ h[0] = g[1] /\ \A k \in 0 .. n - 1 : h[k] = g[k + 1] /\ h[k] <= limit
  BY <1>1, <1>2, <1>4
<1> HIDE DEF h
<1>6. ASSUME NEW k \in 1 .. n - 1 PROVE h[k] = h[k - 1] + Delta(listing, t[k])
  <2>1. /\ k + 1 \in 1 .. n /\ (k + 1) - 1 = k /\ k \in 0 .. n - 1 /\ k - 1 \in 0 .. n - 1
        /\ (k - 1) + 1 = k /\ k \in 1 .. Len(t)
    BY <1>1
  <2>2. g[k + 1] = g[(k + 1) - 1] + Delta(listing, s[k + 1])
    BY <1>2, <2>1
  <2>3. t[k] = s[k + 1]
    BY <1>1, <2>1
  <2>4. h[k] = g[k + 1] /\ h[k - 1] = g[k]
    BY <1>5, <2>1
  <2>5. QED BY <2>1, <2>2, <2>3, <2>4
<1>7. Spends(listing, t, base + D, limit)
  BY <1>1, <1>3, <1>5, <1>6 DEF Spends
<1>8. QED BY <1>2, <1>3, <1>7 DEF D, t

LEMMA ClearsTail ==
  ASSUME NEW T, NEW s \in Seq(T), s # <<>>, NEW c, ClearsUpTo(s, c)
  PROVE  /\ \E b : ClearsUpTo(Tail(s), b)
         /\ \A i \in 1 .. Len(Tail(s)) : Tail(s)[i].kind \in StagingDeletes =>
              Head(s).kind \in StagingDeletes /\ Tail(s)[i].src # Head(s).src
<1> DEFINE n == Len(s)
           t == Tail(s)
<1>1. /\ n \in Nat /\ n >= 1 /\ Head(s) = s[1] /\ Len(t) = n - 1
      /\ \A i \in 1 .. Len(t) : i + 1 \in 1 .. n /\ t[i] = s[i + 1]
  BY FirstOf
<1>2. /\ c \in Nat /\ c <= n
      /\ \A i \in 1 .. n : s[i].kind \in StagingDeletes <=> i <= c
      /\ \A i, j \in 1 .. c : s[i].src = s[j].src => i = j
  BY DEF ClearsUpTo
<1> HIDE DEF n, t
<1>3. ASSUME NEW i \in 1 .. Len(t), t[i].kind \in StagingDeletes
      PROVE  Head(s).kind \in StagingDeletes /\ t[i].src # Head(s).src
  <2>1. i + 1 <= c /\ t[i] = s[i + 1]
    BY <1>1, <1>2, <1>3
  <2>2. 1 <= c /\ 1 \in 1 .. n /\ i + 1 \in 1 .. c /\ 1 \in 1 .. c /\ i + 1 # 1
    BY <1>1, <1>2, <2>1
  <2>3. QED BY <1>1, <1>2, <2>1, <2>2
<1>4. CASE c = 0
  <2>1. \A i \in 1 .. Len(t) : t[i].kind \notin StagingDeletes /\ ~ (i <= 0)
    BY <1>1, <1>2, <1>4
  <2>2. 0 \in Nat /\ 0 <= Len(t)
    BY <1>1
  <2>3. 1 .. 0 = {}
    OBVIOUS
  <2>4. ClearsUpTo(t, 0)
    BY <2>1, <2>2, <2>3 DEF ClearsUpTo
  <2>5. QED BY <1>3, <2>4 DEF t
<1>5. CASE c # 0
  <2>1. c - 1 \in Nat /\ c - 1 <= Len(t)
    BY <1>1, <1>2, <1>5
  <2>2. \A i \in 1 .. Len(t) : t[i].kind \in StagingDeletes <=> i <= c - 1
    BY <1>1, <1>2
  <2>3. ASSUME NEW i \in 1 .. c - 1, NEW j \in 1 .. c - 1, t[i].src = t[j].src PROVE i = j
    <3>1. i \in 1 .. Len(t) /\ j \in 1 .. Len(t) /\ i + 1 \in 1 .. c /\ j + 1 \in 1 .. c
      BY <1>1, <1>2, <2>1
    <3>2. i + 1 = j + 1
      BY <1>1, <1>2, <2>3, <3>1
    <3>3. QED BY <3>2
  <2>4. ClearsUpTo(t, c - 1)
    BY <2>1, <2>2, <2>3 DEF ClearsUpTo
  <2>5. QED BY <1>3, <2>4 DEF t
<1>6. QED BY <1>4, <1>5

(* The first action is done, and what the others need is still there.      *)
LEMMA RoomAfter ==
  ASSUME NEW T, NEW s \in Seq(T), s # <<>>, TakesApart(s),
         NEW listing, SizesOK(listing), NEW limit \in Int,
         NEW root, NEW staging, RoomLeft(listing, s, root, staging, limit),
         NEW root2, NEW staging2, OnPi(root, staging) \in Int, OnPi(root2, staging2) \in Int,
         OnPi(root2, staging2) <= OnPi(root, staging) + Delta(listing, Head(s)),
         \A n \in DOMAIN root : (Head(s).kind \in Takes => n # Head(s).src) =>
           n \in DOMAIN root2 /\ root2[n].size = root[n].size /\ root2[n].isDir = root[n].isDir,
         Head(s).kind \in StagingDeletes => \A x \in DOMAIN staging : x # Head(s).src =>
           x \in DOMAIN staging2 /\ staging2[x].size = staging[x].size
  PROVE  RoomLeft(listing, Tail(s), root2, staging2, limit) /\ OnPi(root2, staging2) <= limit
<1> DEFINE t == Tail(s)
           D == Delta(listing, Head(s))
<1>1. /\ Len(s) \in Nat /\ Len(s) >= 1 /\ Head(s) = s[1]
      /\ t \in Seq(T) /\ Len(t) = Len(s) - 1
      /\ \A i \in 1 .. Len(t) : i + 1 \in 1 .. Len(s) /\ t[i] = s[i + 1]
  BY FirstOf
<1>2. /\ \A i \in 1 .. Len(s) : Accounted(listing, s[i])
      /\ Stands(s, listing, root, staging)
  BY DEF RoomLeft
<1>3. PICK base \in Int : OnPi(root, staging) <= base /\ Spends(listing, s, base, limit)
  BY DEF RoomLeft
<1>4. PICK c : ClearsUpTo(s, c)
  BY DEF RoomLeft
<1>5. 1 \in 1 .. Len(s) /\ D \in Int
  BY <1>1, <1>2, DeltaIs
<1> HIDE DEF t, D
<1>6. base + D <= limit /\ Spends(listing, t, base + D, limit)
  BY <1>3, <1>5, SpendsTail DEF t, D
<1>7. OnPi(root2, staging2) <= base + D /\ base + D \in Int
  BY <1>3, <1>5 DEF D
<1>8. /\ \E b : ClearsUpTo(t, b)
      /\ \A i \in 1 .. Len(t) : t[i].kind \in StagingDeletes =>
           Head(s).kind \in StagingDeletes /\ t[i].src # Head(s).src
  BY <1>4, ClearsTail DEF t
<1>9. ASSUME NEW i \in 1 .. Len(t), t[i].kind \in Takes
      PROVE  Head(s).kind \in Takes => t[i].src # Head(s).src
  <2>1. i + 1 \in 1 .. Len(s) /\ t[i] = s[i + 1] /\ i + 1 # 1
    BY <1>1
  <2>2. QED BY <1>1, <1>5, <1>9, <2>1 DEF TakesApart
<1>10. Stands(t, listing, root2, staging2)
  <2>1. ASSUME NEW i \in 1 .. Len(t), t[i].kind \in Takes
        PROVE  /\ t[i].src \in DOMAIN root2 /\ t[i].src \in DOMAIN listing.root
               /\ root2[t[i].src].size = listing.root[t[i].src].size
               /\ root2[t[i].src].isDir = listing.root[t[i].src].isDir
    <3>1. i + 1 \in 1 .. Len(s) /\ t[i] = s[i + 1]
      BY <1>1
    <3>2. /\ t[i].src \in DOMAIN root /\ t[i].src \in DOMAIN listing.root
          /\ root[t[i].src].size = listing.root[t[i].src].size
          /\ root[t[i].src].isDir = listing.root[t[i].src].isDir
      BY <1>2, <2>1, <3>1 DEF Stands
    <3>3. QED BY <1>9, <2>1, <3>2
  <2>2. ASSUME NEW i \in 1 .. Len(t), t[i].kind \in StagingDeletes
        PROVE  /\ t[i].src \in DOMAIN staging2 /\ t[i].src \in DOMAIN listing.staging
               /\ staging2[t[i].src].size = listing.staging[t[i].src].size
    <3>1. i + 1 \in 1 .. Len(s) /\ t[i] = s[i + 1]
      BY <1>1
    <3>2. /\ t[i].src \in DOMAIN staging /\ t[i].src \in DOMAIN listing.staging
          /\ staging[t[i].src].size = listing.staging[t[i].src].size
      BY <1>2, <2>2, <3>1 DEF Stands
    <3>3. QED BY <1>8, <2>2, <3>2
  <2>3. QED BY <2>1, <2>2 DEF Stands
<1>11. \A i \in 1 .. Len(t) : Accounted(listing, t[i])
  BY <1>1, <1>2
<1>12. RoomLeft(listing, t, root2, staging2, limit)
  BY <1>6, <1>7, <1>8, <1>10, <1>11 DEF RoomLeft
<1>13. QED BY <1>6, <1>7, <1>12 DEF t

(* Nothing is left to do.                                                  *)
LEMMA RoomOver ==
  ASSUME NEW listing, NEW limit \in Int, NEW root, NEW staging,
         OnPi(root, staging) \in Int, OnPi(root, staging) <= limit
  PROVE  RoomLeft(listing, <<>>, root, staging, limit)
<1> DEFINE g == [k \in 0 .. 0 |-> OnPi(root, staging)]
<1>1. Len(<<>>) = 0 /\ 1 .. 0 = {} /\ 0 .. 0 = {0}
  OBVIOUS
<1>2. g \in [0 .. 0 -> Int] /\ g[0] = OnPi(root, staging) /\ \A k \in 0 .. 0 : g[k] <= limit
  OBVIOUS
<1> HIDE DEF g
<1>3. Spends(listing, <<>>, OnPi(root, staging), limit)
  BY <1>1, <1>2 DEF Spends
<1>4. ClearsUpTo(<<>>, 0)
  BY <1>1 DEF ClearsUpTo
<1>5. Stands(<<>>, listing, root, staging) /\ \A i \in 1 .. Len(<<>>) : Accounted(listing, <<>>[i])
  BY <1>1 DEF Stands
<1>6. QED BY <1>3, <1>4, <1>5 DEF RoomLeft

(* The first action, when it takes or clears.                              *)
LEMMA FirstStands ==
  ASSUME NEW T, NEW s \in Seq(T), s # <<>>, NEW listing, SizesOK(listing), NEW limit \in Int,
         NEW root, NEW staging, RoomLeft(listing, s, root, staging, limit)
  PROVE  /\ Delta(listing, Head(s)) \in Int
         /\ Head(s).kind = "upload" =>
              Head(s).video.size \in Nat /\ Delta(listing, Head(s)) = Head(s).video.size
         /\ Head(s).kind \in Takes =>
              /\ Head(s).src \in DOMAIN root
              /\ Head(s).kind \in RootDeletes => Delta(listing, Head(s)) = - SizeIn(root, Head(s).src)
         /\ Head(s).kind \in StagingDeletes =>
              /\ Head(s).src \in DOMAIN staging
              /\ Delta(listing, Head(s)) = - staging[Head(s).src].size
         /\ Head(s).kind \notin RootDeletes \cup StagingDeletes \cup {"upload"} =>
              Delta(listing, Head(s)) = 0
         /\ \A c : ClearsUpTo(s, c) /\ Head(s).kind \notin StagingDeletes =>
              \A i \in 1 .. Len(s) : s[i].kind \notin StagingDeletes
<1> DEFINE a == Head(s)
<1>1. Len(s) \in Nat /\ 1 \in 1 .. Len(s) /\ a = s[1]
  BY FirstOf
<1> HIDE DEF a
<1>2. Accounted(listing, a) /\ Stands(s, listing, root, staging)
  BY <1>1 DEF RoomLeft
<1>3. /\ a.kind \in Takes =>
           /\ a.src \in DOMAIN root /\ a.src \in DOMAIN listing.root
           /\ root[a.src].size = listing.root[a.src].size
           /\ root[a.src].isDir = listing.root[a.src].isDir
      /\ a.kind \in StagingDeletes =>
           /\ a.src \in DOMAIN staging
           /\ staging[a.src].size = listing.staging[a.src].size
  BY <1>1, <1>2 DEF Stands
<1>4. a.kind \in Takes => SizeIn(root, a.src) = SizeIn(listing.root, a.src)
  BY <1>3 DEF SizeIn
<1>5. a.kind = "upload" => a.video.size \in Nat
  BY <1>2 DEF Accounted
<1>6. \A c : ClearsUpTo(s, c) /\ a.kind \notin StagingDeletes =>
        \A i \in 1 .. Len(s) : s[i].kind \notin StagingDeletes
  <2>1. ASSUME NEW c, ClearsUpTo(s, c), a.kind \notin StagingDeletes
        PROVE  \A i \in 1 .. Len(s) : s[i].kind \notin StagingDeletes
    <3>1. c \in Nat /\ \A i \in 1 .. Len(s) : s[i].kind \in StagingDeletes <=> i <= c
      BY <2>1 DEF ClearsUpTo
    <3>2. ~ (1 <= c)
      BY <1>1, <2>1, <3>1
    <3>3. QED BY <3>1, <3>2
  <2>2. QED BY <2>1
<1>7. RootDeletes \subseteq Takes
  BY DEF RootDeletes, Takes
<1>8. QED BY <1>2, <1>3, <1>4, <1>5, <1>6, <1>7, DeltaIs DEF a

-----------------------------------------------------------------------------
(* The folder and the limit                                                *)

Limit == Max({MaxBytes, BytesOf(cycle.listing)})

(* While a file is sent, its .part is on top of what the plan counts on.   *)
Aside == IF cycle.step = "sending" THEN Without(disk.staging, Part(Action.video.sha)) ELSE disk.staging

(* What is staged has a size, and while a plan runs in a folder that nobody *)
(* touched, what is there fits and so does what is still to be done.       *)
StagedSizes == \A s \in DOMAIN disk.staging : disk.staging[s].size \in Nat

Limited == ~ cycle.touched /\ MaxBytes # None /\ cycle.step \in Busy \cup {"check"}

WithRoom ==
  /\ StagedSizes
  /\ Limited => /\ SizesOK(cycle.listing)
                /\ OnPi(disk.root, disk.staging) <= Limit
                /\ RoomLeft(cycle.listing, cycle.todo, disk.root, Aside, Limit)

LEMMA RootSizes ==
  ASSUME NEW root, NEW at, FilesOK(root, at)
  PROVE  SizesKnown(root) /\ RootBytes(root) \in Nat
<1>1. SizesKnown(root)
  BY DEF FilesOK, FileOK, SizesKnown
<1>2. QED BY <1>1, FilesInAre

LEMMA OnPiIs ==
  ASSUME NEW root, NEW staging, NEW at, FilesOK(root, at), StagedOK(staging, at),
         \A s \in DOMAIN staging : staging[s].size \in Nat
  PROVE  /\ SizesKnown(root) /\ SizesKnown(staging)
         /\ OnPi(root, staging) \in Nat /\ RootBytes(root) \in Nat /\ Space(staging) \in Nat
<1>1. SizesKnown(root) /\ RootBytes(root) \in Nat
  BY RootSizes
<1>2. SizesKnown(staging)
  BY DEF StagedOK, SizesKnown
<1>3. Space(staging) \in Nat
  BY <1>2, SpaceKnown
<1>4. QED BY <1>1, <1>2, <1>3 DEF OnPi

LEMMA OnDisk ==
  ASSUME DiskOK, StagedSizes
  PROVE  /\ SizesKnown(disk.root) /\ SizesKnown(disk.staging)
         /\ OnPi(disk.root, disk.staging) \in Nat
         /\ RootBytes(disk.root) \in Nat /\ Space(disk.staging) \in Nat
         /\ SizesOK(Listing(disk))
         /\ BytesOf(Listing(disk)) = OnPi(disk.root, disk.staging)
<1> DEFINE l == Listing(disk)
<1>1. /\ SizesKnown(disk.root) /\ SizesKnown(disk.staging)
      /\ OnPi(disk.root, disk.staging) \in Nat
      /\ RootBytes(disk.root) \in Nat /\ Space(disk.staging) \in Nat
  BY OnPiIs DEF DiskOK, StagedSizes
<1>2. /\ DOMAIN l.root = DOMAIN disk.root /\ DOMAIN l.staging = DOMAIN disk.staging
      /\ \A n \in DOMAIN disk.root : l.root[n].size = disk.root[n].size
                                     /\ l.root[n].isDir = disk.root[n].isDir
      /\ \A s \in DOMAIN disk.staging : l.staging[s].size = disk.staging[s].size
  BY DEF Listing
<1> HIDE DEF l
<1>3. SizesKnown(l.root) /\ RootBytes(l.root) = RootBytes(disk.root)
  BY <1>1, <1>2, RootSame
<1>4. Space(disk.staging) = Space(l.staging)
  BY <1>2, SpaceSame
<1>5. SizesKnown(l.staging)
  BY <1>1, <1>2 DEF SizesKnown
<1>6. QED BY <1>1, <1>3, <1>4, <1>5 DEF l, SizesOK, OnPi, BytesOf, Space

(* The limit of a plan is a number, and no plan began above it.            *)
LEMMA LimitIs ==
  ASSUME MaxBytes # None, SizesOK(cycle.listing)
  PROVE  /\ MaxBytes \in Nat /\ BytesOf(cycle.listing) \in Nat /\ Limit \in Nat
         /\ MaxBytes <= Limit /\ BytesOf(cycle.listing) <= Limit
<1> DEFINE b == BytesOf(cycle.listing)
           S == {MaxBytes, b}
<1>1. MaxBytes \in Nat
  BY ReconcileAssumption
<1>2. b \in Nat
  BY BytesKnown
<1> HIDE DEF b
<1>3. \E x \in S : \A y \in S : x >= y
  <2>1. MaxBytes >= b \/ b >= MaxBytes
    BY <1>1, <1>2
  <2>2. QED BY <1>1, <1>2, <2>1
<1>4. Max(S) \in S /\ \A y \in S : Max(S) >= y
  <2>1. Max(S) = CHOOSE x \in S : \A y \in S : x >= y
    BY DEF Max
  <2>2. QED BY <1>3, <2>1
<1>5. Limit = Max(S)
  BY DEF Limit, b
<1>6. Limit \in S /\ Limit >= MaxBytes /\ Limit >= b
  BY <1>4, <1>5
<1>7. QED BY <1>1, <1>2, <1>6 DEF b

(* The rest of a plan says what it knows of the folder.                    *)
LEMMA RoomNow ==
  ASSUME Inv, WithRoom, Limited
  PROVE  /\ Limit \in Nat /\ SizesOK(cycle.listing)
         /\ OnPi(disk.root, disk.staging) <= Limit
         /\ RoomLeft(cycle.listing, cycle.todo, disk.root, Aside, Limit)
<1>1. /\ SizesOK(cycle.listing) /\ OnPi(disk.root, disk.staging) <= Limit
      /\ RoomLeft(cycle.listing, cycle.todo, disk.root, Aside, Limit)
  BY DEF WithRoom
<1>2. QED BY <1>1, LimitIs DEF Limited

-----------------------------------------------------------------------------
(* What a step of the plan leaves                                          *)

LEMMA ListingKept ==
  ASSUME DOMAIN cycle = CycleFields,
         \/ Done
         \/ Stop
         \/ \E step : cycle' = [cycle EXCEPT !.step = step]
         \/ cycle' = [cycle EXCEPT !.touched = TRUE]
  PROVE  cycle'.listing = cycle.listing /\ Limit' = Limit
<1>1. CASE Done
  BY <1>1 DEF Done, CycleFields, Limit
<1>2. CASE Stop
  BY <1>2 DEF Stop, CycleFields, Limit
<1>3. CASE \E step : cycle' = [cycle EXCEPT !.step = step]
  BY <1>3 DEF CycleFields, Limit
<1>4. CASE cycle' = [cycle EXCEPT !.touched = TRUE]
  BY <1>4 DEF CycleFields, Limit
<1>5. QED BY <1>1, <1>2, <1>3, <1>4

(* A plan that stops leaves what fits.                                     *)
LEMMA StoppedWithRoom ==
  ASSUME Inv, WithRoom, cycle.step \in Busy, Stop, Inv', StagedSizes',
         Limited => OnPi(disk'.root, disk'.staging) <= Limit
  PROVE  WithRoom'
<1>1. /\ cycle'.todo = <<>> /\ cycle'.touched = cycle.touched /\ cycle'.step = "check"
      /\ cycle'.listing = cycle.listing /\ Limit' = Limit
  BY CycleSteps, ListingKept DEF Inv, CycleOK
<1>2. OnPi(disk'.root, disk'.staging) \in Nat
  BY OnPiIs DEF Inv, DiskOK, StagedSizes
<1>3. Aside' = disk'.staging
  BY <1>1 DEF Aside
<1>4. Limited' => Limited
  BY <1>1 DEF Limited
<1>5. ASSUME Limited'
      PROVE  /\ SizesOK(cycle'.listing)
             /\ OnPi(disk'.root, disk'.staging) <= Limit'
             /\ RoomLeft(cycle'.listing, cycle'.todo, disk'.root, Aside', Limit')
  <2>1. Limit \in Int /\ SizesOK(cycle.listing) /\ OnPi(disk'.root, disk'.staging) <= Limit
    BY <1>4, <1>5, RoomNow
  <2>2. RoomLeft(cycle.listing, <<>>, disk'.root, disk'.staging, Limit)
    BY <1>2, <2>1, RoomOver
  <2>3. QED BY <1>1, <1>3, <2>1, <2>2
<1>6. QED BY <1>5 DEF WithRoom

(* An action that is done takes no more room than the plan said.           *)
LEMMA DoneWithRoom ==
  ASSUME Inv, WithRoom, cycle.step \in Busy, Done, Inv', StagedSizes',
         Limited =>
           /\ OnPi(disk.root, Aside) \in Int
           /\ OnPi(disk'.root, disk'.staging) <= OnPi(disk.root, Aside) + Delta(cycle.listing, Action),
         \A n \in DOMAIN disk.root : (Action.kind \in Takes => n # Action.src) =>
           /\ n \in DOMAIN disk'.root /\ disk'.root[n].size = disk.root[n].size
           /\ disk'.root[n].isDir = disk.root[n].isDir,
         Action.kind \in StagingDeletes => \A x \in DOMAIN Aside : x # Action.src =>
           x \in DOMAIN disk'.staging /\ disk'.staging[x].size = Aside[x].size
  PROVE  WithRoom'
<1>1. /\ cycle'.todo = Tail(cycle.todo) /\ cycle'.touched = cycle.touched
      /\ cycle'.step \in {"run", "check"}
      /\ cycle'.listing = cycle.listing /\ Limit' = Limit /\ cycle.todo # <<>>
  BY CycleSteps, ListingKept DEF Inv, CycleOK
<1>2. PICK T : cycle.todo \in Seq(T)
  BY CycleSteps DEF Inv
<1>3. OnPi(disk'.root, disk'.staging) \in Int
  BY OnPiIs DEF Inv, DiskOK, StagedSizes
<1>4. Aside' = disk'.staging
  BY <1>1 DEF Aside
<1>5. Limited' => Limited
  BY <1>1 DEF Limited, Busy
<1>6. ASSUME Limited'
      PROVE  /\ SizesOK(cycle'.listing)
             /\ OnPi(disk'.root, disk'.staging) <= Limit'
             /\ RoomLeft(cycle'.listing, cycle'.todo, disk'.root, Aside', Limit')
  <2> DEFINE s == cycle.todo
             listing == cycle.listing
             root == disk.root
             staging == Aside
             root2 == disk'.root
             staging2 == disk'.staging
             limit == Limit
  <2>1. Limited
    BY <1>5, <1>6
  <2>2. limit \in Int /\ SizesOK(listing) /\ RoomLeft(listing, s, root, staging, limit)
    BY <2>1, RoomNow
  <2>3. TakesApart(s)
    BY DEF Inv, TodoOK
  <2>4. /\ OnPi(root, staging) \in Int /\ OnPi(root2, staging2) \in Int
        /\ OnPi(root2, staging2) <= OnPi(root, staging) + Delta(listing, Head(s))
    BY <1>3, <2>1 DEF Action
  <2>5. \A n \in DOMAIN root : (Head(s).kind \in Takes => n # Head(s).src) =>
          n \in DOMAIN root2 /\ root2[n].size = root[n].size /\ root2[n].isDir = root[n].isDir
    BY DEF Action
  <2>6. Head(s).kind \in StagingDeletes => \A x \in DOMAIN staging : x # Head(s).src =>
          x \in DOMAIN staging2 /\ staging2[x].size = staging[x].size
    BY DEF Action
  <2>7. s \in Seq(T) /\ s # <<>>
    BY <1>1, <1>2
  <2> HIDE DEF s, listing, root, staging, root2, staging2, limit
  <2>8. RoomLeft(listing, Tail(s), root2, staging2, limit) /\ OnPi(root2, staging2) <= limit
    BY <2>2, <2>3, <2>4, <2>5, <2>6, <2>7, RoomAfter
  <2>9. QED BY <1>1, <1>4, <2>2, <2>8 DEF s, listing, root2, staging2, limit
<1>7. QED BY <1>6 DEF WithRoom

(* The first action of the plan, as the folder knows it.                   *)
LEMMA FirstFits ==
  ASSUME Inv, WithRoom, cycle.step \in Busy, Limited
  PROVE  LET D == Delta(cycle.listing, Action)
         IN  /\ D \in Int
             /\ \E base \in Int : /\ OnPi(disk.root, Aside) <= base
                                  /\ base <= Limit /\ base + D <= Limit
             /\ Action.kind = "upload" => Action.video.size \in Nat /\ D = Action.video.size
             /\ Action.kind \in RootDeletes =>
                  Action.src \in DOMAIN disk.root /\ D = - SizeIn(disk.root, Action.src)
             /\ Action.kind \in StagingDeletes =>
                  Action.src \in DOMAIN Aside /\ D = - Aside[Action.src].size
             /\ Action.kind \notin RootDeletes \cup StagingDeletes \cup {"upload"} => D = 0
<1>1. PICK T : cycle.todo \in Seq(T)
  BY CycleSteps DEF Inv
<1>2. cycle.todo # <<>>
  BY CycleSteps DEF Inv
<1> DEFINE s == cycle.todo
           listing == cycle.listing
           D == Delta(listing, Head(s))
           root == disk.root
           staging == Aside
           limit == Limit
<1>3. limit \in Int /\ SizesOK(listing) /\ RoomLeft(listing, s, root, staging, limit)
  BY RoomNow
<1>4. s \in Seq(T) /\ s # <<>>
  BY <1>1, <1>2
<1> HIDE DEF s, listing, root, staging, limit
<1>5. /\ D \in Int
      /\ Head(s).kind = "upload" => Head(s).video.size \in Nat /\ D = Head(s).video.size
      /\ Head(s).kind \in Takes =>
           /\ Head(s).src \in DOMAIN root
           /\ Head(s).kind \in RootDeletes => D = - SizeIn(root, Head(s).src)
      /\ Head(s).kind \in StagingDeletes =>
           Head(s).src \in DOMAIN staging /\ D = - staging[Head(s).src].size
      /\ Head(s).kind \notin RootDeletes \cup StagingDeletes \cup {"upload"} => D = 0
  BY <1>3, <1>4, FirstStands
<1>6. PICK base \in Int : OnPi(root, staging) <= base /\ Spends(listing, s, base, limit)
  BY <1>3 DEF RoomLeft
<1>7. base <= limit /\ base + D <= limit
  BY <1>3, <1>4, <1>5, <1>6, SpendsTail
<1>8. RootDeletes \subseteq Takes
  BY DEF RootDeletes, Takes
<1>9. QED BY <1>5, <1>6, <1>7, <1>8 DEF s, listing, root, staging, limit, Action

-----------------------------------------------------------------------------
(* The actions of the plan                                                 *)

LEMMA MkdirHasRoom ==
  ASSUME Inv, WithRoom, MakeStagingDir, Inv'
  PROVE  WithRoom'
<1>1. DiskOK /\ StagedSizes /\ DOMAIN disk = DiskFields
  BY DEF Inv, DiskOK, WithRoom
<1>2. /\ cycle.step = "run" /\ Action.kind = "mkdir_staging" /\ Done
      /\ disk' = [disk EXCEPT !.stagingExists = TRUE]
  BY DEF MakeStagingDir, Running
<1>3. disk'.root = disk.root /\ disk'.staging = disk.staging /\ StagedSizes'
  BY <1>1, <1>2, DiskChanged DEF StagedSizes
<1>4. cycle.step \in Busy /\ Aside = disk.staging /\ OnPi(disk.root, disk.staging) \in Int
      /\ Action.kind \notin RootDeletes \cup StagingDeletes \cup {"upload"}
  BY <1>1, <1>2, OnDisk DEF Busy, Aside, RootDeletes, StagingDeletes
<1>5. ASSUME Limited
      PROVE  OnPi(disk'.root, disk'.staging) <= OnPi(disk.root, Aside) + Delta(cycle.listing, Action)
  <2>1. Delta(cycle.listing, Action) = 0
    BY <1>4, <1>5, FirstFits
  <2>2. QED BY <1>3, <1>4, <2>1
<1>6. QED BY <1>2, <1>3, <1>4, <1>5, DoneWithRoom

LEMMA MoveInHasRoom ==
  ASSUME Inv, WithRoom, MoveIn, Inv'
  PROVE  WithRoom'
<1> DEFINE root == disk.root
           staging == disk.staging
           src == Action.src
           dst == Action.dst
           from == staging[src]
           file == [size |-> from.size, mtime |-> from.mtime, isDir |-> FALSE, data |-> from.data]
<1>1. DiskOK /\ StagedSizes /\ DOMAIN disk = DiskFields
  BY DEF Inv, DiskOK, WithRoom
<1>2. /\ cycle.step = "run" /\ Action.kind = "activate"
      /\ IF dst \in DOMAIN root \/ src \notin DOMAIN staging
           THEN Stop /\ UNCHANGED disk
           ELSE /\ disk' = [disk EXCEPT !.staging = Without(staging, src), !.root = With(root, dst, file)]
                /\ Done
  BY DEF MoveIn, Running
<1>3. /\ cycle.step \in Busy /\ Aside = staging /\ OnPi(root, staging) \in Int
      /\ Action.kind \notin RootDeletes \cup StagingDeletes \cup {"upload"} \cup Takes
  BY <1>1, <1>2, OnDisk DEF Busy, Aside, RootDeletes, StagingDeletes, Takes
<1>4. CASE dst \in DOMAIN root \/ src \notin DOMAIN staging
  <2>1. Stop /\ disk' = disk
    BY <1>2, <1>4
  <2>2. StagedSizes' /\ (Limited => OnPi(disk'.root, disk'.staging) <= Limit)
    BY <1>1, <2>1, RoomNow DEF StagedSizes
  <2>3. QED BY <1>3, <2>1, <2>2, StoppedWithRoom
<1>5. CASE dst \notin DOMAIN root /\ src \in DOMAIN staging
  <2>1. Done /\ disk' = [disk EXCEPT !.staging = Without(staging, src), !.root = With(root, dst, file)]
    BY <1>2, <1>5
  <2>2. disk'.root = With(root, dst, file) /\ disk'.staging = Without(staging, src)
    BY <1>1, <2>1, DiskChanged
  <2>3. SizesKnown(root) /\ SizesKnown(staging)
    BY <1>1, OnDisk
  <2>4. file.size = from.size /\ ~ file.isDir
    OBVIOUS
  <2> HIDE DEF root, staging, src, dst, from, file
  <2>5. /\ SizesKnown(Without(staging, src)) /\ Space(Without(staging, src)) \in Nat
        /\ from.size \in Nat /\ Space(staging) = Space(Without(staging, src)) + from.size
    BY <1>5, <2>3, SpaceWithout DEF from
  <2>6. /\ RootBytes(With(root, dst, file)) \in Nat /\ RootBytes(root) \in Nat
        /\ RootBytes(With(root, dst, file)) = RootBytes(root) + from.size
    <3>1. file.size \in Nat
      BY <2>4, <2>5
    <3>2. /\ RootBytes(With(root, dst, file)) \in Nat
          /\ RootBytes(With(root, dst, file)) = RootBytes(root) + (IF file.isDir THEN 0 ELSE file.size)
      BY <1>5, <2>3, <3>1, RootWith
    <3>3. QED BY <2>3, <2>4, <3>2, FilesInAre
  <2>7. OnPi(disk'.root, disk'.staging) = OnPi(root, staging)
    BY <2>2, <2>5, <2>6 DEF OnPi
  <2>8. StagedSizes'
    BY <2>2, <2>5 DEF StagedSizes, SizesKnown
  <2>9. ASSUME Limited
        PROVE  OnPi(disk'.root, disk'.staging) <= OnPi(root, Aside) + Delta(cycle.listing, Action)
    <3>1. Delta(cycle.listing, Action) = 0
      BY <1>3, <2>9, FirstFits
    <3>2. QED BY <1>3, <2>7, <3>1
  <2>10. \A n \in DOMAIN root : n \in DOMAIN With(root, dst, file) /\ With(root, dst, file)[n] = root[n]
    BY <1>5 DEF With
  <2>11. QED BY <1>3, <2>1, <2>2, <2>8, <2>9, <2>10, DoneWithRoom DEF root, staging
<1>6. QED BY <1>4, <1>5

LEMMA MoveWithinHasRoom ==
  ASSUME Inv, WithRoom, MoveWithin, Inv'
  PROVE  WithRoom'
<1> DEFINE root == disk.root
           staging == disk.staging
           src == Action.src
           dst == Action.dst
           root2 == With(Without(root, src), dst, root[src])
<1>1. DiskOK /\ StagedSizes /\ DOMAIN disk = DiskFields
  BY DEF Inv, DiskOK, WithRoom
<1>2. /\ cycle.step = "run" /\ Action.kind = "reorder"
      /\ IF dst \in DOMAIN root \/ src \notin DOMAIN root
           THEN Stop /\ UNCHANGED disk
           ELSE /\ disk' = [disk EXCEPT !.root = root2]
                /\ Done
  BY DEF MoveWithin, Running
<1>3. /\ cycle.step \in Busy /\ Aside = staging /\ OnPi(root, staging) \in Int
      /\ Action.kind \notin RootDeletes \cup StagingDeletes \cup {"upload"} /\ Action.kind \in Takes
  BY <1>1, <1>2, OnDisk DEF Busy, Aside, RootDeletes, StagingDeletes, Takes
<1>4. CASE dst \in DOMAIN root \/ src \notin DOMAIN root
  <2>1. Stop /\ disk' = disk
    BY <1>2, <1>4
  <2>2. StagedSizes' /\ (Limited => OnPi(disk'.root, disk'.staging) <= Limit)
    BY <1>1, <2>1, RoomNow DEF StagedSizes
  <2>3. QED BY <1>3, <2>1, <2>2, StoppedWithRoom
<1>5. CASE dst \notin DOMAIN root /\ src \in DOMAIN root
  <2>1. Done /\ disk' = [disk EXCEPT !.root = root2]
    BY <1>2, <1>5
  <2> HIDE DEF root2
  <2>2. disk'.root = root2 /\ disk'.staging = staging
    BY <1>1, <2>1, DiskChanged
  <2>3. SizesKnown(root) /\ Space(staging) \in Nat
    BY <1>1, OnDisk
  <2> DEFINE rest == Without(root, src)
  <2>4. DOMAIN rest = DOMAIN root \ {src} /\ \A n \in DOMAIN rest : rest[n] = root[n]
    BY DEF Without, Restrict
  <2>5. /\ \A n \in DOMAIN rest : n \in DOMAIN root2 /\ root2[n] = rest[n]
    BY <1>5, <2>4 DEF With, root2
  <2>6. root2 = With(rest, dst, root[src])
    BY DEF root2
  <2> HIDE DEF root, staging, src, dst, rest
  <2>7. /\ SizesKnown(rest) /\ RootBytes(rest) \in Nat /\ SizeIn(root, src) \in Nat
        /\ RootBytes(root) = RootBytes(rest) + SizeIn(root, src)
    BY <1>5, <2>3, RootWithout DEF rest
  <2>8. root[src].size \in Nat /\ dst \notin DOMAIN rest
    BY <1>5, <2>3, <2>4 DEF SizesKnown
  <2>9. RootBytes(root2) = RootBytes(rest) + SizeIn(root, src)
    BY <2>6, <2>7, <2>8, RootWith DEF SizeIn
  <2>10. OnPi(disk'.root, disk'.staging) = OnPi(root, staging)
    BY <2>2, <2>7, <2>9 DEF OnPi
  <2>11. StagedSizes'
    BY <1>1, <2>2 DEF StagedSizes, staging
  <2>12. ASSUME Limited
         PROVE  OnPi(disk'.root, disk'.staging) <= OnPi(root, Aside) + Delta(cycle.listing, Action)
    <3>1. Delta(cycle.listing, Action) = 0
      BY <1>3, <2>12, FirstFits
    <3>2. QED BY <1>3, <2>10, <3>1
  <2>13. \A n \in DOMAIN root : n # src => n \in DOMAIN root2 /\ root2[n] = root[n]
    BY <2>4, <2>5
  <2>14. QED BY <1>3, <2>1, <2>2, <2>11, <2>12, <2>13, DoneWithRoom DEF root, staging, src
<1>6. QED BY <1>4, <1>5

LEMMA MoveOutHasRoom ==
  ASSUME Inv, WithRoom, MoveOut, Inv'
  PROVE  WithRoom'
<1> DEFINE root == disk.root
           staging == disk.staging
           src == Action.src
           dst == Action.dst
           file == [size |-> root[src].size, mtime |-> root[src].mtime, data |-> root[src].data]
<1>1. DiskOK /\ StagedSizes /\ DOMAIN disk = DiskFields
  BY DEF Inv, DiskOK, WithRoom
<1>2. /\ cycle.step = "run" /\ Action.kind = "deactivate"
      /\ IF dst \in DOMAIN staging \/ src \notin DOMAIN root
           THEN Stop /\ UNCHANGED disk
           ELSE /\ disk' = [disk EXCEPT !.root = Without(root, src), !.staging = With(staging, dst, file)]
                /\ Done
  BY DEF MoveOut, Running
<1>3. /\ cycle.step \in Busy /\ Aside = staging /\ OnPi(root, staging) \in Int
      /\ Action.kind \notin RootDeletes \cup StagingDeletes \cup {"upload"}
      /\ Action.kind \in Takes \ {"delete_legacy"}
  BY <1>1, <1>2, OnDisk DEF Busy, Aside, RootDeletes, StagingDeletes, Takes
<1>4. CASE dst \in DOMAIN staging \/ src \notin DOMAIN root
  <2>1. Stop /\ disk' = disk
    BY <1>2, <1>4
  <2>2. StagedSizes' /\ (Limited => OnPi(disk'.root, disk'.staging) <= Limit)
    BY <1>1, <2>1, RoomNow DEF StagedSizes
  <2>3. QED BY <1>3, <2>1, <2>2, StoppedWithRoom
<1>5. CASE dst \notin DOMAIN staging /\ src \in DOMAIN root
  <2>1. Done /\ disk' = [disk EXCEPT !.root = Without(root, src), !.staging = With(staging, dst, file)]
    BY <1>2, <1>5
  <2>2. disk'.root = Without(root, src) /\ disk'.staging = With(staging, dst, file)
    BY <1>1, <2>1, DiskChanged
  <2>3. SizesKnown(root) /\ SizesKnown(staging)
    BY <1>1, OnDisk
  <2>4. file.size = root[src].size /\ ~ root[src].isDir
    <3>1. src \in OwnNames(root)
      BY <1>3, Underway
    <3>2. FileOK(src, root[src], now)
      BY <1>1, <1>5 DEF DiskOK, FilesOK
    <3>3. QED BY <3>1, <3>2 DEF OwnNames, FileOK
  <2> HIDE DEF root, staging, src, dst, file
  <2>5. /\ RootBytes(Without(root, src)) \in Nat
        /\ root[src].size \in Nat /\ RootBytes(root) = RootBytes(Without(root, src)) + root[src].size
    BY <1>5, <2>3, <2>4, RootWithout DEF SizeIn
  <2>6. /\ Space(With(staging, dst, file)) \in Nat /\ Space(staging) \in Nat
        /\ Space(With(staging, dst, file)) <= Space(staging) + root[src].size
        /\ SizesKnown(With(staging, dst, file))
    <3>1. file.size \in Nat
      BY <2>4, <2>5
    <3>2. /\ Space(With(staging, dst, file)) \in Nat
          /\ Space(With(staging, dst, file)) = Space(Without(staging, dst)) + file.size
          /\ SizesKnown(With(staging, dst, file))
      BY <2>3, <3>1, SpaceWith
    <3>3. /\ Space(Without(staging, dst)) \in Nat /\ Space(staging) \in Nat
          /\ Space(Without(staging, dst)) <= Space(staging)
      BY <2>3, SpaceWithout
    <3>4. QED BY <2>4, <3>1, <3>2, <3>3
  <2>7. OnPi(disk'.root, disk'.staging) <= OnPi(root, staging)
    BY <2>2, <2>5, <2>6 DEF OnPi
  <2>8. StagedSizes' /\ OnPi(disk'.root, disk'.staging) \in Int
    BY <2>2, <2>5, <2>6 DEF StagedSizes, SizesKnown, OnPi
  <2>9. ASSUME Limited
        PROVE  OnPi(disk'.root, disk'.staging) <= OnPi(root, Aside) + Delta(cycle.listing, Action)
    <3>1. Delta(cycle.listing, Action) = 0
      BY <1>3, <2>9, FirstFits
    <3>2. QED BY <1>3, <2>7, <2>8, <3>1
  <2>10. \A n \in DOMAIN root : n # src => n \in DOMAIN Without(root, src) /\ Without(root, src)[n] = root[n]
    BY DEF Without, Restrict
  <2>11. QED BY <1>3, <2>1, <2>2, <2>8, <2>9, <2>10, DoneWithRoom DEF root, staging, src
<1>6. QED BY <1>4, <1>5

LEMMA DeleteVisibleHasRoom ==
  ASSUME Inv, WithRoom, DeleteVisible, Inv'
  PROVE  WithRoom'
<1> DEFINE root == disk.root
           staging == disk.staging
           src == Action.src
<1>1. DiskOK /\ StagedSizes /\ DOMAIN disk = DiskFields
  BY DEF Inv, DiskOK, WithRoom
<1>2. /\ cycle.step \in {"run", "confirmed"} /\ Action.kind \in RootDeletes
      /\ IF src \in DOMAIN root
           THEN disk' = [disk EXCEPT !.root = Without(root, src)] /\ Done
           ELSE Stop /\ UNCHANGED disk
  BY DEF DeleteVisible, Running, Inv, CycleOK, RootDeletes
<1>3. /\ cycle.step \in Busy /\ Aside = staging /\ OnPi(root, staging) \in Int
      /\ Action.kind \notin StagingDeletes /\ Action.kind \in Takes
  BY <1>1, <1>2, OnDisk DEF Busy, Aside, RootDeletes, StagingDeletes, Takes
<1>4. CASE src \notin DOMAIN root
  <2>1. Stop /\ disk' = disk
    BY <1>2, <1>4
  <2>2. StagedSizes' /\ (Limited => OnPi(disk'.root, disk'.staging) <= Limit)
    BY <1>1, <2>1, RoomNow DEF StagedSizes
  <2>3. QED BY <1>3, <2>1, <2>2, StoppedWithRoom
<1>5. CASE src \in DOMAIN root
  <2>1. Done /\ disk' = [disk EXCEPT !.root = Without(root, src)]
    BY <1>2, <1>5
  <2>2. disk'.root = Without(root, src) /\ disk'.staging = staging
    BY <1>1, <2>1, DiskChanged
  <2>3. SizesKnown(root) /\ Space(staging) \in Nat
    BY <1>1, OnDisk
  <2>4. StagedSizes'
    BY <1>1, <2>2 DEF StagedSizes
  <2> HIDE DEF root, staging, src
  <2>5. /\ RootBytes(Without(root, src)) \in Nat /\ SizeIn(root, src) \in Nat
        /\ RootBytes(root) = RootBytes(Without(root, src)) + SizeIn(root, src)
    BY <1>5, <2>3, RootWithout
  <2>6. ASSUME Limited
        PROVE  OnPi(disk'.root, disk'.staging) <= OnPi(root, Aside) + Delta(cycle.listing, Action)
    <3>1. Delta(cycle.listing, Action) = - SizeIn(root, src)
      BY <1>2, <1>3, <2>6, FirstFits DEF root, src
    <3>2. QED BY <1>3, <2>2, <2>3, <2>5, <3>1 DEF OnPi
  <2>7. \A n \in DOMAIN root : n # src => n \in DOMAIN Without(root, src) /\ Without(root, src)[n] = root[n]
    BY DEF Without, Restrict
  <2>8. QED BY <1>3, <2>1, <2>2, <2>4, <2>6, <2>7, DoneWithRoom DEF root, staging, src
<1>6. QED BY <1>4, <1>5

LEMMA DeleteHiddenHasRoom ==
  ASSUME Inv, WithRoom, DeleteHidden, Inv'
  PROVE  WithRoom'
<1> DEFINE root == disk.root
           staging == disk.staging
           src == Action.src
<1>1. DiskOK /\ StagedSizes /\ DOMAIN disk = DiskFields
  BY DEF Inv, DiskOK, WithRoom
<1>2. /\ cycle.step = "run" /\ Action.kind \in StagingDeletes /\ Done
      /\ disk' = [disk EXCEPT !.staging = Without(staging, src)]
  BY DEF DeleteHidden, Running
<1>3. /\ cycle.step \in Busy /\ Aside = staging /\ OnPi(root, staging) \in Int
  BY <1>1, <1>2, OnDisk DEF Busy, Aside
<1>4. disk'.root = root /\ disk'.staging = Without(staging, src)
  BY <1>1, <1>2, DiskChanged
<1>5. SizesKnown(staging) /\ RootBytes(root) \in Nat
  BY <1>1, OnDisk
<1> HIDE DEF root, staging, src
<1>6. /\ SizesKnown(Without(staging, src)) /\ Space(Without(staging, src)) \in Nat
      /\ src \in DOMAIN staging =>
           staging[src].size \in Nat /\ Space(staging) = Space(Without(staging, src)) + staging[src].size
  BY <1>5, SpaceWithout
<1>7. StagedSizes'
  BY <1>4, <1>6 DEF StagedSizes, SizesKnown
<1>8. ASSUME Limited
      PROVE  OnPi(disk'.root, disk'.staging) <= OnPi(root, Aside) + Delta(cycle.listing, Action)
  <2>1. src \in DOMAIN staging /\ Delta(cycle.listing, Action) = - staging[src].size
    BY <1>2, <1>3, <1>8, FirstFits DEF src
  <2>2. QED BY <1>3, <1>4, <1>5, <1>6, <2>1 DEF OnPi
<1>9. \A x \in DOMAIN staging : x # src =>
        x \in DOMAIN Without(staging, src) /\ Without(staging, src)[x] = staging[x]
  BY DEF Without, Restrict
<1>10. QED BY <1>2, <1>3, <1>4, <1>7, <1>8, <1>9, DoneWithRoom DEF root, src

(* A plan that is given up, before the folder changed.                     *)
LEMMA RefusedHasRoom ==
  ASSUME Inv, WithRoom, cycle.step \in Busy, Stop, disk' = disk, Inv'
  PROVE  WithRoom'
<1>1. StagedSizes' /\ (Limited => OnPi(disk'.root, disk'.staging) <= Limit)
  BY RoomNow DEF StagedSizes, WithRoom
<1>2. QED BY <1>1, StoppedWithRoom

LEMMA ConfirmHasRoom ==
  ASSUME Inv, WithRoom, ConfirmLegacyDelete, Inv'
  PROVE  WithRoom'
<1>1. /\ cycle.step = "run" /\ cycle.step \in Busy /\ disk' = disk
      /\ cycle' = [cycle EXCEPT !.step = "confirmed"] \/ Stop
  BY DEF ConfirmLegacyDelete, Running, Busy
<1>2. CASE Stop
  BY <1>1, <1>2, RefusedHasRoom
<1>3. CASE cycle' = [cycle EXCEPT !.step = "confirmed"]
  <2>1. /\ cycle'.step = "confirmed" /\ cycle'.todo = cycle.todo /\ cycle'.touched = cycle.touched
        /\ cycle'.listing = cycle.listing /\ Limit' = Limit
    BY <1>3, ListingKept DEF Inv, CycleOK, CycleFields
  <2>2. Aside' = Aside /\ (Limited' => Limited)
    BY <1>1, <2>1 DEF Aside, Limited, Busy
  <2>3. QED BY <1>1, <2>1, <2>2 DEF WithRoom, StagedSizes
<1>4. QED BY <1>1, <1>2, <1>3

-----------------------------------------------------------------------------
(* Uploads                                                                 *)

(* A plan that sends has cleared the staging folder before.                *)
LEMMA ClearedBefore ==
  ASSUME NEW T, NEW s \in Seq(T), s # <<>>, Head(s).kind \notin StagingDeletes,
         NEW listing, NEW limit, NEW root, NEW staging,
         RoomLeft(listing, s, root, staging, limit),
         NEW staging2, OnPi(root, staging) \in Int, OnPi(root, staging2) \in Int,
         OnPi(root, staging2) <= OnPi(root, staging)
  PROVE  RoomLeft(listing, s, root, staging2, limit)
<1>1. Len(s) \in Nat /\ 1 \in 1 .. Len(s) /\ Head(s) = s[1]
  BY FirstOf
<1>2. PICK c : ClearsUpTo(s, c)
  BY DEF RoomLeft
<1>3. \A i \in 1 .. Len(s) : s[i].kind \notin StagingDeletes
  <2>1. c \in Nat /\ \A i \in 1 .. Len(s) : s[i].kind \in StagingDeletes <=> i <= c
    BY <1>2 DEF ClearsUpTo
  <2>2. ~ (1 <= c)
    BY <1>1, <2>1
  <2>3. QED BY <2>1, <2>2
<1>4. Stands(s, listing, root, staging2)
  BY <1>3 DEF RoomLeft, Stands
<1>5. PICK base \in Int : OnPi(root, staging) <= base /\ Spends(listing, s, base, limit)
  BY DEF RoomLeft
<1>6. OnPi(root, staging2) <= base
  BY <1>5
<1>7. QED BY <1>2, <1>4, <1>5, <1>6 DEF RoomLeft

LEMMA StartHasRoom ==
  ASSUME Inv, WithRoom, StartUpload, Inv'
  PROVE  WithRoom'
<1> DEFINE root == disk.root
           staging == disk.staging
           part == Part(Action.video.sha)
           begun == [size |-> PartialBytes, mtime |-> now, data |-> Broken]
           staging2 == With(staging, part, begun)
           rest == Without(staging, part)
           rest2 == Without(staging2, part)
<1>1. DiskOK /\ StagedSizes /\ DOMAIN disk = DiskFields
  BY DEF Inv, DiskOK, WithRoom
<1>2. /\ cycle.step = "run" /\ Action.kind = "upload"
      /\ cycle' = [cycle EXCEPT !.step = "sending"]
      /\ disk' = [disk EXCEPT !.staging = staging2]
  BY DEF StartUpload, Running
<1>3. cycle.step \in Busy /\ Aside = staging
  BY <1>2 DEF Busy, Aside
<1>4. /\ cycle'.step = "sending" /\ cycle'.todo = cycle.todo /\ cycle'.touched = cycle.touched
      /\ cycle'.listing = cycle.listing /\ Limit' = Limit
  BY <1>2, ListingKept DEF Inv, CycleOK, CycleFields
<1>5. disk'.root = root /\ disk'.staging = staging2
  BY <1>1, <1>2, DiskChanged
<1>6. Aside' = rest2
  BY <1>4, <1>5 DEF Aside, Action
<1>7. SizesKnown(staging) /\ RootBytes(root) \in Nat /\ OnPi(root, staging) \in Int
  BY <1>1, OnDisk
<1>8. begun.size = 1 /\ begun.size \in Nat
  BY DEF PartialBytes
<1>9. Action.video \in Library /\ Action.video.size > 1
  BY <1>2, <1>3, Uploading, ReconcileAssumption DEF PartialBytes
<1> HIDE DEF root, staging, part, begun, staging2, rest, rest2
<1>10. SizesKnown(staging2) /\ Space(staging2) = Space(rest) + 1
  BY <1>7, <1>8, SpaceWith DEF staging2, rest
<1>11. Space(rest) \in Nat /\ Space(rest) <= Space(staging) /\ Space(staging) \in Nat
  BY <1>7, SpaceWithout DEF rest
<1>12. Space(rest2) = Space(rest)
  <2>1. /\ DOMAIN rest2 = DOMAIN rest
        /\ \A x \in DOMAIN rest2 : rest2[x].size = rest[x].size
    BY DEF rest2, rest, staging2, Without, Restrict, With
  <2>2. QED BY <2>1, SpaceSame
<1>13. StagedSizes'
  BY <1>5, <1>10 DEF StagedSizes, SizesKnown
<1>14. Limited' => Limited
  BY <1>3, <1>4 DEF Limited
<1>15. ASSUME Limited
       PROVE  /\ SizesOK(cycle.listing)
              /\ OnPi(root, staging2) <= Limit
              /\ RoomLeft(cycle.listing, cycle.todo, root, rest2, Limit)
  <2>1. Limit \in Nat /\ SizesOK(cycle.listing) /\ RoomLeft(cycle.listing, cycle.todo, root, staging, Limit)
    BY <1>3, <1>15, RoomNow DEF root
  <2>2. /\ Action.video.size \in Nat
        /\ \E base \in Int : OnPi(root, staging) <= base /\ base + Action.video.size <= Limit
    BY <1>2, <1>3, <1>15, FirstFits DEF root
  <2>3. OnPi(root, staging2) <= Limit
    BY <1>7, <1>9, <1>10, <1>11, <2>1, <2>2 DEF OnPi
  <2>4. OnPi(root, rest2) \in Int /\ OnPi(root, rest2) <= OnPi(root, staging)
    BY <1>7, <1>11, <1>12 DEF OnPi
  <2>5. PICK T : cycle.todo \in Seq(T)
    BY <1>3, CycleSteps DEF Inv
  <2>6. cycle.todo # <<>>
    BY <1>3, CycleSteps DEF Inv
  <2>7. Head(cycle.todo).kind \notin StagingDeletes
    BY <1>2 DEF Action, StagingDeletes
  <2>8. RoomLeft(cycle.listing, cycle.todo, root, rest2, Limit)
    BY <1>7, <2>1, <2>4, <2>5, <2>6, <2>7, ClearedBefore
  <2>9. QED BY <2>1, <2>3, <2>8
<1>16. QED BY <1>4, <1>5, <1>6, <1>13, <1>14, <1>15 DEF WithRoom

(* What is on the Pi, the .part that is being sent aside.                  *)
LEMMA SendingIs ==
  ASSUME Inv, WithRoom, cycle.step = "sending"
  PROVE  LET part == Part(Action.video.sha)
             rest == Without(disk.staging, part)
         IN  /\ cycle.step \in Busy /\ Action.kind = "upload" /\ Action.dst = Staged(Action.video.sha)
             /\ Aside = rest /\ part \notin DOMAIN rest
             /\ Action.video.size \in Nat
             /\ SizesKnown(rest) /\ RootBytes(disk.root) \in Nat
             /\ Space(rest) \in Nat /\ OnPi(disk.root, rest) \in Int
             /\ OnPi(disk.root, rest) <= OnPi(disk.root, disk.staging)
             /\ OnPi(disk.root, disk.staging) \in Int
<1> DEFINE part == Part(Action.video.sha)
           staging == disk.staging
           rest == Without(staging, part)
<1>1. cycle.step \in Busy /\ Action.kind = "upload" /\ Aside = rest
  BY DEF Busy, Inv, CycleOK, Aside
<1>2. Action.video \in Library /\ Action.dst = Staged(Action.video.sha)
  BY <1>1, Uploading
<1>3. Action.video.size \in Nat
  BY <1>2, LibraryAssumption
<1>4. part \notin DOMAIN rest
  BY DEF Without, Restrict
<1>5. /\ SizesKnown(staging) /\ RootBytes(disk.root) \in Nat /\ OnPi(disk.root, staging) \in Int
  BY OnDisk DEF Inv, WithRoom
<1> HIDE DEF staging, part
<1>6. /\ SizesKnown(rest) /\ Space(rest) \in Nat /\ Space(staging) \in Nat
      /\ Space(rest) <= Space(staging)
  BY <1>5, SpaceWithout
<1> HIDE DEF rest
<1>7. OnPi(disk.root, rest) \in Int /\ OnPi(disk.root, rest) <= OnPi(disk.root, staging)
  BY <1>5, <1>6 DEF OnPi
<1>8. QED BY <1>1, <1>2, <1>3, <1>4, <1>5, <1>6, <1>7 DEF staging, part, rest

LEMMA ShortHasRoom ==
  ASSUME Inv, WithRoom, UploadShort, Inv'
  PROVE  WithRoom'
<1> DEFINE rest == Without(disk.staging, Part(Action.video.sha))
<1>1. DOMAIN disk = DiskFields
  BY DEF Inv, DiskOK
<1>2. cycle.step = "sending" /\ Stop /\ disk' = [disk EXCEPT !.staging = rest]
  BY DEF UploadShort
<1>3. /\ cycle.step \in Busy /\ SizesKnown(rest) /\ OnPi(disk.root, rest) \in Int
      /\ OnPi(disk.root, rest) <= OnPi(disk.root, disk.staging)
      /\ OnPi(disk.root, disk.staging) \in Int
  BY <1>2, SendingIs
<1> HIDE DEF rest
<1>4. disk'.root = disk.root /\ disk'.staging = rest
  BY <1>1, <1>2, DiskChanged
<1>5. StagedSizes'
  BY <1>3, <1>4 DEF StagedSizes, SizesKnown
<1>6. ASSUME Limited PROVE OnPi(disk'.root, disk'.staging) <= Limit
  <2>1. Limit \in Nat /\ OnPi(disk.root, disk.staging) <= Limit
    BY <1>6, RoomNow
  <2>2. QED BY <1>3, <1>4, <2>1
<1>7. QED BY <1>2, <1>3, <1>5, <1>6, StoppedWithRoom

LEMMA FinishHasRoom ==
  ASSUME Inv, WithRoom, FinishUpload, Inv'
  PROVE  WithRoom'
<1> DEFINE v == Action.video
           part == Part(v.sha)
           rest == Without(disk.staging, part)
           sent == [size |-> v.size, mtime |-> now, data |-> v.sha]
           root == disk.root
<1>1. DOMAIN disk = DiskFields
  BY DEF Inv, DiskOK
<1>2. /\ cycle.step = "sending"
      /\ IF Action.dst \in DOMAIN disk.staging
           THEN disk' = [disk EXCEPT !.staging = With(rest, part, sent)] /\ Stop
           ELSE disk' = [disk EXCEPT !.staging = With(rest, Action.dst, sent)] /\ Done
  BY DEF FinishUpload
<1>3. /\ cycle.step \in Busy /\ Action.kind = "upload" /\ Aside = rest /\ part \notin DOMAIN rest
      /\ v.size \in Nat /\ SizesKnown(rest) /\ RootBytes(root) \in Nat
      /\ Space(rest) \in Nat /\ OnPi(root, rest) \in Int
  BY <1>2, SendingIs
<1>4. sent.size = v.size
  OBVIOUS
<1>5. Action.kind \notin Takes \cup StagingDeletes
  BY <1>3 DEF Takes, StagingDeletes
<1> HIDE DEF v, part, rest, sent, root
<1>6. ASSUME NEW x
      PROVE  /\ SizesKnown(With(rest, x, sent))
             /\ OnPi(root, With(rest, x, sent)) \in Int
             /\ OnPi(root, With(rest, x, sent)) <= OnPi(root, rest) + v.size
  <2>1. sent.size \in Nat
    BY <1>3, <1>4
  <2>2. /\ SizesKnown(With(rest, x, sent)) /\ Space(With(rest, x, sent)) \in Nat
        /\ Space(With(rest, x, sent)) = Space(Without(rest, x)) + sent.size
    BY <1>3, <2>1, SpaceWith
  <2>3. Space(Without(rest, x)) \in Nat /\ Space(Without(rest, x)) <= Space(rest)
    BY <1>3, SpaceWithout
  <2>4. QED BY <1>3, <1>4, <2>2, <2>3 DEF OnPi
<1>7. ASSUME Limited
      PROVE  /\ Limit \in Nat /\ Delta(cycle.listing, Action) = v.size
             /\ OnPi(root, rest) + v.size <= Limit
  <2>1. Limit \in Nat
    BY <1>7, RoomNow
  <2>2. /\ Delta(cycle.listing, Action) = v.size
        /\ \E base \in Int : OnPi(root, rest) <= base /\ base + v.size <= Limit
    BY <1>3, <1>7, FirstFits DEF root, v
  <2>3. QED BY <1>3, <2>1, <2>2
<1>8. CASE Action.dst \in DOMAIN disk.staging
  <2>1. Stop /\ disk' = [disk EXCEPT !.staging = With(rest, part, sent)]
    BY <1>2, <1>8
  <2>2. disk'.root = root /\ disk'.staging = With(rest, part, sent)
    BY <1>1, <2>1, DiskChanged DEF root
  <2>3. StagedSizes'
    BY <1>6, <2>2 DEF StagedSizes, SizesKnown
  <2>4. ASSUME Limited PROVE OnPi(disk'.root, disk'.staging) <= Limit
    BY <1>3, <1>6, <1>7, <2>2, <2>4
  <2>5. QED BY <1>3, <2>1, <2>3, <2>4, StoppedWithRoom
<1>9. CASE Action.dst \notin DOMAIN disk.staging
  <2>1. Done /\ disk' = [disk EXCEPT !.staging = With(rest, Action.dst, sent)]
    BY <1>2, <1>9
  <2>2. disk'.root = root /\ disk'.staging = With(rest, Action.dst, sent)
    BY <1>1, <2>1, DiskChanged DEF root
  <2>3. StagedSizes'
    BY <1>6, <2>2 DEF StagedSizes, SizesKnown
  <2>4. ASSUME Limited
        PROVE  OnPi(disk'.root, disk'.staging) <= OnPi(root, Aside) + Delta(cycle.listing, Action)
    BY <1>3, <1>6, <1>7, <2>2, <2>4
  <2>5. QED BY <1>3, <1>5, <2>1, <2>2, <2>3, <2>4, DoneWithRoom DEF root
<1>10. QED BY <1>8, <1>9

-----------------------------------------------------------------------------
(* A plan that begins                                                      *)

LEMMA PlanHasRoomFor ==
  ASSUME NEW inp, SizesListed(inp), inp.maxBytes # None, inp.maxBytes \in Nat,
         NEW limit \in Int, inp.maxBytes <= limit, BytesOf(inp.remote) <= limit,
         NEW root, NEW staging, OnPi(root, staging) = BytesOf(inp.remote),
         DOMAIN inp.remote.root \subseteq DOMAIN root,
         \A n \in DOMAIN inp.remote.root :
           /\ root[n].size = inp.remote.root[n].size
           /\ root[n].isDir = inp.remote.root[n].isDir,
         DOMAIN inp.remote.staging \subseteq DOMAIN staging,
         \A x \in DOMAIN inp.remote.staging : staging[x].size = inp.remote.staging[x].size
  PROVE  RoomLeft(inp.remote, Plan(inp), root, staging, limit)
<1> DEFINE s == Plan(inp)
           l == inp.remote
<1>1. Safe(inp, s)
  BY PlansAreSafe DEF SizesListed
<1>2. PICK c : Roomy(inp, s, limit, c)
  BY PlansFit
<1>3. BytesOf(l) \in Nat
  BY BytesKnown DEF SizesListed
<1> HIDE DEF s
<1>4. ASSUME NEW i \in 1 .. Len(s) PROVE WellFormed(inp, s[i])
  <2>1. s[i] \in ActionsOf(inp)
    BY <1>1 DEF Safe
  <2>2. QED BY <2>1 DEF ActionsOf
<1>5. \A i \in 1 .. Len(s) : Accounted(l, s[i])
  BY <1>2 DEF Roomy, Room
<1>6. PICK g : Spent(l, s, g) /\ \A k \in 0 .. Len(s) : g[k] <= limit
  BY <1>2 DEF Roomy, Room
<1>7. Spends(l, s, BytesOf(l), limit)
  BY <1>6 DEF Spent, Spends
<1>8. ASSUME NEW i \in 1 .. Len(s), s[i].kind \in Takes PROVE s[i].src \in DOMAIN l.root
  <2>1. WellFormed(inp, s[i])
    BY <1>4
  <2>2. QED BY <1>8, <2>1 DEF WellFormed, Takes, StagingDeletes, AppNames
<1>9. ASSUME NEW i \in 1 .. Len(s), s[i].kind \in StagingDeletes PROVE s[i].src \in DOMAIN l.staging
  BY <1>5, <1>9 DEF Accounted
<1>10. Stands(s, l, root, staging)
  BY <1>8, <1>9 DEF Stands
<1>11. OnPi(root, staging) <= BytesOf(l)
  BY <1>3
<1>12. \E x : ClearsUpTo(s, x)
  BY <1>2 DEF Roomy
<1>13. QED BY <1>3, <1>5, <1>7, <1>10, <1>11, <1>12 DEF RoomLeft, s

LEMMA PlanHasRoom ==
  ASSUME Inv, WithRoom, SnapshotAndPlan
  PROVE  WithRoom'
<1> DEFINE files == StoreSnapshot(rows, cycle.listing)
           inp   == PlannerInput(cycle.listing, files, cycle.at)
           s     == Plan(inp)
           seen  == Seen(files)
<1>1. /\ cycle.step = "listed" /\ disk' = disk
      /\ cycle' = IF s = <<>>
                    THEN [cycle EXCEPT !.step = "idle", !.outcome = "synced", !.seen = seen]
                    ELSE [cycle EXCEPT !.step = "run", !.todo = s, !.seen = seen]
  BY DEF SnapshotAndPlan
<1>2. /\ ListedOK(cycle.listing, cycle.touched) /\ wants \subseteq WantPool /\ DiskOK /\ StagedSizes
      /\ DOMAIN cycle = CycleFields
  BY <1>1 DEF Inv, CycleOK, WithRoom
<1>3. InputOK(inp) /\ inp.remote = cycle.listing /\ inp.maxBytes = MaxBytes
  BY <1>2, InputIsOK DEF PlannerInput
<1> HIDE DEF inp, s, seen
<1>4. StagedSizes'
  BY <1>1, <1>2 DEF StagedSizes
<1>5. CASE s = <<>>
  <2>1. cycle'.step = "idle"
    BY <1>1, <1>2, <1>5 DEF CycleFields
  <2>2. ~ Limited'
    BY <2>1 DEF Limited, Busy
  <2>3. QED BY <1>4, <2>2 DEF WithRoom
<1>6. CASE s # <<>>
  <2>1. /\ cycle'.step = "run" /\ cycle'.todo = s /\ cycle'.touched = cycle.touched
        /\ cycle'.listing = cycle.listing /\ Limit' = Limit
    BY <1>1, <1>2, <1>6 DEF CycleFields, Limit
  <2>2. Aside' = disk.staging
    BY <1>1, <2>1 DEF Aside
  <2>3. ASSUME Limited'
        PROVE  /\ SizesOK(cycle.listing)
               /\ OnPi(disk.root, disk.staging) <= Limit
               /\ RoomLeft(cycle.listing, s, disk.root, disk.staging, Limit)
    <3> DEFINE root == disk.root
               staging == disk.staging
               limit == Limit
    <3>1. ~ cycle.touched /\ MaxBytes # None
      BY <2>1, <2>3 DEF Limited
    <3>2. cycle.listing = Listing(disk)
      BY <1>2, <3>1 DEF ListedOK
    <3>3. SizesOK(cycle.listing) /\ BytesOf(cycle.listing) = OnPi(root, staging)
      BY <1>2, <3>2, OnDisk
    <3>4. /\ MaxBytes \in Nat /\ limit \in Nat /\ MaxBytes <= limit /\ BytesOf(cycle.listing) <= limit
      BY <3>1, <3>3, LimitIs
    <3>5. /\ DOMAIN inp.remote.root \subseteq DOMAIN root
          /\ \A n \in DOMAIN inp.remote.root :
               /\ root[n].size = inp.remote.root[n].size
               /\ root[n].isDir = inp.remote.root[n].isDir
          /\ DOMAIN inp.remote.staging \subseteq DOMAIN staging
          /\ \A x \in DOMAIN inp.remote.staging : staging[x].size = inp.remote.staging[x].size
      BY <1>3, <3>2 DEF Listing
    <3>6. SizesListed(inp)
      BY <1>3, <3>3 DEF SizesListed
    <3> HIDE DEF root, staging, limit
    <3>7. /\ inp.maxBytes # None /\ inp.maxBytes \in Nat /\ limit \in Int
          /\ inp.maxBytes <= limit /\ BytesOf(inp.remote) <= limit
          /\ OnPi(root, staging) = BytesOf(inp.remote)
      BY <1>3, <3>1, <3>3, <3>4
    <3>8. RoomLeft(inp.remote, Plan(inp), root, staging, limit)
      BY <3>5, <3>6, <3>7, PlanHasRoomFor
    <3>9. QED BY <1>3, <3>3, <3>4, <3>8 DEF s, root, staging, limit
  <2>4. QED BY <1>1, <1>4, <2>1, <2>2, <2>3 DEF WithRoom
<1>7. QED BY <1>5, <1>6

-----------------------------------------------------------------------------
(* Every step                                                              *)

(* A cycle that has no plan yet, or none any more.                         *)
LEMMA NoPlanHasRoom ==
  ASSUME WithRoom, ReadRemoteState \/ CheckAfter \/ CycleLost
  PROVE  WithRoom'
<1>1. disk' = disk /\ cycle'.step \in {"idle", "listed"}
  <2>1. CASE ReadRemoteState
    <3>1. \E at, l : cycle' = [Idle("none") EXCEPT !.step = "listed", !.at = at, !.listing = l]
      BY <2>1 DEF ReadRemoteState
    <3>2. cycle'.step = "listed"
      BY <3>1 DEF Idle
    <3>3. QED BY <2>1, <3>2 DEF ReadRemoteState
  <2>2. CASE CheckAfter
    <3>1. \E o, at, seen, l : cycle' = [Idle(o) EXCEPT !.at = at, !.seen = seen, !.listing = l]
      BY <2>2 DEF CheckAfter
    <3>2. cycle'.step = "idle"
      BY <3>1 DEF Idle
    <3>3. QED BY <2>2, <3>2 DEF CheckAfter
  <2>3. CASE CycleLost
    BY <2>3 DEF CycleLost, Idle
  <2>4. QED BY <2>1, <2>2, <2>3
<1>2. ~ Limited'
  BY <1>1 DEF Limited, Busy
<1>3. StagedSizes'
  BY <1>1 DEF WithRoom, StagedSizes
<1>4. QED BY <1>2, <1>3 DEF WithRoom

(* People at the folder.                                                   *)
LEMMA HandsAndRoom ==
  ASSUME Inv, WithRoom, cycle' = [cycle EXCEPT !.touched = TRUE],
         NEW root, disk' = [disk EXCEPT !.root = root]
  PROVE  WithRoom'
<1>1. DOMAIN disk = DiskFields /\ DOMAIN cycle = CycleFields
  BY DEF Inv, DiskOK, CycleOK
<1>2. disk'.staging = disk.staging /\ cycle'.touched
  BY <1>1, DiskChanged DEF CycleFields
<1>3. StagedSizes' /\ ~ Limited'
  BY <1>2 DEF WithRoom, StagedSizes, Limited
<1>4. QED BY <1>3 DEF WithRoom

LEMMA RoomInit == Init => WithRoom
<1> SUFFICES ASSUME Init PROVE WithRoom
  OBVIOUS
<1>1. disk.staging = <<>> /\ cycle.step = "idle"
  BY DEF Init, Idle
<1>2. DOMAIN disk.staging = {}
  BY <1>1
<1>3. QED BY <1>1, <1>2 DEF WithRoom, StagedSizes, Limited, Busy

LEMMA RoomSteps == Inv /\ Inv' /\ WithRoom /\ [Next]_vars => WithRoom'
<1> SUFFICES ASSUME Inv, Inv', WithRoom, [Next]_vars PROVE WithRoom'
  OBVIOUS
<1>1. CASE ReadRemoteState \/ SnapshotAndPlan \/ CheckAfter \/ CycleLost
  BY <1>1, PlanHasRoom, NoPlanHasRoom
<1>2. CASE MakeStagingDir \/ StartUpload \/ FinishUpload \/ UploadShort \/ DeleteHidden
  BY <1>2, MkdirHasRoom, StartHasRoom, FinishHasRoom, ShortHasRoom, DeleteHiddenHasRoom
<1>3. CASE MoveIn \/ MoveWithin \/ MoveOut \/ DeleteVisible \/ ConfirmLegacyDelete
  BY <1>3, MoveInHasRoom, MoveWithinHasRoom, MoveOutHasRoom, DeleteVisibleHasRoom, ConfirmHasRoom
<1>4. CASE ActionRefused
  BY <1>4, RefusedHasRoom DEF ActionRefused, Busy
<1>5. CASE \/ Tick \/ UNCHANGED vars
           \/ (\E w \in WantPool : EditSchedule(w))
           \/ (\E n \in DOMAIN rows : RequestDelete(n))
  <2>1. disk' = disk /\ cycle' = cycle
    BY <1>5 DEF Tick, EditSchedule, RequestDelete, vars
  <2>2. QED BY <2>1 DEF WithRoom, StagedSizes, Limited, Limit, Aside, Action
<1>6. CASE (\E h \in HandFiles : CopyByHand(h)) \/ (\E n \in DOMAIN disk.root : DeleteByHand(n))
  <2>1. /\ cycle' = [cycle EXCEPT !.touched = TRUE]
        /\ \E root : disk' = [disk EXCEPT !.root = root]
    BY <1>6 DEF CopyByHand, DeleteByHand
  <2>2. QED BY <2>1, HandsAndRoom
<1>7. QED BY <1>1, <1>2, <1>3, <1>4, <1>5, <1>6 DEF Next, CycleStep, Execute, Fault, People

LEMMA RoomFits == Inv /\ WithRoom => WithinCapacity
<1> SUFFICES ASSUME Inv, WithRoom, cycle.step \in {"run", "sending", "check"},
                    ~ cycle.touched, MaxBytes # None
             PROVE  BytesOf(Listing(disk)) <= Max({MaxBytes, BytesOf(cycle.listing)})
  BY DEF WithinCapacity
<1>1. Limited
  BY DEF Limited, Busy
<1>2. OnPi(disk.root, disk.staging) <= Limit
  BY <1>1 DEF WithRoom
<1>3. BytesOf(Listing(disk)) = OnPi(disk.root, disk.staging)
  BY OnDisk DEF Inv, WithRoom
<1>4. QED BY <1>2, <1>3 DEF Limit

(* With a limit, the files on the Pi never take more than the limit while  *)
(* a plan runs, or than they took when it was made if that was more: after *)
(* any action of any plan, in the middle of an upload, when one was cut    *)
(* short or refused (planner.py:605-733) - as long as nobody touches the   *)
(* folder meanwhile.                                                       *)
THEOREM TheLimitIsKept == Spec => []WithinCapacity
<1>1. Inv /\ WithRoom /\ Inv' /\ [Next]_vars => WithRoom'
  BY RoomSteps
<1>2. Inv /\ WithRoom => WithinCapacity
  BY RoomFits
<1>3. QED BY <1>1, <1>2, CycleInvariant, RoomInit, PTL DEF Spec

-----------------------------------------------------------------------------
(* What an up-to-date store leaves out                                     *)

(* A file of the app's with this title and content is in the folder.       *)
There(v) == \E n \in DOMAIN disk.root : n.slug = v.slug /\ disk.root[n].data = v.sha

LEMMA ThereIs ==
  ASSUME DiskOK, NEW inp, inp.library = Library, inp.remote = Listing(disk), NEW v \in Library
  PROVE  There(v) <=> OnScreen(inp, v)
<1> DEFINE root == inp.remote.root
<1>1. AppNames(inp) = OwnNames(disk.root) /\ \A n \in OwnNames(disk.root) : disk.root[n].data = n.sha
  BY OwnAre
<1>2. \A n \in DOMAIN disk.root : /\ root[n].size = disk.root[n].size
                                  /\ root[n].isDir = disk.root[n].isDir
  BY DEF Listing
<1>3. \A n \in DOMAIN disk.root : FileOK(n, disk.root[n], now)
  BY DEF DiskOK, FilesOK
<1> HIDE DEF root
<1>4. ASSUME There(v) PROVE OnScreen(inp, v)
  <2>1. PICK n \in DOMAIN disk.root : n.slug = v.slug /\ disk.root[n].data = v.sha
    BY <1>4 DEF There
  <2>2. v.sha # Foreign
    BY LibraryAssumption DEF Shas
  <2>3. n \in OwnNames(disk.root) /\ n.sha = v.sha
    BY <1>1, <2>1, <2>2 DEF OwnNames
  <2>4. PICK u \in Library : SizeMatches(u, n, disk.root[n])
    BY <1>3, <2>1, <2>2 DEF FileOK
  <2>5. v.size = disk.root[n].size
    BY <2>3, <2>4, LibraryAssumption DEF SizeMatches
  <2>6. ~ disk.root[n].isDir
    BY <1>3, <2>1, <2>2 DEF FileOK
  <2>7. Matches(v, n, root)
    BY <1>2, <2>1, <2>3, <2>5, <2>6 DEF Matches
  <2>8. QED BY <1>1, <2>3, <2>7 DEF OnScreen, root
<1>5. ASSUME OnScreen(inp, v) PROVE There(v)
  <2>1. PICK n \in AppNames(inp) : Matches(v, n, root)
    BY <1>5 DEF OnScreen, root
  <2>2. n \in OwnNames(disk.root) /\ n.slug = v.slug /\ disk.root[n].data = v.sha
    BY <1>1, <2>1 DEF Matches
  <2>3. QED BY <2>2 DEF There, OwnNames
<1>6. QED BY <1>4, <1>5

(* A legacy film that nobody asked to delete goes on playing.              *)
LEMMA LegacyGoesOn ==
  ASSUME NEW inp, inp.library = Library, inp.remote = Listing(disk),
         NEW n \in Playable(disk), disk.root[n].data = Foreign, n \notin inp.requests
  PROVE  GoesOn(inp)
<1> DEFINE root == inp.remote.root
<1>1. /\ n \in DOMAIN disk.root /\ ~ disk.root[n].isDir /\ disk.root[n].size # 0
      /\ n.slug \notin Unplayable
      /\ \A v \in Library : v.slug # n.slug \/ v.sha # n.sha
  BY DEF Playable
<1>2. DOMAIN root = DOMAIN disk.root /\ root[n].size = disk.root[n].size /\ root[n].isDir = disk.root[n].isDir
  BY <1>1 DEF Listing
<1> HIDE DEF root
<1>3. {v \in inp.library : v.slug = n.slug /\ v.sha = n.sha} = {}
  BY <1>1
<1>4. n \in Classify(inp.remote, inp.library).playable
  BY <1>1, <1>2, <1>3 DEF Classify, root
<1>5. QED BY <1>4 DEF GoesOn

LEMMA UpToDateOmits ==
  ASSUME NoTwins, Inv, UpToDate, StagedSizes, NothingLooksAlike
  PROVE  SyncedOmitsOnlyWhatDoesNotFit
<1> DEFINE ws      == cycle.seen.wants
           at      == cycle.at
           due     == Due(ws, at)
           showing == {w \in due : There(w.video) /\ w = FirstWant(due, w.video.sha)}
           legacy  == {n \in Playable(disk) : disk.root[n].data = Foreign}
           inp     == LastInput
           W       == {w \in ws : w.end = None \/ w.end > at}
           t       == DesiredWants(W, at)
           S       == Showing(inp)
<1> SUFFICES ASSUME Settled
             PROVE  /\ showing # {} => Shows(disk, showing)
                    /\ showing # {} \/ legacy \ cycle.seen.requests # {} => OmitsOnlyWhatDoesNotFit
  BY DEF SyncedOmitsOnlyWhatDoesNotFit, There
<1>1. /\ inp.library = Library /\ inp.remote = Listing(disk) /\ inp.now = at /\ inp.wants = W
      /\ at \in Nat /\ ws \subseteq WantPool
      /\ inp.maxBytes = MaxBytes /\ inp.requests = cycle.seen.requests
      /\ InputOK(inp) /\ Plain(inp) /\ Plan(inp) = <<>>
  BY LastInputIs
<1>2. Firsts(t, due) /\ due \subseteq WantsFor(Library)
  BY <1>1, DueInOrder
<1>3. S = {i \in 1 .. Len(t) : OnScreen(inp, t[i].video)}
  BY <1>1 DEF Showing
<1>4. \A w \in due : w.video \in Library
  BY <1>2 DEF WantsFor
<1>5. DiskOK
  BY DEF Inv
<1>6. SizesListed(inp)
  BY <1>1, <1>5, OnDisk DEF SizesListed
<1>7. legacy \ cycle.seen.requests # {} => GoesOn(inp)
  BY <1>1, LegacyGoesOn
<1>8. OmitsOnlyWhatDoesNotFit <=> \A v \in Omitted(due) : BytesOf(Listing(disk)) + v.size > MaxBytes
  BY DEF OmitsOnlyWhatDoesNotFit
<1>9. GoesOn(inp) =>
        /\ ShowsOf(inp, t, S)
        /\ \A i \in 1 .. Len(t) \ S :
             MaxBytes # None /\ ~ (BytesOf(Listing(disk)) + t[i].video.size <= MaxBytes)
  BY <1>1, <1>6, WhatFitsIsSent
<1>10. S # {} => GoesOn(inp)
  BY DEF GoesOn
<1> HIDE DEF inp, t, S, W, ws, at, due
<1>11. /\ \A w \in due : \E k \in 1 .. Len(t) : t[k].video.sha = w.video.sha
       /\ \A k \in 1 .. Len(t) : t[k] \in due /\ FirstWant(due, t[k].video.sha) = t[k]
       /\ \A k, l \in 1 .. Len(t) : t[k].video.sha = t[l].video.sha => k = l
  <2>1. \A w \in due : \E k \in 1 .. Len(t) : t[k].video.sha = w.video.sha
    BY <1>2 DEF Firsts
  <2>2. \A k \in 1 .. Len(t) : t[k] \in due /\ FirstWant(due, t[k].video.sha) = t[k]
    BY <1>2, FirstWantIs
  <2>3. \A k, l \in 1 .. Len(t) : t[k].video.sha = t[l].video.sha => k = l
    BY <1>2 DEF Firsts, Schedule
  <2>4. QED BY <2>1, <2>2, <2>3
<1>12. \A k \in 1 .. Len(t) : There(t[k].video) <=> k \in S
  BY <1>1, <1>3, <1>4, <1>5, <1>11, ThereIs
<1>13. showing = {t[k] : k \in S}
  <2>1. ASSUME NEW w \in showing PROVE \E k \in S : w = t[k]
    <3>1. w \in due /\ There(w.video) /\ w = FirstWant(due, w.video.sha)
      OBVIOUS
    <3>2. PICK k \in 1 .. Len(t) : t[k].video.sha = w.video.sha
      BY <1>11, <3>1
    <3>3. w = t[k]
      BY <1>11, <3>1, <3>2
    <3>4. QED BY <1>12, <3>1, <3>3
  <2>2. ASSUME NEW k \in S PROVE t[k] \in showing
    BY <1>3, <1>11, <1>12, <2>2
  <2>3. QED BY <2>1, <2>2
<1>14. ASSUME GoesOn(inp) PROVE Shows(disk, showing) /\ OmitsOnlyWhatDoesNotFit
  <2>1. StandFor(t, S, showing)
    <3>1. S \subseteq 1 .. Len(t)
      BY <1>3
    <3>2. Contents(showing) = {t[k].video.sha : k \in S}
      BY <1>13 DEF Contents
    <3>3. ASSUME NEW k \in S PROVE FirstWant(showing, t[k].video.sha) = t[k]
      <4>1. k \in 1 .. Len(t) /\ t[k] \in showing
        BY <1>13, <3>1, <3>3
      <4>2. \A w \in showing : w.video.sha = t[k].video.sha => w = t[k]
        BY <1>11, <1>13, <3>1, <4>1
      <4> HIDE DEF showing
      <4>3. QED BY <4>1, <4>2 DEF FirstWant
    <3>4. QED BY <3>2, <3>3 DEF StandFor
  <2>2. S \subseteq 1 .. Len(t) /\ ShowsOf(inp, t, S)
    BY <1>3, <1>9, <1>14
  <2>3. InputOK(inp)
    BY <1>1
  <2>4. Shows(disk, showing)
    BY <1>1, <1>2, <1>5, <2>1, <2>2, <2>3, ShownInOrder
  <2>5. ToSet(Shown(disk)) = {t[k].video.sha : k \in S}
    BY <2>1, <2>4 DEF Shows, StandFor
  <2>6. ASSUME NEW v \in Omitted(due) PROVE BytesOf(Listing(disk)) + v.size > MaxBytes
    <3>1. PICK w \in due : w.video = v /\ w.video.sha \notin ToSet(Shown(disk))
      BY DEF Omitted
    <3>2. PICK k \in 1 .. Len(t) : t[k].video.sha = v.sha
      BY <1>11, <3>1
    <3>3. k \notin S
      BY <2>5, <3>1, <3>2
    <3>4. t[k].video.size = v.size /\ v.size \in Nat
      BY <1>4, <1>11, <3>1, <3>2, LibraryAssumption
    <3>5. MaxBytes # None /\ ~ (BytesOf(Listing(disk)) + v.size <= MaxBytes)
      BY <1>9, <1>14, <3>3, <3>4
    <3>6. MaxBytes \in Nat /\ BytesOf(Listing(disk)) \in Nat
      BY <1>1, <1>6, <3>5, BytesKnown, ReconcileAssumption DEF SizesListed
    <3>7. QED BY <3>4, <3>5, <3>6
  <2>7. QED BY <1>8, <2>4, <2>6
<1>15. showing # {} => GoesOn(inp)
  BY <1>10, <1>13
<1>16. QED BY <1>7, <1>14, <1>15

(* A store reported as up to date, whose folder nobody touched since,      *)
(* leaves out of what is due only what does not fit beside all that is on  *)
(* the Pi - as long as a due video or a legacy film nobody asked to delete *)
(* goes on playing - and shows the rest in schedule order (README,         *)
(* "Espaco"; planner.py, plan: what is late is sent before or after the    *)
(* removals), with a limit or without.                                     *)
THEOREM SyncedStoresOmitOnlyWhatDoesNotFit ==
  ASSUME NoTwins
  PROVE  Spec => [](NothingLooksAlike => SyncedOmitsOnlyWhatDoesNotFit)
<1>1. Inv /\ UpToDate /\ WithRoom => (NothingLooksAlike => SyncedOmitsOnlyWhatDoesNotFit)
  BY UpToDateOmits DEF WithRoom
<1>2. Inv /\ WithRoom /\ Inv' /\ [Next]_vars => WithRoom'
  BY RoomSteps
<1>3. QED BY <1>1, <1>2, CycleInvariant, StoresUpToDate, RoomInit, PTL DEF Spec

-----------------------------------------------------------------------------
(* What is done and what is still to be done                               *)

(* What a listing shows of a file of somebody else's, of a half-sent copy, *)
(* and what the rows say of the listing.                                   *)
OthersAsListed(l, root) ==
  \A n \in DOMAIN root : root[n].data = Foreign =>
    /\ n \in DOMAIN l.root
    /\ l.root[n] = [size |-> root[n].size, mtime |-> root[n].mtime, isDir |-> root[n].isDir]

PartsAsListed(l, staging, A) ==
  \A p \in DOMAIN staging : p.part =>
    \/ p \in DOMAIN l.staging /\ l.staging[p].mtime = staging[p].mtime
    \/ p \in StagingTaken(A)

RowsAsListed(files, l) ==
  \A n \in DOMAIN files : /\ DOMAIN files[n] = {"seen", "asked"}
                          /\ n \in DOMAIN l.root /\ files[n].seen = l.root[n]

(* While a plan runs of which every action has succeeded, in a folder that *)
(* nobody touched, the folder as it is and the rest of the plan make what  *)
(* the listing and the whole plan make.                                    *)
OnItsWay ==
  /\ InputOK(LastInput) /\ Whole(LastInput)
  /\ Orderly(cycle.todo)
  /\ RootAfter(DOMAIN disk.root, Acts(cycle.todo))
       = RootAfter(DOMAIN cycle.listing.root, Acts(Plan(LastInput)))
  /\ StagingAfter(DOMAIN disk.staging, Acts(cycle.todo))
       = StagingAfter(DOMAIN cycle.listing.staging, Acts(Plan(LastInput)))
  /\ OthersAsListed(cycle.listing, disk.root)
  /\ PartsAsListed(cycle.listing, disk.staging, Acts(cycle.todo))
  /\ RowsAsListed(rows, cycle.listing)

Unfailed == cycle.step \in Busy \cup {"check"} /\ ~ cycle.touched /\ ~ cycle.failed

CarriedOut == Unfailed => OnItsWay

(* What one action takes and puts.                                         *)
LEMMA OneTakes ==
  ASSUME NEW a
  PROVE  /\ RootTaken({a}) = IF a.kind \in Takes THEN {a.src} ELSE {}
         /\ RootPut({a}) = IF a.kind \in Puts THEN {a.dst} ELSE {}
         /\ StagingPut({a}) = IF a.kind \in Staging THEN {a.dst} ELSE {}
         /\ a.kind \in FromStaging => StagingTaken({a}) = {a.src}
         /\ a.kind = "upload" => StagingTaken({a}) = {Part(a.video.sha)}
         /\ a.kind \notin FromStaging \cup {"upload"} => StagingTaken({a}) = {}
<1>1. "upload" \notin FromStaging
  BY DEF FromStaging, StagingDeletes
<1>2. RootTaken({a}) = IF a.kind \in Takes THEN {a.src} ELSE {}
  BY DEF RootTaken
<1>3. RootPut({a}) = IF a.kind \in Puts THEN {a.dst} ELSE {}
  BY DEF RootPut
<1>4. StagingPut({a}) = IF a.kind \in Staging THEN {a.dst} ELSE {}
  BY DEF StagingPut
<1>5. a.kind \in FromStaging => StagingTaken({a}) = {a.src}
  BY <1>1 DEF StagingTaken
<1>6. a.kind = "upload" => StagingTaken({a}) = {Part(a.video.sha)}
  BY <1>1 DEF StagingTaken
<1>7. a.kind \notin FromStaging \cup {"upload"} => StagingTaken({a}) = {}
  BY DEF StagingTaken
<1>8. QED BY <1>2, <1>3, <1>4, <1>5, <1>6, <1>7

(* One action, and then the rest.                                          *)
FirstThenRest(s, root, staging) ==
  /\ Orderly(Tail(s))
  /\ RootAfter(RootAfter(root, {Head(s)}), Acts(Tail(s))) = RootAfter(root, Acts(s))
  /\ StagingAfter(StagingAfter(staging, {Head(s)}), Acts(Tail(s))) = StagingAfter(staging, Acts(s))
  /\ StagingTaken(Acts(s)) = StagingTaken({Head(s)}) \cup StagingTaken(Acts(Tail(s)))

LEMMA FirstDone ==
  ASSUME NEW T, NEW s \in Seq(T), s # <<>>, Orderly(s),
         \A i \in 1 .. Len(s) : s[i].kind \in Staging => ~ s[i].dst.part,
         NEW root, NEW staging
  PROVE  FirstThenRest(s, root, staging)
<1> DEFINE h == Head(s)
           t == Tail(s)
           A == Acts(t)
<1>1. /\ Len(s) \in Nat /\ Len(s) >= 1 /\ h = s[1] /\ t \in Seq(T) /\ Len(t) = Len(s) - 1
      /\ \A i \in 1 .. Len(t) : i + 1 \in 1 .. Len(s) /\ t[i] = s[i + 1]
  BY FirstOf
<1> HIDE DEF h, t
<1>2. ASSUME NEW i \in 2 .. Len(s) PROVE i - 1 \in 1 .. Len(t) /\ (i - 1) + 1 = i
  BY <1>1
<1>3. Acts(s) = {h} \cup A
  <2>1. ASSUME NEW x \in Acts(s) PROVE x \in {h} \cup A
    <3>1. PICK i \in 1 .. Len(s) : x = s[i]
      BY <2>1 DEF Acts
    <3>2. CASE i = 1
      BY <1>1, <3>1, <3>2
    <3>3. CASE i # 1
      <4>1. i \in 2 .. Len(s)
        BY <1>1, <3>3
      <4>2. i - 1 \in 1 .. Len(t) /\ t[i - 1] = s[i]
        <5>1. i - 1 \in 1 .. Len(t) /\ (i - 1) + 1 = i
          BY <1>2, <4>1
        <5>2. t[i - 1] = s[(i - 1) + 1]
          BY <1>1, <5>1
        <5>3. QED BY <5>1, <5>2
      <4>3. QED BY <3>1, <4>2 DEF Acts
    <3>4. QED BY <3>2, <3>3
  <2>2. ASSUME NEW x \in A PROVE x \in Acts(s)
    <3>1. PICK i \in 1 .. Len(t) : x = t[i]
      BY <2>2 DEF Acts
    <3>2. i + 1 \in 1 .. Len(s) /\ x = s[i + 1]
      BY <1>1, <3>1
    <3>3. QED BY <3>2 DEF Acts
  <2>3. h \in Acts(s)
    <3>1. 1 \in 1 .. Len(s)
      BY <1>1
    <3>2. QED BY <1>1, <3>1 DEF Acts
  <2>4. QED BY <2>1, <2>2, <2>3
<1>4. ASSUME NEW b \in A PROVE ~ Undoes(b, h) /\ (b.kind \in Staging => ~ b.dst.part)
  <2>1. PICK i \in 1 .. Len(t) : b = t[i]
    BY <1>4 DEF Acts
  <2>2. i + 1 \in 1 .. Len(s) /\ b = s[i + 1] /\ 1 \in 1 .. Len(s) /\ 1 < i + 1
    BY <1>1, <2>1
  <2>3. ~ Undoes(s[i + 1], s[1])
    BY <2>2 DEF Orderly
  <2>4. QED BY <1>1, <2>2, <2>3
<1>5. Orderly(t)
  <2>1. ASSUME NEW i \in 1 .. Len(t), NEW j \in 1 .. Len(t), i < j PROVE ~ Undoes(t[j], t[i])
    <3>1. i + 1 \in 1 .. Len(s) /\ j + 1 \in 1 .. Len(s) /\ i + 1 < j + 1
      BY <1>1, <2>1
    <3>2. ~ Undoes(s[j + 1], s[i + 1])
      BY <3>1 DEF Orderly
    <3>3. QED BY <1>1, <3>2
  <2>2. QED BY <2>1 DEF Orderly
<1> HIDE DEF A
<1>6. RootTaken({h} \cup A) = RootTaken({h}) \cup RootTaken(A) /\ RootPut({h} \cup A) = RootPut({h}) \cup RootPut(A)
  BY DEF RootTaken, RootPut
<1>7. /\ StagingTaken({h} \cup A) = StagingTaken({h}) \cup StagingTaken(A)
      /\ StagingPut({h} \cup A) = StagingPut({h}) \cup StagingPut(A)
  BY DEF StagingTaken, StagingPut
<1>8. RootPut({h}) \cap RootTaken(A) = {}
  <2>1. ASSUME NEW x \in RootPut({h}), x \in RootTaken(A) PROVE FALSE
    <3>1. h.kind \in Puts /\ x = h.dst
      BY <2>1 DEF RootPut
    <3>2. PICK b \in A : b.kind \in Takes /\ x = b.src
      BY <2>1 DEF RootTaken
    <3>3. QED BY <1>4, <3>1, <3>2 DEF Undoes
  <2>2. QED BY <2>1
<1>9. StagingTaken({h}) \cap StagingPut(A) = {}
  <2>1. ASSUME NEW x \in StagingTaken({h}), x \in StagingPut(A) PROVE FALSE
    <3>1. PICK b \in A : b.kind \in Staging /\ x = b.dst
      BY <2>1 DEF StagingPut
    <3>2. ~ x.part
      BY <1>4, <3>1
    <3>3. CASE h.kind \in FromStaging /\ x = h.src
      BY <1>4, <3>1, <3>3 DEF Undoes
    <3>4. CASE x = Part(h.video.sha)
      BY <3>2, <3>4 DEF Part
    <3>5. QED BY <2>1, <3>3, <3>4 DEF StagingTaken
  <2>2. QED BY <2>1
<1>10. RootAfter(RootAfter(root, {h}), A) = RootAfter(root, {h} \cup A)
  BY <1>6, <1>8 DEF RootAfter
<1>11. StagingAfter(StagingAfter(staging, {h}), A) = StagingAfter(staging, {h} \cup A)
  BY <1>7, <1>9 DEF StagingAfter
<1>12. QED BY <1>3, <1>5, <1>7, <1>10, <1>11 DEF FirstThenRest, h, t, A

-----------------------------------------------------------------------------
(* An action that is done                                                  *)

(* What the plan was made from stays what it was.                          *)
LEMMA MadeFrom ==
  ASSUME DOMAIN cycle = CycleFields,
         \/ Done
         \/ \E step : cycle' = [cycle EXCEPT !.step = step]
  PROVE  /\ LastInput' = LastInput /\ cycle'.listing = cycle.listing
         /\ cycle'.failed = cycle.failed /\ cycle'.touched = cycle.touched
<1>1. /\ cycle'.listing = cycle.listing /\ cycle'.at = cycle.at /\ cycle'.seen = cycle.seen
      /\ cycle'.failed = cycle.failed /\ cycle'.touched = cycle.touched
  BY DEF Done, CycleFields
<1>2. QED BY <1>1 DEF LastInput

(* A plan that has failed, or is over, promises nothing.                   *)
LEMMA NoneCarried ==
  ASSUME CycleOK,
         \/ Stop
         \/ cycle' = [cycle EXCEPT !.touched = TRUE]
         \/ \E outcome : cycle' = Idle(outcome)
         \/ \E outcome, at, seen, listing :
              cycle' = [Idle(outcome) EXCEPT !.at = at, !.seen = seen, !.listing = listing]
         \/ \E at, listing :
              cycle' = [Idle("none") EXCEPT !.step = "listed", !.at = at, !.listing = listing]
  PROVE  CarriedOut'
<1>1. DOMAIN cycle = CycleFields
  BY DEF CycleOK
<1>2. CASE Stop \/ cycle' = [cycle EXCEPT !.touched = TRUE]
  <2>1. cycle'.failed = TRUE \/ cycle'.touched = TRUE
    BY <1>1, <1>2 DEF Stop, CycleFields
  <2>2. QED BY <2>1 DEF CarriedOut, Unfailed
<1>3. CASE \/ \E outcome : cycle' = Idle(outcome)
           \/ \E outcome, at, seen, listing :
                cycle' = [Idle(outcome) EXCEPT !.at = at, !.seen = seen, !.listing = listing]
           \/ \E at, listing :
                cycle' = [Idle("none") EXCEPT !.step = "listed", !.at = at, !.listing = listing]
  <2>1. ASSUME NEW outcome PROVE DOMAIN Idle(outcome) = CycleFields /\ Idle(outcome).step = "idle"
    BY DEF Idle, CycleFields
  <2>2. CASE \E outcome : cycle' = Idle(outcome)
    BY <2>1, <2>2 DEF CarriedOut, Unfailed, Busy
  <2>3. CASE \E outcome, at, seen, listing :
               cycle' = [Idle(outcome) EXCEPT !.at = at, !.seen = seen, !.listing = listing]
    <3>1. PICK outcome, at, seen, listing :
            cycle' = [Idle(outcome) EXCEPT !.at = at, !.seen = seen, !.listing = listing]
      BY <2>3
    <3>2. cycle'.step = "idle"
      BY <2>1, <3>1 DEF CycleFields
    <3>3. QED BY <3>2 DEF CarriedOut, Unfailed, Busy
  <2>4. CASE \E at, listing :
               cycle' = [Idle("none") EXCEPT !.step = "listed", !.at = at, !.listing = listing]
    <3>1. PICK at, listing :
            cycle' = [Idle("none") EXCEPT !.step = "listed", !.at = at, !.listing = listing]
      BY <2>4
    <3>2. cycle'.step = "listed"
      BY <2>1, <3>1 DEF CycleFields
    <3>3. QED BY <3>2 DEF CarriedOut, Unfailed, Busy
  <2>5. QED BY <1>3, <2>2, <2>3, <2>4
<1>4. QED BY <1>2, <1>3

(* The first action of a plan that is on its way.                          *)
LEMMA FirstCarried ==
  ASSUME Inv, CarriedOut, cycle.step \in Busy, Unfailed
  PROVE  /\ OnItsWay
         /\ FirstThenRest(cycle.todo, DOMAIN disk.root, DOMAIN disk.staging)
<1>1. OnItsWay
  BY DEF CarriedOut
<1>2. CycleOK /\ TodoOK(cycle.todo, disk.root, disk.stagingExists, cycle.touched)
  BY DEF Inv
<1>3. PICK T : cycle.todo \in Seq(T)
  BY <1>2, CycleSteps
<1>4. cycle.todo # <<>> /\ Orderly(cycle.todo)
  BY <1>1, <1>2, CycleSteps DEF OnItsWay
<1>5. ASSUME NEW i \in 1 .. Len(cycle.todo), cycle.todo[i].kind \in Staging
      PROVE  ~ cycle.todo[i].dst.part
  <2>1. ActionOK(cycle.todo[i])
    BY <1>2 DEF TodoOK
  <2>2. \E x : cycle.todo[i].dst = Staged(x)
    BY <1>5, <2>1 DEF ActionOK, Staging, StagingDeletes
  <2>3. QED BY <2>2 DEF Staged
<1>6. QED BY <1>1, <1>3, <1>4, <1>5, FirstDone

(* What the action takes is gone, what it puts is there, and the files of  *)
(* somebody else and the half-sent copies that are left are those there    *)
(* were.                                                                   *)
CarriesOut(a, root, staging, root2, staging2) ==
  /\ DOMAIN root2 = RootAfter(DOMAIN root, {a})
  /\ DOMAIN staging2 = StagingAfter(DOMAIN staging, {a})
  /\ \A n \in DOMAIN root2 : root2[n].data = Foreign => n \in DOMAIN root /\ root2[n] = root[n]
  /\ \A p \in DOMAIN staging2 : p.part => p \in DOMAIN staging /\ staging2[p] = staging[p]

LEMMA DoneCarried ==
  ASSUME Inv, CarriedOut, cycle.step \in Busy, Done, rows' = rows,
         CarriesOut(Action, disk.root, disk.staging, disk'.root, disk'.staging)
  PROVE  CarriedOut'
<1>1. CycleOK /\ DOMAIN cycle = CycleFields
  BY DEF Inv, CycleOK
<1>2. /\ LastInput' = LastInput /\ cycle'.listing = cycle.listing
      /\ cycle'.failed = cycle.failed /\ cycle'.touched = cycle.touched
  BY <1>1, MadeFrom
<1>3. cycle'.todo = Tail(cycle.todo)
  BY <1>1, CycleSteps
<1>4. ASSUME Unfailed' PROVE OnItsWay'
  <2>1. Unfailed
    BY <1>2, <1>4 DEF Unfailed
  <2>2. OnItsWay /\ FirstThenRest(cycle.todo, DOMAIN disk.root, DOMAIN disk.staging)
    BY <2>1, FirstCarried
  <2> DEFINE s == cycle.todo
             t == Tail(s)
             root == disk.root
             staging == disk.staging
             root2 == disk'.root
             staging2 == disk'.staging
             l == cycle.listing
             P == Acts(Plan(LastInput))
  <2>3. /\ DOMAIN root2 = RootAfter(DOMAIN root, {Head(s)})
        /\ DOMAIN staging2 = StagingAfter(DOMAIN staging, {Head(s)})
        /\ \A n \in DOMAIN root2 : root2[n].data = Foreign => n \in DOMAIN root /\ root2[n] = root[n]
        /\ \A p \in DOMAIN staging2 : p.part => p \in DOMAIN staging /\ staging2[p] = staging[p]
    BY DEF CarriesOut, Action
  <2>4. /\ RootAfter(DOMAIN root, Acts(s)) = RootAfter(DOMAIN l.root, P)
        /\ StagingAfter(DOMAIN staging, Acts(s)) = StagingAfter(DOMAIN l.staging, P)
        /\ OthersAsListed(l, root) /\ PartsAsListed(l, staging, Acts(s)) /\ RowsAsListed(rows, l)
        /\ InputOK(LastInput) /\ Whole(LastInput)
    BY <2>2 DEF OnItsWay
  <2>5. /\ Orderly(t)
        /\ RootAfter(RootAfter(DOMAIN root, {Head(s)}), Acts(t)) = RootAfter(DOMAIN root, Acts(s))
        /\ StagingAfter(StagingAfter(DOMAIN staging, {Head(s)}), Acts(t)) = StagingAfter(DOMAIN staging, Acts(s))
        /\ StagingTaken(Acts(s)) = StagingTaken({Head(s)}) \cup StagingTaken(Acts(t))
    BY <2>2 DEF FirstThenRest
  <2>6. (InputOK(LastInput) /\ Whole(LastInput))'
    BY <1>2, <2>4
  <2>7. P' = P /\ l' = l /\ rows' = rows /\ cycle'.todo = t
    BY <1>2, <1>3
  <2> HIDE DEF s, t, root, staging, root2, staging2, l, P
  <2>8. RootAfter(DOMAIN root2, Acts(t)) = RootAfter(DOMAIN l.root, P)
    BY <2>3, <2>4, <2>5
  <2>9. StagingAfter(DOMAIN staging2, Acts(t)) = StagingAfter(DOMAIN l.staging, P)
    BY <2>3, <2>4, <2>5
  <2>10. OthersAsListed(l, root2)
    <3>1. ASSUME NEW n \in DOMAIN root2, root2[n].data = Foreign
          PROVE  /\ n \in DOMAIN l.root
                 /\ l.root[n] = [size |-> root2[n].size, mtime |-> root2[n].mtime, isDir |-> root2[n].isDir]
      <4>1. n \in DOMAIN root /\ root2[n] = root[n]
        BY <2>3, <3>1
      <4>2. QED BY <2>4, <3>1, <4>1 DEF OthersAsListed
    <3>2. QED BY <3>1 DEF OthersAsListed
  <2>11. PartsAsListed(l, staging2, Acts(t))
    <3>1. ASSUME NEW p \in DOMAIN staging2, p.part
          PROVE  \/ p \in DOMAIN l.staging /\ l.staging[p].mtime = staging2[p].mtime
                 \/ p \in StagingTaken(Acts(t))
      <4>1. p \in DOMAIN staging /\ staging2[p] = staging[p]
        BY <2>3, <3>1
      <4>2. p \notin StagingTaken({Head(s)})
        BY <2>3 DEF StagingAfter
      <4>3. \/ p \in DOMAIN l.staging /\ l.staging[p].mtime = staging[p].mtime
            \/ p \in StagingTaken(Acts(s))
        BY <2>4, <3>1, <4>1 DEF PartsAsListed
      <4>4. QED BY <2>5, <4>1, <4>2, <4>3
    <3>2. QED BY <3>1 DEF PartsAsListed
  <2>12. QED
    BY <2>4, <2>5, <2>6, <2>7, <2>8, <2>9, <2>10, <2>11
    DEF OnItsWay, s, t, root, staging, root2, staging2, l, P
<1>5. QED BY <1>4 DEF CarriedOut

-----------------------------------------------------------------------------
(* The actions, carried out                                                *)

LEMMA MkdirCarries ==
  ASSUME Inv, CarriedOut, MakeStagingDir
  PROVE  CarriedOut'
<1>1. /\ cycle.step \in Busy /\ Action.kind = "mkdir_staging" /\ Done /\ rows' = rows
      /\ disk' = [disk EXCEPT !.stagingExists = TRUE]
  BY DEF MakeStagingDir, Running, Busy
<1>2. disk'.root = disk.root /\ disk'.staging = disk.staging
  BY <1>1, DiskChanged DEF Inv, DiskOK
<1>3. Action.kind \notin Takes \cup Puts \cup Staging \cup FromStaging \cup {"upload"}
  BY <1>1 DEF Takes, Puts, Staging, FromStaging, StagingDeletes
<1>4. /\ RootAfter(DOMAIN disk.root, {Action}) = DOMAIN disk.root
      /\ StagingAfter(DOMAIN disk.staging, {Action}) = DOMAIN disk.staging
  BY <1>3, OneTakes DEF RootAfter, StagingAfter
<1>5. CarriesOut(Action, disk.root, disk.staging, disk'.root, disk'.staging)
  BY <1>2, <1>4 DEF CarriesOut
<1>6. QED BY <1>1, <1>5, DoneCarried

(* The .part that an upload begins goes when it is done.                   *)
LEMMA StartCarries ==
  ASSUME Inv, CarriedOut, StartUpload
  PROVE  CarriedOut'
<1> DEFINE part == Part(Action.video.sha)
           sent == [size |-> PartialBytes, mtime |-> now, data |-> Broken]
           root == disk.root
           staging == disk.staging
           A == Acts(cycle.todo)
<1>1. /\ cycle.step \in Busy /\ Action.kind = "upload" /\ rows' = rows
      /\ cycle' = [cycle EXCEPT !.step = "sending"]
      /\ disk' = [disk EXCEPT !.staging = With(staging, part, sent)]
  BY DEF StartUpload, Running, Busy
<1>2. disk'.root = root /\ disk'.staging = With(staging, part, sent)
  BY <1>1, DiskChanged DEF Inv, DiskOK
<1>3. CycleOK /\ DOMAIN cycle = CycleFields
  BY DEF Inv, CycleOK
<1>4. /\ LastInput' = LastInput /\ cycle'.listing = cycle.listing
      /\ cycle'.failed = cycle.failed /\ cycle'.touched = cycle.touched
  BY <1>1, <1>3, MadeFrom
<1>5. cycle'.todo = cycle.todo
  BY <1>1, <1>3 DEF CycleFields
<1>6. ASSUME Unfailed' PROVE OnItsWay'
  <2>1. Unfailed
    BY <1>1, <1>4, <1>6 DEF Unfailed
  <2>2. OnItsWay /\ FirstThenRest(cycle.todo, DOMAIN root, DOMAIN staging)
    BY <1>1, <2>1, FirstCarried
  <2>3. part \in StagingTaken(A)
    <3>1. StagingTaken(A) = StagingTaken({Action}) \cup StagingTaken(Acts(Tail(cycle.todo)))
      BY <2>2 DEF FirstThenRest, Action
    <3>2. StagingTaken({Action}) = {part}
      BY <1>1, OneTakes
    <3>3. QED BY <3>1, <3>2
  <2> HIDE DEF part, sent, root, A
  <2>4. /\ DOMAIN With(staging, part, sent) = DOMAIN staging \cup {part}
        /\ \A z \in DOMAIN staging : z # part => With(staging, part, sent)[z] = staging[z]
    BY DEF With
  <2>5. StagingAfter(DOMAIN With(staging, part, sent), A) = StagingAfter(DOMAIN staging, A)
    BY <2>3, <2>4 DEF StagingAfter
  <2>6. PartsAsListed(cycle.listing, With(staging, part, sent), A)
    BY <2>2, <2>3, <2>4 DEF OnItsWay, PartsAsListed, A
  <2>7. QED BY <1>1, <1>2, <1>4, <1>5, <2>2, <2>5, <2>6 DEF OnItsWay, A, root
<1>7. QED BY <1>6 DEF CarriedOut

LEMMA FinishCarries ==
  ASSUME Inv, CarriedOut, FinishUpload
  PROVE  CarriedOut'
<1> DEFINE part == Part(Action.video.sha)
           sent == [size |-> Action.video.size, mtime |-> now, data |-> Action.video.sha]
           staging == disk.staging
           rest == Without(staging, part)
           dst == Action.dst
<1>1. /\ cycle.step \in Busy /\ Action.kind = "upload" /\ rows' = rows
      /\ \/ Stop
         \/ Done /\ disk' = [disk EXCEPT !.staging = With(rest, dst, sent)]
  BY DEF FinishUpload, Busy, Inv, CycleOK
<1>2. CASE Stop
  BY <1>2, NoneCarried DEF Inv
<1>3. CASE Done /\ disk' = [disk EXCEPT !.staging = With(rest, dst, sent)]
  <2>1. disk'.root = disk.root /\ disk'.staging = With(rest, dst, sent)
    BY <1>3, DiskChanged DEF Inv, DiskOK
  <2>2. dst = Staged(Action.video.sha)
    BY <1>1, Uploading
  <2>3. dst # part /\ ~ dst.part
    BY <2>2 DEF Staged, Part
  <2>4. Action.kind \notin Takes \cup Puts /\ Action.kind \in Staging
    BY <1>1 DEF Takes, Puts, Staging
  <2>5. StagingTaken({Action}) = {part} /\ StagingPut({Action}) = {dst}
        /\ RootTaken({Action}) = {} /\ RootPut({Action}) = {}
    BY <1>1, <2>4, OneTakes
  <2> HIDE DEF part, sent, staging, rest, dst
  <2>6. DOMAIN rest = DOMAIN staging \ {part} /\ \A z \in DOMAIN staging : z # part => rest[z] = staging[z]
    BY WithoutIs DEF rest
  <2>7. /\ DOMAIN With(rest, dst, sent) = DOMAIN rest \cup {dst}
        /\ \A z \in DOMAIN rest : z # dst => With(rest, dst, sent)[z] = rest[z]
    BY DEF With
  <2>8. /\ RootAfter(DOMAIN disk.root, {Action}) = DOMAIN disk.root
        /\ StagingAfter(DOMAIN staging, {Action}) = DOMAIN With(rest, dst, sent)
    BY <2>3, <2>5, <2>6, <2>7 DEF RootAfter, StagingAfter
  <2>9. CarriesOut(Action, disk.root, staging, disk'.root, disk'.staging)
    BY <2>1, <2>3, <2>6, <2>7, <2>8 DEF CarriesOut
  <2>10. QED BY <1>1, <1>3, <2>9, DoneCarried DEF staging
<1>4. QED BY <1>1, <1>2, <1>3

LEMMA DeleteHiddenCarries ==
  ASSUME Inv, CarriedOut, DeleteHidden
  PROVE  CarriedOut'
<1> DEFINE staging == disk.staging
           src == Action.src
<1>1. /\ cycle.step \in Busy /\ Action.kind \in StagingDeletes /\ Done /\ rows' = rows
      /\ disk' = [disk EXCEPT !.staging = Without(staging, src)]
  BY DEF DeleteHidden, Running, Busy
<1>2. disk'.root = disk.root /\ disk'.staging = Without(staging, src)
  BY <1>1, DiskChanged DEF Inv, DiskOK
<1>3. Action.kind \notin Takes \cup Puts \cup Staging /\ Action.kind \in FromStaging
  BY <1>1 DEF Takes, Puts, Staging, FromStaging, StagingDeletes
<1>4. StagingTaken({Action}) = {src} /\ StagingPut({Action}) = {}
      /\ RootTaken({Action}) = {} /\ RootPut({Action}) = {}
  BY <1>3, OneTakes
<1> HIDE DEF staging, src
<1>5. /\ DOMAIN Without(staging, src) = DOMAIN staging \ {src}
      /\ \A z \in DOMAIN staging : z # src => Without(staging, src)[z] = staging[z]
  BY WithoutIs
<1>6. /\ RootAfter(DOMAIN disk.root, {Action}) = DOMAIN disk.root
      /\ StagingAfter(DOMAIN staging, {Action}) = DOMAIN Without(staging, src)
  BY <1>4, <1>5 DEF RootAfter, StagingAfter
<1>7. CarriesOut(Action, disk.root, staging, disk'.root, disk'.staging)
  BY <1>2, <1>5, <1>6 DEF CarriesOut
<1>8. QED BY <1>1, <1>7, DoneCarried DEF staging

(* The renames: nothing of somebody else's moves.                          *)
LEMMA MoveInCarries ==
  ASSUME Inv, CarriedOut, MoveIn
  PROVE  CarriedOut'
<1> DEFINE root == disk.root
           staging == disk.staging
           src == Action.src
           dst == Action.dst
           file == [size |-> staging[src].size, mtime |-> staging[src].mtime,
                    isDir |-> FALSE, data |-> staging[src].data]
           root2 == With(root, dst, file)
           staging2 == Without(staging, src)
<1>1. cycle.step \in Busy /\ Action.kind = "activate" /\ rows' = rows
  BY DEF MoveIn, Running, Busy
<1>2. CASE Stop
  BY <1>2, NoneCarried DEF Inv
<1>3. CASE /\ dst \notin DOMAIN root /\ src \in DOMAIN staging /\ Done
           /\ disk' = [disk EXCEPT !.staging = staging2, !.root = root2]
  <2>1. /\ Action.video \in Library /\ src = Staged(Action.video.sha)
    BY <1>1, Underway DEF ActionOK, StagingDeletes
  <2>2. ~ src.part /\ src.sha \in Shas
    BY <2>1 DEF Staged, Shas
  <2>3. file.data = src.sha /\ file.data # Foreign
    BY <1>3, <2>2, LibraryAssumption DEF Inv, DiskOK, StagedOK, StagedFileOK
  <2>4. disk'.root = root2 /\ disk'.staging = staging2
    BY <1>3, DiskChanged DEF Inv, DiskOK
  <2>5. /\ Action.kind \in Puts /\ Action.kind \notin Takes /\ Action.kind \notin Staging
        /\ Action.kind \in FromStaging
    BY <1>1 DEF Takes, Puts, Staging, FromStaging
  <2>6. /\ RootTaken({Action}) = {} /\ RootPut({Action}) = {dst}
        /\ StagingTaken({Action}) = {src} /\ StagingPut({Action}) = {}
    BY <2>5, OneTakes
  <2> HIDE DEF root, staging, src, dst, file
  <2>7. /\ DOMAIN staging2 = DOMAIN staging \ {src}
        /\ \A z \in DOMAIN staging : z # src => staging2[z] = staging[z]
    BY WithoutIs
  <2>8. /\ DOMAIN root2 = DOMAIN root \cup {dst}
        /\ \A z \in DOMAIN root : z # dst => root2[z] = root[z]
        /\ root2[dst] = file
    BY DEF With
  <2> HIDE DEF root2, staging2
  <2>9. /\ DOMAIN root2 = RootAfter(DOMAIN root, {Action})
        /\ DOMAIN staging2 = StagingAfter(DOMAIN staging, {Action})
    BY <2>6, <2>7, <2>8 DEF RootAfter, StagingAfter
  <2>10. \A n \in DOMAIN root2 : root2[n].data = Foreign => n \in DOMAIN root /\ root2[n] = root[n]
    BY <2>3, <2>8
  <2>11. \A p \in DOMAIN staging2 : p.part => p \in DOMAIN staging /\ staging2[p] = staging[p]
    BY <2>7
  <2>12. CarriesOut(Action, root, staging, disk'.root, disk'.staging)
    BY <2>4, <2>9, <2>10, <2>11 DEF CarriesOut
  <2>13. QED BY <1>1, <1>3, <2>12, DoneCarried DEF root, staging
<1>4. QED BY <1>2, <1>3 DEF MoveIn

LEMMA MoveWithinCarries ==
  ASSUME Inv, CarriedOut, MoveWithin
  PROVE  CarriedOut'
<1> DEFINE root == disk.root
           staging == disk.staging
           src == Action.src
           dst == Action.dst
           rest == Without(root, src)
           root2 == With(rest, dst, root[src])
<1>1. cycle.step \in Busy /\ Action.kind = "reorder" /\ rows' = rows
  BY DEF MoveWithin, Running, Busy
<1>2. CASE Stop
  BY <1>2, NoneCarried DEF Inv
<1>3. CASE /\ dst \notin DOMAIN root /\ src \in DOMAIN root /\ Done
           /\ disk' = [disk EXCEPT !.root = root2]
  <2>1. /\ Action.kind \in Puts /\ Action.kind \in Takes \ {"delete_legacy"} /\ Action.kind \notin Staging
        /\ Action.kind \notin FromStaging \cup {"upload"}
    BY <1>1 DEF Takes, Puts, Staging, FromStaging, StagingDeletes
  <2>2. root[src].data # Foreign
    BY <1>1, <2>1, Underway DEF OwnNames
  <2>3. disk'.root = root2 /\ disk'.staging = staging
    BY <1>3, DiskChanged DEF Inv, DiskOK
  <2>4. /\ RootTaken({Action}) = {src} /\ RootPut({Action}) = {dst}
        /\ StagingTaken({Action}) = {} /\ StagingPut({Action}) = {}
    BY <2>1, OneTakes
  <2> HIDE DEF root, staging, src, dst
  <2>5. /\ DOMAIN rest = DOMAIN root \ {src}
        /\ \A z \in DOMAIN root : z # src => rest[z] = root[z]
    BY WithoutIs
  <2> HIDE DEF rest
  <2>6. /\ DOMAIN root2 = DOMAIN rest \cup {dst}
        /\ \A z \in DOMAIN rest : z # dst => root2[z] = rest[z]
        /\ root2[dst] = root[src]
    BY DEF With
  <2> HIDE DEF root2
  <2>7. /\ DOMAIN root2 = RootAfter(DOMAIN root, {Action})
        /\ DOMAIN staging = StagingAfter(DOMAIN staging, {Action})
    BY <2>4, <2>5, <2>6 DEF RootAfter, StagingAfter
  <2>8. \A n \in DOMAIN root2 : root2[n].data = Foreign => n \in DOMAIN root /\ root2[n] = root[n]
    BY <2>2, <2>5, <2>6
  <2>9. CarriesOut(Action, root, staging, disk'.root, disk'.staging)
    BY <2>3, <2>7, <2>8 DEF CarriesOut
  <2>10. QED BY <1>1, <1>3, <2>9, DoneCarried DEF root, staging
<1>4. QED BY <1>2, <1>3 DEF MoveWithin

LEMMA MoveOutCarries ==
  ASSUME Inv, CarriedOut, MoveOut
  PROVE  CarriedOut'
<1> DEFINE root == disk.root
           staging == disk.staging
           src == Action.src
           dst == Action.dst
           file == [size |-> root[src].size, mtime |-> root[src].mtime, data |-> root[src].data]
           root2 == Without(root, src)
           staging2 == With(staging, dst, file)
<1>1. cycle.step \in Busy /\ Action.kind = "deactivate" /\ rows' = rows
  BY DEF MoveOut, Running, Busy
<1>2. CASE Stop
  BY <1>2, NoneCarried DEF Inv
<1>3. CASE Done /\ disk' = [disk EXCEPT !.root = root2, !.staging = staging2]
  <2>1. ~ dst.part
    BY <1>1, Underway DEF ActionOK, StagingDeletes, Staged
  <2>2. disk'.root = root2 /\ disk'.staging = staging2
    BY <1>3, DiskChanged DEF Inv, DiskOK
  <2>3. /\ Action.kind \in Takes /\ Action.kind \notin Puts /\ Action.kind \in Staging
        /\ Action.kind \notin FromStaging \cup {"upload"}
    BY <1>1 DEF Takes, Puts, Staging, FromStaging, StagingDeletes
  <2>4. /\ RootTaken({Action}) = {src} /\ RootPut({Action}) = {}
        /\ StagingTaken({Action}) = {} /\ StagingPut({Action}) = {dst}
    BY <2>3, OneTakes
  <2> HIDE DEF root, staging, src, dst, file
  <2>5. /\ DOMAIN root2 = DOMAIN root \ {src}
        /\ \A z \in DOMAIN root : z # src => root2[z] = root[z]
    BY WithoutIs
  <2>6. /\ DOMAIN staging2 = DOMAIN staging \cup {dst}
        /\ \A z \in DOMAIN staging : z # dst => staging2[z] = staging[z]
    BY DEF With
  <2> HIDE DEF root2, staging2
  <2>7. /\ DOMAIN root2 = RootAfter(DOMAIN root, {Action})
        /\ DOMAIN staging2 = StagingAfter(DOMAIN staging, {Action})
    BY <2>4, <2>5, <2>6 DEF RootAfter, StagingAfter
  <2>8. \A n \in DOMAIN root2 : n \in DOMAIN root /\ root2[n] = root[n]
    BY <2>5
  <2>9. \A p \in DOMAIN staging2 : p.part => p \in DOMAIN staging /\ staging2[p] = staging[p]
    BY <2>1, <2>6
  <2>10. CarriesOut(Action, root, staging, disk'.root, disk'.staging)
    BY <2>2, <2>7, <2>8, <2>9 DEF CarriesOut
  <2>11. QED BY <1>1, <1>3, <2>10, DoneCarried DEF root, staging
<1>4. QED BY <1>2, <1>3 DEF MoveOut

LEMMA DeleteVisibleCarries ==
  ASSUME Inv, CarriedOut, DeleteVisible
  PROVE  CarriedOut'
<1> DEFINE root == disk.root
           staging == disk.staging
           src == Action.src
           root2 == Without(root, src)
<1>1. cycle.step \in Busy /\ Action.kind \in {"delete_active", "delete_legacy"} /\ rows' = rows
  BY DEF DeleteVisible, Running, Busy, Inv, CycleOK
<1>2. CASE Stop
  BY <1>2, NoneCarried DEF Inv
<1>3. CASE Done /\ disk' = [disk EXCEPT !.root = root2]
  <2>1. disk'.root = root2 /\ disk'.staging = staging
    BY <1>3, DiskChanged DEF Inv, DiskOK
  <2>2. /\ Action.kind \in Takes /\ Action.kind \notin Puts /\ Action.kind \notin Staging
        /\ Action.kind \notin FromStaging \cup {"upload"}
    BY <1>1 DEF Takes, Puts, Staging, FromStaging, StagingDeletes
  <2>3. /\ RootTaken({Action}) = {src} /\ RootPut({Action}) = {}
        /\ StagingTaken({Action}) = {} /\ StagingPut({Action}) = {}
    BY <2>2, OneTakes
  <2> HIDE DEF root, staging, src
  <2>4. /\ DOMAIN root2 = DOMAIN root \ {src}
        /\ \A z \in DOMAIN root : z # src => root2[z] = root[z]
    BY WithoutIs
  <2> HIDE DEF root2
  <2>5. /\ DOMAIN root2 = RootAfter(DOMAIN root, {Action})
        /\ DOMAIN staging = StagingAfter(DOMAIN staging, {Action})
    BY <2>3, <2>4 DEF RootAfter, StagingAfter
  <2>6. \A n \in DOMAIN root2 : n \in DOMAIN root /\ root2[n] = root[n]
    BY <2>4
  <2>7. CarriesOut(Action, root, staging, disk'.root, disk'.staging)
    BY <2>1, <2>5, <2>6 DEF CarriesOut
  <2>8. QED BY <1>1, <1>3, <2>7, DoneCarried DEF root, staging
<1>4. QED BY <1>2, <1>3 DEF DeleteVisible

(* The last look before a legacy deletion changes nothing yet.             *)
LEMMA ConfirmCarries ==
  ASSUME Inv, CarriedOut, ConfirmLegacyDelete
  PROVE  CarriedOut'
<1>1. cycle.step \in Busy /\ disk' = disk /\ rows' = rows /\ DOMAIN cycle = CycleFields
  BY DEF ConfirmLegacyDelete, Running, Busy, Inv, CycleOK
<1>2. CASE Stop
  BY <1>2, NoneCarried DEF Inv
<1>3. CASE cycle' = [cycle EXCEPT !.step = "confirmed"]
  <2>1. /\ LastInput' = LastInput /\ cycle'.listing = cycle.listing
        /\ cycle'.failed = cycle.failed /\ cycle'.touched = cycle.touched
    BY <1>1, <1>3, MadeFrom
  <2>2. cycle'.todo = cycle.todo
    BY <1>1, <1>3 DEF CycleFields
  <2>3. Unfailed' => OnItsWay
    BY <1>1, <2>1 DEF Unfailed, CarriedOut
  <2>4. OnItsWay => OnItsWay'
    BY <1>1, <2>1, <2>2 DEF OnItsWay
  <2>5. QED BY <2>3, <2>4 DEF CarriedOut
<1>4. QED BY <1>2, <1>3 DEF ConfirmLegacyDelete

(* An action that is refused, or cut short, ends the plan; so does losing  *)
(* the cycle, and a hand at the folder takes the promise away.             *)
LEMMA OthersCarry ==
  ASSUME Inv,
         \/ UploadShort \/ ActionRefused \/ CycleLost \/ CheckAfter \/ ReadRemoteState
         \/ \E h \in HandFiles : CopyByHand(h)
         \/ \E n \in DOMAIN disk.root : DeleteByHand(n)
  PROVE  CarriedOut'
<1>1. CycleOK
  BY DEF Inv
<1>2. CASE UploadShort \/ ActionRefused
  BY <1>1, <1>2, NoneCarried DEF UploadShort, ActionRefused
<1>3. CASE CycleLost
  BY <1>1, <1>3, NoneCarried DEF CycleLost
<1>4. CASE CheckAfter
  BY <1>1, <1>4, NoneCarried DEF CheckAfter
<1>5. CASE ReadRemoteState
  BY <1>1, <1>5, NoneCarried DEF ReadRemoteState
<1>6. CASE \/ \E h \in HandFiles : CopyByHand(h)
           \/ \E n \in DOMAIN disk.root : DeleteByHand(n)
  BY <1>1, <1>6, NoneCarried DEF CopyByHand, DeleteByHand
<1>7. QED BY <1>2, <1>3, <1>4, <1>5, <1>6

(* An administrator may change his mind; what was seen stays.              *)
LEMMA RequestCarries ==
  ASSUME CarriedOut, cycle' = cycle, disk' = disk,
         \/ rows' = rows
         \/ \E n \in DOMAIN rows : RequestDelete(n)
  PROVE  CarriedOut'
<1>1. LastInput' = LastInput /\ (Unfailed' => Unfailed)
  BY DEF LastInput, Unfailed
<1>2. ASSUME RowsAsListed(rows, cycle.listing) PROVE RowsAsListed(rows', cycle.listing)
  <2>1. CASE rows' = rows
    BY <1>2, <2>1
  <2>2. CASE \E n \in DOMAIN rows : RequestDelete(n)
    <3>1. PICK n \in DOMAIN rows : rows' = [rows EXCEPT ![n].asked = ~ rows[n].asked]
      BY <2>2 DEF RequestDelete
    <3>2. DOMAIN rows' = DOMAIN rows
      BY <3>1
    <3>3. ASSUME NEW m \in DOMAIN rows
          PROVE  DOMAIN rows'[m] = DOMAIN rows[m] /\ (DOMAIN rows[m] = {"seen", "asked"} => rows'[m].seen = rows[m].seen)
      BY <3>1
    <3>4. QED BY <1>2, <3>2, <3>3 DEF RowsAsListed
  <2>3. QED BY <2>1, <2>2
<1>3. ASSUME OnItsWay PROVE OnItsWay'
  BY <1>1, <1>2, <1>3 DEF OnItsWay
<1>4. QED BY <1>1, <1>3 DEF CarriedOut

-----------------------------------------------------------------------------
(* A plan that begins                                                      *)

(* What is recorded of a listing: what it shows of each legacy file, and   *)
(* the requests that were made of what it shows.                           *)
AskedIn(files)       == {n \in DOMAIN files : files[n].asked}
StillAsked(files, l) == {n \in DOMAIN files : files[n].asked /\ files[n].seen = l.root[n]}

LEMMA SnapshotIs ==
  ASSUME NEW inp, InputOK(inp), inp.library = Library, NEW l, l = inp.remote, NEW old,
         NEW files, files = StoreSnapshot(old, l)
  PROVE  /\ RowsAsListed(files, l)
         /\ DOMAIN files = DOMAIN l.root \ AppNames(inp)
         /\ AskedIn(files) = DOMAIN files \cap StillAsked(old, l)
<1> DEFINE c == Classify(inp.remote, inp.library)
<1>1. ClassOK(inp, c)
  BY ClassifyIsOK
<1>2. files = [n \in c.legacy |-> [seen  |-> l.root[n],
                                   asked |-> n \in DOMAIN old /\ old[n].asked /\ old[n].seen = l.root[n]]]
  BY DEF StoreSnapshot
<1> HIDE DEF c
<1>3. c.legacy = DOMAIN l.root \ AppNames(inp)
  BY <1>1 DEF ClassOK
<1>4. DOMAIN files = c.legacy
  BY <1>2
<1>5. ASSUME NEW n \in c.legacy
      PROVE  /\ DOMAIN files[n] = {"seen", "asked"} /\ files[n].seen = l.root[n]
             /\ files[n].asked = (n \in DOMAIN old /\ old[n].asked /\ old[n].seen = l.root[n])
  BY <1>2
<1>6. RowsAsListed(files, l)
  BY <1>3, <1>4, <1>5 DEF RowsAsListed
<1>7. AskedIn(files) = DOMAIN files \cap StillAsked(old, l)
  BY <1>4, <1>5 DEF AskedIn, StillAsked
<1>8. QED BY <1>3, <1>4, <1>6, <1>7

(* Every file with a whole name that the app finds staged is a whole one.  *)
LEMMA StagedIsWhole ==
  ASSUME DiskOK, NEW inp, inp.library = Library, inp.remote = Listing(disk)
  PROVE  Whole(inp)
<1>1. ASSUME NEW s \in DOMAIN disk.staging, ~ s.part
      PROVE  \E v \in Library : v.sha = s.sha /\ v.size = disk.staging[s].size
  BY <1>1 DEF DiskOK, StagedOK, StagedFileOK
<1>2. /\ DOMAIN inp.remote.staging = DOMAIN disk.staging
      /\ \A s \in DOMAIN disk.staging : inp.remote.staging[s].size = disk.staging[s].size
  BY DEF Listing
<1>3. QED BY <1>1, <1>2 DEF Whole

(* The whole plan, of a listing that shows the folder as it is.            *)
LEMMA ListedCarries ==
  ASSUME DiskOK, NEW inp, InputOK(inp), inp.maxBytes = None, inp.library = Library,
         inp.remote = Listing(disk)
  PROVE  /\ Whole(inp) /\ Orderly(Plan(inp))
         /\ DOMAIN disk.root = DOMAIN inp.remote.root
         /\ DOMAIN disk.staging = DOMAIN inp.remote.staging
         /\ OthersAsListed(inp.remote, disk.root)
         /\ PartsAsListed(inp.remote, disk.staging, Acts(Plan(inp)))
<1>1. Whole(inp)
  BY StagedIsWhole
<1> DEFINE d == DraftIn(inp)
<1>2. d = DraftIn(inp) /\ d.c = Classify(inp.remote, inp.library)
  BY DEF DraftIn, DraftOf
<1> HIDE DEF d
<1>3. d.c.corrupt = {} /\ d.c.orphan = {}
  BY <1>1, <1>2, WholeIsStaged
<1>4. Orderly(Plan(inp))
  BY <1>2, <1>3, PlanInOrder
<1>5. /\ DOMAIN disk.root = DOMAIN inp.remote.root
      /\ DOMAIN disk.staging = DOMAIN inp.remote.staging
      /\ \A n \in DOMAIN disk.root :
           inp.remote.root[n] = [size |-> disk.root[n].size, mtime |-> disk.root[n].mtime,
                                 isDir |-> disk.root[n].isDir]
      /\ \A p \in DOMAIN disk.staging : inp.remote.staging[p].mtime = disk.staging[p].mtime
  BY DEF Listing
<1>6. OthersAsListed(inp.remote, disk.root)
  BY <1>5 DEF OthersAsListed
<1>7. PartsAsListed(inp.remote, disk.staging, Acts(Plan(inp)))
  BY <1>5 DEF PartsAsListed
<1>8. QED BY <1>1, <1>4, <1>5, <1>6, <1>7

LEMMA PlanCarries ==
  ASSUME MaxBytes = None, Inv, SnapshotAndPlan
  PROVE  CarriedOut'
<1> DEFINE l     == cycle.listing
           files == StoreSnapshot(rows, l)
           inp   == PlannerInput(l, files, cycle.at)
           s     == Plan(inp)
           seen  == Seen(files)
<1>1. /\ cycle.step = "listed" /\ disk' = disk /\ wants' = wants /\ rows' = files
      /\ cycle' = IF s = <<>>
                    THEN [cycle EXCEPT !.step = "idle", !.outcome = "synced", !.seen = seen]
                    ELSE [cycle EXCEPT !.step = "run", !.todo = s, !.seen = seen]
  BY DEF SnapshotAndPlan
<1>2. /\ ListedOK(l, cycle.touched) /\ wants \subseteq WantPool /\ DiskOK
      /\ DOMAIN cycle = CycleFields
  BY <1>1 DEF Inv, CycleOK
<1>3. /\ InputOK(inp) /\ inp.remote = l /\ inp.library = Library /\ inp.maxBytes = MaxBytes
  BY <1>2, InputIsOK DEF PlannerInput
<1>4. inp = [now |-> cycle.at, remote |-> l,
             wants |-> {w \in seen.wants : w.end = None \/ w.end > cycle.at},
             library |-> Library, requests |-> seen.requests, maxBytes |-> MaxBytes]
  BY DEF PlannerInput, Seen
<1>5. RowsAsListed(files, l)
  BY <1>3, SnapshotIs
<1> HIDE DEF inp, s, seen, files
<1>6. CASE s = <<>>
  <2>1. cycle'.step = "idle"
    BY <1>1, <1>2, <1>6 DEF CycleFields
  <2>2. QED BY <2>1 DEF CarriedOut, Unfailed, Busy
<1>7. CASE s # <<>>
  <2>1. /\ cycle'.todo = s /\ cycle'.touched = cycle.touched /\ cycle'.listing = l
        /\ cycle'.at = cycle.at /\ cycle'.seen = seen
    BY <1>1, <1>2, <1>7 DEF CycleFields
  <2>2. LastInput' = inp
    BY <1>4, <2>1 DEF LastInput
  <2>3. Plan(LastInput)' = s
    BY <2>2 DEF s
  <2>4. ASSUME Unfailed' PROVE OnItsWay'
    <3>1. l = Listing(disk)
      BY <1>2, <2>1, <2>4 DEF Unfailed, ListedOK
    <3>2. /\ Whole(inp) /\ Orderly(Plan(inp))
          /\ DOMAIN disk.root = DOMAIN inp.remote.root
          /\ DOMAIN disk.staging = DOMAIN inp.remote.staging
          /\ OthersAsListed(inp.remote, disk.root)
          /\ PartsAsListed(inp.remote, disk.staging, Acts(Plan(inp)))
      BY <1>2, <1>3, <3>1, ListedCarries
    <3> HIDE DEF l
    <3>3. (InputOK(LastInput) /\ Whole(LastInput))'
      BY <1>3, <2>2, <3>2
    <3>4. /\ RootAfter(DOMAIN disk.root, Acts(s)) = RootAfter(DOMAIN l.root, Acts(s))
          /\ StagingAfter(DOMAIN disk.staging, Acts(s)) = StagingAfter(DOMAIN l.staging, Acts(s))
      BY <1>3, <3>2
    <3>5. OthersAsListed(l, disk.root) /\ PartsAsListed(l, disk.staging, Acts(s)) /\ Orderly(s)
      BY <1>3, <3>2 DEF s
    <3>6. QED BY <1>1, <1>5, <2>1, <2>3, <3>3, <3>4, <3>5 DEF OnItsWay
  <2>5. QED BY <2>4 DEF CarriedOut
<1>8. QED BY <1>6, <1>7

LEMMA InitCarried == Init => CarriedOut
BY DEF Init, Idle, CarriedOut, Unfailed, Busy

LEMMA CarriedSteps == MaxBytes = None /\ Inv /\ CarriedOut /\ [Next]_vars => CarriedOut'
<1> SUFFICES ASSUME MaxBytes = None, Inv, CarriedOut, [Next]_vars PROVE CarriedOut'
  OBVIOUS
<1>1. CASE SnapshotAndPlan
  BY <1>1, PlanCarries
<1>2. CASE MakeStagingDir \/ StartUpload \/ FinishUpload \/ DeleteHidden
  BY <1>2, MkdirCarries, StartCarries, FinishCarries, DeleteHiddenCarries
<1>3. CASE MoveIn \/ MoveWithin \/ MoveOut \/ DeleteVisible \/ ConfirmLegacyDelete
  BY <1>3, MoveInCarries, MoveWithinCarries, MoveOutCarries, DeleteVisibleCarries, ConfirmCarries
<1>4. CASE \/ Tick \/ UNCHANGED vars
           \/ (\E w \in WantPool : EditSchedule(w))
           \/ (\E n \in DOMAIN rows : RequestDelete(n))
  <2>1. /\ disk' = disk /\ cycle' = cycle
        /\ rows' = rows \/ \E n \in DOMAIN rows : RequestDelete(n)
    BY <1>4 DEF Tick, EditSchedule, RequestDelete, vars
  <2>2. QED BY <2>1, RequestCarries
<1>5. CASE \/ UploadShort \/ ActionRefused \/ CycleLost \/ CheckAfter \/ ReadRemoteState
           \/ (\E h \in HandFiles : CopyByHand(h))
           \/ (\E n \in DOMAIN disk.root : DeleteByHand(n))
  BY <1>5, OthersCarry
<1>6. QED BY <1>1, <1>2, <1>3, <1>4, <1>5 DEF Next, CycleStep, Execute, Fault, People

-----------------------------------------------------------------------------
(* A cycle that ran to its end                                             *)

(* No file of somebody else's that was listed has the title and checksum   *)
(* of a video.                                                             *)
ListedPlain ==
  \A n \in DOMAIN cycle.listing.root \ Owned(cycle.listing) :
    \A v \in Library : v.slug # n.slug \/ v.sha # n.sha

(* At the end of a plan carried out, the folder has what the listing and   *)
(* the plan make, and what is not the app's is as it was listed.           *)
LEMMA CarriedToTheEnd ==
  ASSUME MaxBytes = None, Inv, OnItsWay, cycle.step = "check"
  PROVE  LET d == DraftIn(LastInput)
         IN  /\ DOMAIN disk.root = RootAfter(DOMAIN cycle.listing.root, Doings(d))
             /\ DOMAIN disk.staging = StagingAfter(DOMAIN cycle.listing.staging, Doings(d))
             /\ \A p \in DOMAIN disk.staging : p.part =>
                  p \in DOMAIN cycle.listing.staging
                    /\ disk.staging[p].mtime = cycle.listing.staging[p].mtime
<1> DEFINE inp == LastInput
           d   == DraftIn(inp)
           l   == cycle.listing
           P   == Acts(Plan(inp))
<1>1. cycle.todo = <<>>
  BY DEF Inv, CycleOK
<1>2. Acts(cycle.todo) = {}
  BY <1>1 DEF Acts
<1>3. RootTaken({}) = {} /\ RootPut({}) = {} /\ StagingTaken({}) = {} /\ StagingPut({}) = {}
  BY DEF RootTaken, RootPut, StagingTaken, StagingPut
<1>4. \A names : RootAfter(names, {}) = names /\ StagingAfter(names, {}) = names
  BY <1>3 DEF RootAfter, StagingAfter
<1>5. DOMAIN disk.root = RootAfter(DOMAIN l.root, P) /\ DOMAIN disk.staging = StagingAfter(DOMAIN l.staging, P)
  BY <1>2, <1>4 DEF OnItsWay
<1>6. InputOK(inp) /\ Whole(inp) /\ inp.maxBytes = None
  BY DEF OnItsWay, LastInput
<1>7. d = DraftIn(inp) /\ d.c = Classify(inp.remote, inp.library)
  BY DEF DraftIn, DraftOf
<1> HIDE DEF inp, d
<1>8. d.c.corrupt = {} /\ d.c.orphan = {}
  BY <1>6, <1>7, WholeIsStaged
<1>9. /\ RootTaken(P) = RootTaken(Doings(d)) /\ RootPut(P) = RootPut(Doings(d))
      /\ StagingPut(P) = StagingPut(Doings(d)) /\ StagingTaken(P) = StagingTaken(Doings(d))
  BY <1>6, <1>7, <1>8, PlanInOrder
<1> HIDE DEF P
<1>10. /\ RootAfter(DOMAIN l.root, P) = RootAfter(DOMAIN l.root, Doings(d))
       /\ StagingAfter(DOMAIN l.staging, P) = StagingAfter(DOMAIN l.staging, Doings(d))
  BY <1>9 DEF RootAfter, StagingAfter
<1>11. ASSUME NEW p \in DOMAIN disk.staging, p.part
       PROVE  p \in DOMAIN l.staging /\ disk.staging[p].mtime = l.staging[p].mtime
  BY <1>2, <1>3, <1>11 DEF OnItsWay, PartsAsListed
<1>12. QED BY <1>5, <1>10, <1>11 DEF inp, d

(* What is not the app's is what was listed as such.                       *)
LEMMA OthersAreListed ==
  ASSUME Inv, OnItsWay, NEW n \in DOMAIN disk.root, disk.root[n].data = Foreign
  PROVE  /\ n \in DOMAIN cycle.listing.root \ Owned(cycle.listing)
         /\ cycle.listing.root[n] = Listing(disk).root[n]
<1> DEFINE l    == cycle.listing
           file == disk.root[n]
<1>1. n \in DOMAIN l.root /\ l.root[n] = [size |-> file.size, mtime |-> file.mtime, isDir |-> file.isDir]
  BY DEF OnItsWay, OthersAsListed
<1>2. Listing(disk).root[n] = [size |-> file.size, mtime |-> file.mtime, isDir |-> file.isDir]
  BY DEF Listing
<1>3. \A v \in Library : ~ SizeMatches(v, n, file)
  BY DEF Inv, DiskOK, FilesOK, FileOK
<1>4. l.root[n].size = file.size
  BY <1>1
<1>5. n \notin Owned(l)
  BY <1>3, <1>4 DEF Owned, Matches, SizeMatches
<1>6. QED BY <1>1, <1>2, <1>5

LEMMA CarriedOutSettles ==
  ASSUME MaxBytes = None, NoTwins, Inv, CarriedOut, ListedPlain
  PROVE  OneCycleSettles
<1> DEFINE l     == Listing(disk)
           files == StoreSnapshot(rows, l)
           inp   == LastInput
           next  == PlannerInput(l, files, now)
           d     == DraftIn(inp)
           own   == OwnNames(disk.root)
<1> SUFFICES ASSUME cycle.step = "check", ~ cycle.failed, ~ cycle.touched,
                    cycle.seen = Seen(rows), cycle.at = now
             PROVE  Plan(next) = <<>>
  BY DEF OneCycleSettles
<1>1. OnItsWay
  BY DEF CarriedOut, Unfailed
<1>2. /\ DiskOK /\ wants \subseteq WantPool
  BY DEF Inv
<1>3. ListedOK(l, FALSE)
  BY <1>2, ListingIsOK
<1>4. InputOK(next) /\ InputOK(inp) /\ Whole(inp)
  BY <1>1, <1>2, <1>3, InputIsOK DEF OnItsWay
<1>5. /\ inp.library = Library /\ inp.remote = cycle.listing /\ inp.now = now
      /\ inp.wants = {w \in wants : w.end = None \/ w.end > now}
      /\ inp.requests = {n \in DOMAIN rows : rows[n].asked}
  BY DEF LastInput, Seen
<1>6. /\ next.library = Library /\ next.remote = l /\ next.now = now /\ next.maxBytes = None
      /\ next.wants = {w \in wants : w.end = None \/ w.end > now}
      /\ next.requests = {n \in DOMAIN files : files[n].asked}
  BY DEF PlannerInput
<1>7. /\ DOMAIN files = DOMAIN l.root \ AppNames(next)
      /\ AskedIn(files) = DOMAIN files \cap StillAsked(rows, l)
  BY <1>4, <1>6, SnapshotIs
<1>8. /\ DOMAIN l.root = DOMAIN disk.root /\ DOMAIN l.staging = DOMAIN disk.staging
      /\ \A p \in DOMAIN disk.staging : l.staging[p].mtime = disk.staging[p].mtime
  BY DEF Listing
<1>9. /\ DOMAIN disk.root = RootAfter(DOMAIN cycle.listing.root, Doings(d))
      /\ DOMAIN disk.staging = StagingAfter(DOMAIN cycle.listing.staging, Doings(d))
      /\ \A p \in DOMAIN disk.staging : p.part =>
           p \in DOMAIN cycle.listing.staging
             /\ disk.staging[p].mtime = cycle.listing.staging[p].mtime
  BY <1>1, CarriedToTheEnd
<1>10. ASSUME NEW n \in DOMAIN disk.root \ own
       PROVE  n \in DOMAIN cycle.listing.root \ Owned(cycle.listing) /\ cycle.listing.root[n] = l.root[n]
  <2>1. n \in DOMAIN disk.root /\ disk.root[n].data = Foreign
    BY <1>10 DEF OwnNames
  <2>2. QED BY <1>1, <2>1, OthersAreListed
<1> HIDE DEF inp, next, files, l, d
<1>11. AppNames(next) = own
  BY <1>2, <1>6, OwnAre DEF l
<1>12. AppNames(inp) = Owned(cycle.listing)
  BY <1>5, AppNamesAre
<1> HIDE DEF own
<1>13. OwnTitles(inp)
  BY <1>5, <1>12 DEF OwnTitles, NoTwins, ListedPlain
<1>14. OwnTitles(next)
  <2>1. \A n \in DOMAIN next.remote.root \ AppNames(next) :
          \A v \in next.library : v.slug # n.slug \/ v.sha # n.sha
    BY <1>6, <1>8, <1>10, <1>11 DEF ListedPlain
  <2>2. QED BY <1>6, <2>1 DEF OwnTitles, NoTwins
<1>15. Whole(next)
  BY <1>2, <1>6, StagedIsWhole DEF l
<1>16. ASSUME NEW n \in DOMAIN l.root, ~ Titled(inp, n)
       PROVE  /\ n \in DOMAIN cycle.listing.root /\ l.root[n] = cycle.listing.root[n]
              /\ n \in next.requests <=> n \in inp.requests
  <2>1. n \notin AppNames(next)
    <3>1. \A v \in Library : ~ Matches(v, n, l.root)
      BY <1>5, <1>16 DEF Titled, NameOf, Matches
    <3>2. QED BY <1>6, <3>1 DEF AppNames
  <2>2. /\ n \in DOMAIN cycle.listing.root /\ cycle.listing.root[n] = l.root[n]
    BY <1>8, <1>10, <1>11, <1>16, <2>1
  <2>3. n \in DOMAIN files
    BY <1>7, <1>16, <2>1
  <2>4. n \in DOMAIN rows => rows[n].seen = l.root[n]
    BY <1>1, <2>2 DEF OnItsWay, RowsAsListed
  <2>5. n \in next.requests <=> n \in DOMAIN rows /\ rows[n].asked
    BY <1>6, <1>7, <2>3, <2>4 DEF AskedIn, StillAsked
  <2>6. n \in inp.requests <=> n \in DOMAIN rows /\ rows[n].asked
    BY <1>5
  <2>7. QED BY <2>2, <2>5, <2>6
<1>17. RootFollows(inp, d, next)
  BY <1>5, <1>6, <1>8, <1>9, <1>16 DEF RootFollows
<1>18. StagingFollows(inp, d, next)
  BY <1>5, <1>6, <1>8, <1>9 DEF StagingFollows
<1>19. Follows(inp, next)
  BY <1>5, <1>6, <1>17, <1>18 DEF Follows, d
<1>20. QED BY <1>4, <1>6, <1>13, <1>14, <1>15, <1>19, PlansSettle

(* A cycle that ran to its end, with nothing else happening meanwhile,     *)
(* leaves nothing to do: the plan made of the folder as it is then is      *)
(* empty, for every library, schedule and folder (SPEC 6.6; planner.py,    *)
(* plan; cycle.py, the check after the plan).  There is no limit, no two   *)
(* videos have one title and one content, and no listed file of somebody   *)
(* else's has the title and checksum of a video (such a file can have the  *)
(* name that the video is given, which is left out until the next plan).   *)
THEOREM OneCycleLeavesNothingToDo ==
  ASSUME MaxBytes = None, NoTwins
  PROVE  Spec => [](ListedPlain => OneCycleSettles)
<1>1. Inv /\ CarriedOut /\ [Next]_vars => CarriedOut'
  BY CarriedSteps
<1>2. Inv /\ CarriedOut => (ListedPlain => OneCycleSettles)
  BY CarriedOutSettles
<1>3. QED BY <1>1, <1>2, CycleInvariant, InitCarried, PTL DEF Spec
=============================================================================
