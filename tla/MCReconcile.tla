---------------------------- MODULE MCReconcile ----------------------------
(***************************************************************************)
(* Instances of Reconcile: videos, assignments and files for the runs.     *)
(***************************************************************************)
EXTENDS Reconcile

Video(id, slug, sha, size) == [id |-> id, slug |-> slug, sha |-> sha, size |-> size]

Want(id, video, start, end, position, fallback) ==
  [id |-> id, video |-> video, start |-> start, end |-> end,
   position |-> position, fallback |-> fallback]

Ring     == Video(1, 11, 1, 2)
Watch    == Video(2, 12, 2, 3)
Reserve  == Video(3, 13, 3, 2)
Twin     == Video(4, 11, 1, 2)   \* Ring's file, uploaded again under its title
Copy     == Video(5, 15, 1, 2)   \* ... and under another title

LegacyName(rank, slug) == [nnn |-> rank, slug |-> slug, sha |-> None]
File(size, mtime, data) == [size |-> size, mtime |-> mtime, isDir |-> FALSE, data |-> data]
OldFilm     == LegacyName(5, 21)
BadName     == LegacyName(30, 22)   \* a name the player cannot open
UnplayableSlugs == {22}

-----------------------------------------------------------------------------
(* Schedule: a campaign that ends, one that starts, a reordering, and a    *)
(* fallback.                                                               *)
Campaign     == Want(1, Ring, 0, 2, 2, FALSE)
NextCampaign == Want(2, Watch, 1, None, 1, FALSE)
Fallback     == Want(3, Reserve, 0, None, 1, TRUE)
Again        == Want(4, Ring, 0, None, 1, FALSE)
CopyCampaign == Want(5, Copy, 0, None, 3, FALSE)
TwinCampaign == Want(6, Twin, 0, None, 1, FALSE)

ScheduleLibrary == {Ring, Watch, Reserve, Copy}
ScheduleWants   == {Campaign, NextCampaign, Fallback, Again, CopyCampaign}
ScheduleInitial == {Campaign, NextCampaign, Fallback}
ScheduleRoot    == BadName :> File(4, 0, Foreign)
NoHands         == {}

-----------------------------------------------------------------------------
(* Legacy: files the app did not make.  While it works, people replace the *)
(* old film (same size or not), and copy a file under a name the app is    *)
(* about to use.                                                           *)
LegacyLibrary == {Ring, Reserve}
LegacyWants   == {Campaign, Fallback}
LegacyInitial == {Campaign, Fallback}
LegacyRoot    == OldFilm :> File(4, 0, Foreign) @@ BadName :> File(3, 0, Foreign)
LegacyHands   == {[name |-> OldFilm, file |-> File(5, 1, Foreign)],
                  [name |-> OldFilm, file |-> File(4, 1, Foreign)],
                  [name |-> ActiveName(10, Ring), file |-> File(3, 1, Foreign)],
                  [name |-> [nnn |-> 20, slug |-> 11, sha |-> 3], file |-> File(3, 1, Foreign)]}

-----------------------------------------------------------------------------
(* Capacity: a limit that holds any two of the videos, with the old film   *)
(* in the way; one video is in the library under two titles.               *)
CapacityRoot    == OldFilm :> File(4, 0, Foreign)
CapacityLibrary == {Ring, Watch, Reserve, Copy}
Later           == Want(2, Watch, 1, None, 1, FALSE)
Always          == Want(7, Ring, 0, None, 2, FALSE)
CapacityWants   == {Later, Always, Fallback, CopyCampaign}
CapacityInitial == {Always, Fallback}

-----------------------------------------------------------------------------
(* Twins: the same file uploaded twice under one title, both scheduled.    *)
TwinLibrary == {Ring, Twin}
TwinWants   == {Always, TwinCampaign}
NoFiles     == <<>>
=============================================================================
