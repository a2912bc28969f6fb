---------------------------- MODULE VideoLibrary ----------------------------
(***************************************************************************)
(* The library: a video is uploaded (blueprints/library.py) or adopted     *)
(* from a Pi (handle_adopt), converted by the worker (handle_transcode,    *)
(* process_video), scheduled (blueprints/schedule.py) and deleted, while   *)
(* conversions take minutes, fail, and are cut short by restarts.          *)
(*                                                                         *)
(* Atomicity.  SQLite begins a transaction at the first write, so a        *)
(* request of the panel that reads, decides and then writes has two steps: *)
(* its check and its commit.  A deletion removes the files in between, one *)
(* by one, and its commit may fail: another request, an upload say, holds  *)
(* the write lock for longer than the busy timeout, or the process dies.   *)
(* An upload and the end of a download hold the write lock throughout.     *)
(* The queue is JobQueue's subject: here a key has its latest job, and     *)
(* claiming a job is one step with the beginning of its handler.           *)
(*                                                                         *)
(* Data.  A conversion gives one of a few encodings (settings and ffmpeg   *)
(* change); as in the code, the path of a converted file is its video and  *)
(* its encoding, that of an original its upload or its legacy row.         *)
(***************************************************************************)
EXTENDS Naturals, SequencesExt

CONSTANTS
  Videos,      (* numbers of rows of the videos table, used or not            *)
  Legacy,      (* rows of legacy files                                        *)
  Slots,       (* assignments                                                 *)
  Encodings,
  None,
  MaxAttempts,
  MaxRequests, (* bounds: requests under way at a time, about one video,      *)
  MaxEvents    (*   adoptions, failures, rows forgotten and restarts in all   *)

ASSUME LibraryAssumption ==
       /\ Videos \subseteq Nat
       /\ Videos \cap Legacy = {}
       /\ None \notin Videos \cup Legacy \cup Slots \cup Encodings
       /\ MaxAttempts \in Nat \ {0}
       /\ {MaxRequests, MaxEvents} \subseteq Nat

VARIABLES
  video,     (* status, deleted, original (path), media (encoding), both or None *)
  rows,      (* of legacy files: known (in the table), again (downloaded when a  *)
             (* video, or a request under way, had that path already)            *)
  disk,      (* originals (absent, partial or whole), media (converted files),   *)
             (* removed (which files, of which videos, deletions removed that    *)
             (* did not commit)                                                  *)
  job,       (* the latest job of each key: status, attempts                     *)
  conv,      (* the conversion under way: video, step, media and, once placed,   *)
             (* before, the media that the row had                               *)
  schedule,  (* each assignment: None, or video, ended, crossed                  *)
  requests,  (* checked, not committed, as they came: kind, video, slot, paths   *)
             (* read, step (the last one a deletion removed), failed (a retry    *)
             (* that read so), crossed (a schedule under way together with a     *)
             (* deletion)                                                        *)
  left       (* what remains of MaxEvents                                        *)

vars == <<video, rows, disk, job, conv, schedule, requests, left>>

Paths == Videos \cup Legacy
-----------------------------------------------------------------------------
NoConversion == [video |-> None, step |-> "none", media |-> None, before |-> None]

Init == /\ video = [v \in Videos |-> [status |-> "none", deleted |-> FALSE,
                                      original |-> None, media |-> None]]
        /\ rows = [f \in Legacy |-> [known |-> TRUE, again |-> FALSE]]
        /\ disk = [originals |-> [p \in Paths |-> "absent"], media |-> {}, removed |-> {}]
        /\ job = [k \in Paths |-> [status |-> "none", attempts |-> 0]]
        /\ conv = NoConversion
        /\ schedule = [s \in Slots |-> None]
        /\ requests = <<>>
        /\ left = MaxEvents

Active == {"pending", "running"}

Enqueue(jobs, k) ==
  IF jobs[k].status \in Active THEN jobs
  ELSE [jobs EXCEPT ![k] = [status |-> "pending", attempts |-> 0]]

Ends(k, status) == [job EXCEPT ![k].status = status]

Unused == {v \in Videos : video[v].status = "none"}
Fresh(v) == v \in Unused /\ \A w \in Unused : v <= w

(* bound: a row remains for every adoption under way *)
RowsLeft == Cardinality(Unused) > Cardinality({f \in Legacy : job[f].status \in Active})

Exists(v) == video[v].status # "none" /\ ~ video[v].deleted

Event == left > 0 /\ left' = left - 1

-----------------------------------------------------------------------------
(* Requests of the panel.                                                  *)

Upload(v) ==
  /\ Fresh(v)
  /\ RowsLeft
  /\ video' = [video EXCEPT ![v].status = "processing", ![v].original = v]
  /\ disk' = [disk EXCEPT !.originals[v] = "whole"]
  /\ job' = Enqueue(job, v)
  /\ UNCHANGED <<rows, conv, schedule, requests, left>>

(* The upload breaks off, or the file is saved and the row is not: it was  *)
(* never committed, and its number is given again.                         *)
UploadFails(v) ==
  /\ Event
  /\ Fresh(v)
  /\ \E saved \in {"partial", "whole"} : disk' = [disk EXCEPT !.originals[v] = saved]
  /\ UNCHANGED <<video, rows, job, conv, schedule, requests>>

(* A request has read the video's row and passed its checks.  What it      *)
(* keeps of the row are the paths of the files it will remove.             *)
Checked(kind, v, s, original, media) ==
  LET request == [kind |-> kind, video |-> v, slot |-> s, original |-> original,
                  media |-> media, step |-> "checked", crossed |-> FALSE,
                  failed |-> video[v].status = "failed" /\ kind = "retry"]
      all == Append(requests, request)
      Crossed(q) == q.kind = "schedule" /\ \E d \in Range(all) : d.kind = "delete"
  IN  /\ Len(requests) < MaxRequests
      /\ \A q \in Range(requests) : q.video = v
      /\ requests' = [i \in DOMAIN all |->
                        [all[i] EXCEPT !.crossed = all[i].crossed \/ Crossed(all[i])]]
      /\ UNCHANGED <<video, rows, disk, job, conv, schedule, left>>

Commits(kind, i) == requests[i].kind = kind /\ requests' = RemoveAt(requests, i)

(* Mutant: a video that is ready may be converted again.                   *)
CheckRetryAny(v) == Exists(v) /\ video[v].original # None /\ Checked("retry", v, None, None, None)

CheckRetry(v) ==
  /\ Exists(v)
  /\ video[v].status = "failed"
  /\ video[v].original # None
  /\ Checked("retry", v, None, None, None)

CommitRetry(i) ==
  LET q == requests[i] IN
  /\ Commits("retry", i)
  /\ video' = [video EXCEPT ![q.video].status = "processing"]
  /\ job' = Enqueue(job, q.video)
  /\ UNCHANGED <<rows, disk, conv, schedule, left>>

Blocking(v) == {s \in Slots : schedule[s] # None /\ schedule[s].video = v /\ ~ schedule[s].ended}

(* Mutant: the files go before the schedule is looked at.                  *)
CheckDeleteTooSoon(v) ==
  /\ Exists(v)
  /\ \/ Blocking(v) = {} /\ Checked("delete", v, None, video[v].original, video[v].media)
     \/ /\ Blocking(v) # {}
        /\ disk' = [disk EXCEPT !.media = @ \ {<<v, video[v].media>>}]
        /\ UNCHANGED <<video, rows, job, conv, schedule, requests, left>>

(* bound: one deletion at a time *)
CheckDelete(v) ==
  /\ Exists(v)
  /\ Blocking(v) = {}
  /\ ~ \E q \in Range(requests) : q.kind = "delete"
  /\ Checked("delete", v, None, video[v].original, video[v].media)

(* The files are those that the request read; they go before the row does. *)
RemoveOriginal(i) ==
  LET q == requests[i] IN
  /\ q.kind = "delete"
  /\ q.step = "checked"
  /\ requests' = [requests EXCEPT ![i].step = "original"]
  /\ IF q.original = None
       THEN UNCHANGED disk
       ELSE disk' = [disk EXCEPT !.originals[q.original] = "absent",
                                 !.removed = @ \cup {<<q.video, "original">>}]
  /\ UNCHANGED <<video, rows, job, conv, schedule, left>>

RemoveMedia(i) ==
  LET q == requests[i] IN
  /\ q.kind = "delete"
  /\ q.step = "original"
  /\ requests' = [requests EXCEPT ![i].step = "media"]
  /\ IF q.media = None
       THEN UNCHANGED disk
       ELSE disk' = [disk EXCEPT !.media = @ \ {<<q.video, q.media>>},
                                 !.removed = @ \cup {<<q.video, "media">>}]
  /\ UNCHANGED <<video, rows, job, conv, schedule, left>>

(* A column that was empty when it was read is not written.                *)
CommitDelete(i) ==
  LET q == requests[i] IN
  /\ Commits("delete", i)
  /\ q.step = "media"
  /\ disk' = [disk EXCEPT !.removed = @ \ ({q.video} \X {"original", "media"})]
  /\ video' = [video EXCEPT ![q.video].deleted = TRUE, ![q.video].original = None,
                           ![q.video].media = IF q.media = None THEN @ ELSE None]
  /\ UNCHANGED <<rows, job, conv, schedule, left>>

(* The database stays locked for too long, or the process dies: no row     *)
(* changes, and the files that were removed do not come back.              *)
RequestFails(i) ==
  /\ Event
  /\ requests' = RemoveAt(requests, i)
  /\ UNCHANGED <<video, rows, disk, job, conv, schedule>>

(* The form offers the videos that exist and have not failed, and the one  *)
(* the assignment has already.                                             *)
Offered(s) ==
  {v \in Videos : Exists(v) /\ video[v].status # "failed"}
    \cup (IF schedule[s] = None THEN {} ELSE {schedule[s].video})

(* Mutant: what the form offers is taken.                                  *)
CheckScheduleOffered(s, v) == v \in Offered(s) /\ Checked("schedule", v, s, None, None)

CheckSchedule(s, v) ==
  /\ v \in Offered(s)
  /\ Exists(v)
  /\ Checked("schedule", v, s, None, None)

CommitSchedule(i) ==
  LET q == requests[i] IN
  /\ Commits("schedule", i)
  /\ schedule' = [schedule EXCEPT ![q.slot] =
                    [video |-> q.video, ended |-> FALSE, crossed |-> q.crossed]]
  /\ UNCHANGED <<video, rows, disk, job, conv, left>>

(* It is ended by hand, or its time comes.                                 *)
EndAssignment(s) ==
  /\ schedule[s] # None
  /\ ~ schedule[s].ended
  /\ schedule' = [schedule EXCEPT ![s].ended = TRUE, ![s].crossed = FALSE]
  /\ UNCHANGED <<video, rows, disk, job, conv, requests, left>>

(* bound: not while somebody edits it, which would find it gone *)
DeleteAssignment(s) ==
  /\ schedule[s] # None
  /\ ~ \E q \in Range(requests) : q.slot = s
  /\ schedule' = [schedule EXCEPT ![s] = None]
  /\ UNCHANGED <<video, rows, disk, job, conv, requests, left>>

RequestAdopt(f) ==
  /\ Event
  /\ rows[f].known
  /\ job[f].status \in Active \/ RowsLeft
  /\ job' = Enqueue(job, f)
  /\ UNCHANGED <<video, rows, disk, conv, schedule, requests>>

(* The store's folder is changed, or the file is gone.                     *)
ForgetRow(f) ==
  /\ Event
  /\ rows[f].known
  /\ rows' = [rows EXCEPT ![f].known = FALSE]
  /\ UNCHANGED <<video, disk, job, conv, schedule, requests>>

(* The file is listed again, and its new row may get the number of the old *)
(* one: numbers are not kept from being used again.                        *)
ListRow(f) ==
  /\ ~ rows[f].known
  /\ rows' = [rows EXCEPT ![f].known = TRUE]
  /\ UNCHANGED <<video, disk, job, conv, schedule, requests, left>>

-----------------------------------------------------------------------------
(* Adoption.  The file is opened for writing, which empties it, whoever    *)
(* else has it; it is removed if the download fails.                       *)

BeginAdopt(f) ==
  /\ job[f].status = "pending"
  /\ IF rows[f].known
       THEN /\ job' = [job EXCEPT ![f] = [status |-> "running", attempts |-> @.attempts + 1]]
            /\ disk' = [disk EXCEPT !.originals[f] = "partial"]
            /\ rows' = [rows EXCEPT ![f].again = \/ \E v \in Videos : video[v].original = f
                                                \/ \E q \in Range(requests) : q.original = f]
       ELSE /\ job' = [job EXCEPT ![f] = [status |-> "failed", attempts |-> @.attempts + 1]]
            /\ UNCHANGED <<disk, rows>>
  /\ UNCHANGED <<video, conv, schedule, requests, left>>

AdoptFails(f) ==
  /\ Event
  /\ job[f].status = "running"
  /\ job' = Ends(f, "failed")
  /\ disk' = [disk EXCEPT !.originals[f] = "absent"]
  /\ UNCHANGED <<video, rows, conv, schedule, requests>>

(* A path that was removed during the download stays removed.              *)
Downloaded(f) ==
  [disk EXCEPT !.originals[f] = IF @ = "absent" THEN "absent" ELSE "whole"]

FinishAdopt(f, v) ==
  /\ job[f].status = "running"
  /\ Fresh(v)
  /\ rows[f].known
  /\ disk' = Downloaded(f)
  /\ video' = [video EXCEPT ![v].status = "processing", ![v].original = f]
  /\ job' = Enqueue(Ends(f, "done"), v)
  /\ UNCHANGED <<rows, conv, schedule, requests, left>>

(* Without its row, or with any other error, the handler crashes and       *)
(* leaves what it has written, or what it had removed.                     *)
AdoptCrashes(f) ==
  /\ job[f].status = "running"
  /\ (~ rows[f].known /\ UNCHANGED left) \/ Event
  /\ job' = Ends(f, "crashed")
  /\ disk' \in {disk, Downloaded(f), [disk EXCEPT !.originals[f] = "absent"]}
  /\ UNCHANGED <<video, rows, conv, schedule, requests>>

-----------------------------------------------------------------------------
(* Conversion, one at a time.                                              *)

Begin(v) ==
  /\ conv = NoConversion
  /\ job[v].status = "pending"
  /\ job' = [job EXCEPT ![v] = [status   |-> IF video[v].deleted THEN "failed" ELSE "running",
                                attempts |-> @.attempts + 1]]
  /\ IF video[v].deleted
       THEN UNCHANGED <<video, conv>>
       ELSE /\ video' = [video EXCEPT ![v].status = "processing"]
            /\ conv' = [NoConversion EXCEPT !.video = v, !.step = "reading"]
  /\ UNCHANGED <<rows, disk, schedule, requests, left>>

Source(v) ==
  IF video[v].original = None THEN "absent" ELSE disk.originals[video[v].original]

(* ffmpeg has the original open from now on.                               *)
StartEncoding ==
  /\ conv.step = "reading"
  /\ Source(conv.video) # "absent"
  /\ conv' = [conv EXCEPT !.step = "encoding"]
  /\ UNCHANGED <<video, rows, disk, job, schedule, requests, left>>

(* The new file gets its name, and the one that the row names goes.        *)
Place(e) ==
  LET v == conv.video
  IN  /\ conv.step = "encoding"
      /\ conv' = [conv EXCEPT !.step = "placed", !.media = e, !.before = video[v].media]
      /\ disk' = [disk EXCEPT !.media = (@ \ {<<v, video[v].media>>}) \cup {<<v, e>>}]
      /\ UNCHANGED <<video, rows, job, schedule, requests, left>>

(* A column that does not change is not written.                           *)
Record ==
  LET v == conv.video
  IN  /\ conv.step = "placed"
      /\ <<v, conv.media>> \in disk.media
      /\ video' = [video EXCEPT ![v].status = "ready",
                                ![v].media = IF conv.before = conv.media THEN @ ELSE conv.media]
      /\ job' = Ends(v, "done")
      /\ conv' = NoConversion
      /\ UNCHANGED <<rows, disk, schedule, requests, left>>

(* Mutant: the original is cleaned up with the rest.                       *)
ConversionFailsClean ==
  LET v == conv.video
  IN  /\ conv.step \in {"reading", "encoding"}
      /\ Event
      /\ video' = [video EXCEPT ![v].status = "failed"]
      /\ disk' = [disk EXCEPT !.originals = [p \in Paths |-> IF p = video[v].original
                                                             THEN "absent" ELSE @[p]]]
      /\ job' = Ends(v, "failed")
      /\ conv' = NoConversion
      /\ UNCHANGED <<rows, schedule, requests>>

(* No original, one that ffmpeg cannot read to its end, or one that is     *)
(* still being written: a MediaError.                                      *)
ConversionFails ==
  LET v == conv.video
  IN  /\ conv.step \in {"reading", "encoding"}
      /\ \/ conv.step = "reading" /\ Source(v) = "absent" /\ UNCHANGED left
         \/ Source(v) = "partial" /\ UNCHANGED left
         \/ Event
      /\ video' = [video EXCEPT ![v].status = "failed"]
      /\ job' = Ends(v, "failed")
      /\ conv' = NoConversion
      /\ UNCHANGED <<rows, disk, schedule, requests>>

(* Any other exception (a full disk, a locked database, a file that has    *)
(* been removed) ends the job and leaves the video as the last commit did. *)
Crashes ==
  /\ conv # NoConversion
  /\ \/ conv.step = "placed" /\ <<conv.video, conv.media>> \notin disk.media /\ UNCHANGED left
     \/ Event
  /\ job' = Ends(conv.video, "crashed")
  /\ conv' = NoConversion
  /\ UNCHANGED <<video, rows, disk, schedule, requests>>

-----------------------------------------------------------------------------
(* The worker process goes and another starts.                             *)

RecoverAlways(j) == [j EXCEPT !.status = "pending"]
RecoverNone(j) == j

Recover(j) ==
  [j EXCEPT !.status = IF j.attempts < MaxAttempts THEN "pending" ELSE "given up"]

Restart ==
  /\ Event
  /\ conv' = NoConversion
  /\ job' = [k \in Paths |-> IF job[k].status = "running" THEN Recover(job[k]) ELSE job[k]]
  /\ UNCHANGED <<video, rows, disk, schedule, requests>>

Panel ==
  \/ \E v \in Videos : Upload(v) \/ UploadFails(v) \/ CheckRetry(v) \/ CheckDelete(v)
  \/ \E v \in Videos, s \in Slots : CheckSchedule(s, v)
  \/ \E i \in DOMAIN requests :
       \/ CommitRetry(i) \/ CommitSchedule(i)
       \/ RemoveOriginal(i) \/ RemoveMedia(i) \/ CommitDelete(i)
       \/ RequestFails(i)
  \/ \E s \in Slots : EndAssignment(s) \/ DeleteAssignment(s)
  \/ \E f \in Legacy : RequestAdopt(f)

Adoption ==
  \E f \in Legacy :
    ForgetRow(f) \/ ListRow(f) \/ BeginAdopt(f) \/ AdoptFails(f) \/ AdoptCrashes(f)
      \/ \E v \in Videos : FinishAdopt(f, v)

Advance ==
  StartEncoding \/ (\E e \in Encodings : Place(e)) \/ Record \/ ConversionFails \/ Crashes

Conversion == Advance \/ (\E v \in Videos : Begin(v)) \/ Restart

Next == Panel \/ Adoption \/ Conversion

Spec == Init /\ [][Next]_vars

(* A conversion ends: ffmpeg is killed when it stops answering.  The media *)
(* jobs are taken in order, so every pending one has its turn.             *)
FairSpec == /\ Spec
            /\ WF_vars(Advance)
            /\ \A v \in Videos : SF_vars(Begin(v))
-----------------------------------------------------------------------------
Jobs == [status : Active \cup {"none", "done", "failed", "crashed", "given up"},
         attempts : 0..MaxAttempts]

Rows == [status : {"none", "processing", "ready", "failed"}, deleted : BOOLEAN,
         original : Paths \cup {None}, media : Encodings \cup {None}]

Conversions == [video : Videos \cup {None}, step : {"none", "reading", "encoding", "placed"},
                media : Encodings \cup {None}, before : Encodings \cup {None}]

Assignments == [video : Videos, ended : BOOLEAN, crossed : BOOLEAN]

Requests == [kind : {"delete", "retry", "schedule"}, video : Videos, slot : Slots \cup {None},
             original : Paths \cup {None}, media : Encodings \cup {None},
             step : {"checked", "original", "media"}, crossed : BOOLEAN, failed : BOOLEAN]

(* Types; an interrupted job has no more attempts than it may have.        *)
TypeOK ==
  /\ video \in [Videos -> Rows]
  /\ rows \in [Legacy -> [known : BOOLEAN, again : BOOLEAN]]
  /\ disk \in [originals : [Paths -> {"absent", "partial", "whole"}],
               media : SUBSET (Videos \X Encodings),
               removed : SUBSET (Videos \X {"original", "media"})]
  /\ job \in [Paths -> Jobs]
  /\ conv \in Conversions
  /\ schedule \in [Slots -> {None} \cup Assignments]
  /\ requests \in Seq(Requests)
  /\ left \in 0..MaxEvents

Ready(v) == video[v].status = "ready" /\ ~ video[v].deleted

(* What the stores may be sent has its file: a row that says ready names a *)
(* converted file that is there, through conversions that are repeated,    *)
(* cut short or crossed by requests, unless a deletion that found the      *)
(* video in no schedule has removed it and has not committed, or never did.*)
ReadyHasFile ==
  \A v \in Videos :
    Ready(v) /\ <<v, "media">> \notin disk.removed => <<v, video[v].media>> \in disk.media

(* A video stays ready, with the same file, until it is deleted, whatever  *)
(* the queue still holds; only a retry that read it as failed, and commits *)
(* after another has succeeded, takes it back.                             *)
StaysReady ==
  \A v \in Videos :
    Ready(v) => \/ video'[v] = video[v]
                \/ video'[v].deleted
                \/ \E q \in Range(requests) : q.video = v /\ q.failed
ReadyStays == [][StaysReady]_vars

(* An assignment that goes on keeps its video in the library, unless the   *)
(* request that made it overlapped one that deletes the video.             *)
ScheduledExists ==
  \A s \in Slots :
    schedule[s] # None /\ ~ schedule[s].ended /\ ~ schedule[s].crossed
      => Exists(schedule[s].video)

InProgress(v) == video[v].status = "processing" /\ ~ video[v].deleted

(* The original of a video in the library is whole, so that it can be      *)
(* converted again, unless its legacy file was adopted a second time or a  *)
(* deletion of this video has removed it.                                  *)
OriginalKept ==
  \A v \in Videos :
    /\ Exists(v)
    /\ <<v, "original">> \notin disk.removed
    /\ ~ (video[v].original \in Legacy /\ rows[video[v].original].again)
    => Source(v) = "whole"

(* Every video in progress becomes ready or failed, is deleted, or has its *)
(* job crash or given up, whatever restarts.                               *)
EventuallyConverted ==
  \A v \in Videos :
    InProgress(v) ~> ~ InProgress(v) \/ job[v].status \in {"crashed", "given up"}

(* The page of a video in progress says "A conversão está a decorrer."     *)
(* (templates/library/detail.html:34).                                     *)
ConversionUnderWay == \A v \in Videos : InProgress(v) => job[v].status \in Active
=============================================================================
