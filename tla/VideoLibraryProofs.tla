------------------------- MODULE VideoLibraryProofs -------------------------
(***************************************************************************)
(* Proofs about VideoLibrary, for any videos, legacy files, assignments,   *)
(* encodings and bounds.                                                   *)
(***************************************************************************)
EXTENDS VideoLibrary, SequenceTheorems, TLAPS

(* The conversion under way is of a video in progress whose job runs; once *)
(* the new file is placed, the row still names the old one, or the video   *)
(* was deleted.                                                            *)
ConvInv ==
  conv # NoConversion =>
    /\ conv.video \in Videos
    /\ conv.step # "none"
    /\ video[conv.video].status = "processing"
    /\ job[conv.video].status = "running"
    /\ conv.step = "placed" =>
         video[conv.video].media = conv.before \/ video[conv.video].deleted

(* A job that waits is of a video in progress and may still be tried; one  *)
(* that runs is the conversion under way.                                  *)
JobInv ==
  /\ \A k \in Paths : job[k].status = "pending" => job[k].attempts < MaxAttempts
  /\ \A v \in Videos :
       /\ job[v].status = "pending" => video[v].status = "processing"
       /\ job[v].status = "running" => conv.video = v

(* What a request has read still holds, or it was crossed.                 *)
RequestInv ==
  \A q \in Range(requests) :
    /\ q.kind = "retry" => q.failed
    /\ \A d \in Range(requests) : d.video = q.video
    /\ q.kind = "schedule" /\ ~ q.crossed =>
         /\ Exists(q.video)
         /\ \A d \in Range(requests) : d.kind # "delete"
    /\ q.kind = "delete" =>
         \A s \in Blocking(q.video) : schedule[s].crossed

LibraryInv ==
  TypeOK /\ ConvInv /\ JobInv /\ RequestInv /\ ReadyHasFile /\ ScheduledExists

-----------------------------------------------------------------------------
(* What the constants and the types give: the identifiers differ, and a    *)
(* request under way is one of Requests.                                   *)
LEMMA Identifiers == /\ \A v \in Videos : v \in Paths /\ v # None /\ v \notin Legacy
                     /\ \A f \in Legacy : f \in Paths /\ f # None /\ f \notin Videos
                     /\ MaxAttempts \in Nat /\ MaxAttempts > 0
  BY LibraryAssumption DEF Paths

LEMMA UnderWay ==
  ASSUME requests \in Seq(Requests)
  PROVE  /\ Range(requests) \subseteq Requests
         /\ \A i \in DOMAIN requests : requests[i] \in Range(requests)
  BY DEF Range

(* Videos that stay in the library keep what requests and assignments      *)
(* need.                                                                   *)
LEMMA StillThere ==
  ASSUME LibraryInv, UNCHANGED <<schedule, requests>>,
         \A v \in Videos : Exists(v) => Exists(v)'
  PROVE  RequestInv' /\ ScheduledExists'
<1>1. Range(requests) \subseteq Requests /\ Range(requests)' = Range(requests)
  BY UnderWay DEF LibraryInv, TypeOK, Range
<1>2. RequestInv'
  BY <1>1 DEF LibraryInv, RequestInv, Requests, Blocking
<1>3. ScheduledExists'
  BY DEF LibraryInv, TypeOK, ScheduledExists, Assignments
<1>4. QED BY <1>2, <1>3

-----------------------------------------------------------------------------
(* What the pieces of a step do to one row, one job and the files.         *)
Statuses == {"none", "processing", "ready", "failed"}

LEMMA StatusChanged ==
  ASSUME video \in [Videos -> Rows], NEW v \in Videos, NEW status \in Statuses,
         video' = [video EXCEPT ![v].status = status]
  PROVE  /\ video' \in [Videos -> Rows]
         /\ \A w \in Videos \ {v} : video'[w] = video[w]
         /\ video'[v].status = status
         /\ video'[v].deleted = video[v].deleted
         /\ video'[v].media = video[v].media
<1> DEFINE row == [video[v] EXCEPT !.status = status]
<1>1. /\ row \in Rows
      /\ row.status = status
      /\ row.deleted = video[v].deleted
      /\ row.media = video[v].media
  BY DEF Rows, Statuses
<1>2. video' = [video EXCEPT ![v] = row]
  OBVIOUS
<1> HIDE DEF row
<1>3. QED BY <1>1, <1>2

LEMMA RowBegun ==
  ASSUME video \in [Videos -> Rows], NEW v \in Videos, NEW path \in Paths,
         video' = [video EXCEPT ![v].status = "processing", ![v].original = path]
  PROVE  /\ video' \in [Videos -> Rows]
         /\ \A w \in Videos \ {v} : video'[w] = video[w]
         /\ video'[v].status = "processing"
         /\ video'[v].deleted = video[v].deleted
<1> DEFINE row == [video[v] EXCEPT !.status = "processing", !.original = path]
<1>1. row \in Rows /\ row.status = "processing" /\ row.deleted = video[v].deleted
  BY DEF Rows
<1>2. video' = [video EXCEPT ![v] = row]
  OBVIOUS
<1> HIDE DEF row
<1>3. QED BY <1>1, <1>2

LEMMA RowReady ==
  ASSUME video \in [Videos -> Rows], NEW v \in Videos, NEW media \in Encodings \cup {None},
         video' = [video EXCEPT ![v].status = "ready", ![v].media = media]
  PROVE  /\ video' \in [Videos -> Rows]
         /\ \A w \in Videos \ {v} : video'[w] = video[w]
         /\ video'[v].status = "ready"
         /\ video'[v].deleted = video[v].deleted
         /\ video'[v].media = media
<1> DEFINE row == [video[v] EXCEPT !.status = "ready", !.media = media]
<1>1. /\ row \in Rows
      /\ row.status = "ready"
      /\ row.deleted = video[v].deleted
      /\ row.media = media
  BY DEF Rows
<1>2. video' = [video EXCEPT ![v] = row]
  OBVIOUS
<1> HIDE DEF row
<1>3. QED BY <1>1, <1>2

LEMMA RowDeleted ==
  ASSUME video \in [Videos -> Rows], NEW v \in Videos, NEW media \in Encodings \cup {None},
         video' = [video EXCEPT ![v].deleted = TRUE, ![v].original = None, ![v].media = media]
  PROVE  /\ video' \in [Videos -> Rows]
         /\ \A w \in Videos \ {v} : video'[w] = video[w]
         /\ video'[v].status = video[v].status
         /\ video'[v].deleted
<1> DEFINE row == [video[v] EXCEPT !.deleted = TRUE, !.original = None, !.media = media]
<1>1. row \in Rows /\ row.status = video[v].status /\ row.deleted = TRUE
  BY DEF Rows
<1>2. video' = [video EXCEPT ![v] = row]
  OBVIOUS
<1> HIDE DEF row
<1>3. QED BY <1>1, <1>2, ZenonT(40)

LEMMA Enqueued ==
  ASSUME NEW jobs \in [Paths -> Jobs], NEW k \in Paths
  PROVE  /\ Enqueue(jobs, k) \in [Paths -> Jobs]
         /\ \A p \in Paths \ {k} : Enqueue(jobs, k)[p] = jobs[p]
         /\ \/ Enqueue(jobs, k)[k] = jobs[k] /\ jobs[k].status \in Active
            \/ Enqueue(jobs, k)[k].status = "pending" /\ Enqueue(jobs, k)[k].attempts = 0
<1> DEFINE new == [status |-> "pending", attempts |-> 0]
<1>1. new \in Jobs /\ new.status = "pending" /\ new.attempts = 0
  <2>1. 0 \in 0..MaxAttempts
    BY LibraryAssumption
  <2>2. QED BY <2>1 DEF Jobs, Active
<1>2. Enqueue(jobs, k) = IF jobs[k].status \in Active THEN jobs ELSE [jobs EXCEPT ![k] = new]
  BY DEF Enqueue
<1> HIDE DEF new
<1>3. QED BY <1>1, <1>2

LEMMA JobEnded ==
  ASSUME job \in [Paths -> Jobs], NEW k \in Paths, NEW status \in {"done", "failed", "crashed"}
  PROVE  /\ Ends(k, status) \in [Paths -> Jobs]
         /\ \A p \in Paths \ {k} : Ends(k, status)[p] = job[p]
         /\ Ends(k, status)[k].status = status
<1> DEFINE ended == [job[k] EXCEPT !.status = status]
<1>1. ended \in Jobs /\ ended.status = status
  BY DEF Jobs
<1>2. Ends(k, status) = [job EXCEPT ![k] = ended]
  BY DEF Ends
<1> HIDE DEF ended
<1>3. QED BY <1>1, <1>2

Disks == [originals : [Paths -> {"absent", "partial", "whole"}],
          media : SUBSET (Videos \X Encodings),
          removed : SUBSET (Videos \X {"original", "media"})]

LEMMA OriginalChanged ==
  ASSUME disk \in Disks, NEW p \in Paths, NEW o \in {"absent", "partial", "whole"}
  PROVE  /\ [disk EXCEPT !.originals[p] = o] \in Disks
         /\ [disk EXCEPT !.originals[p] = o].media = disk.media
         /\ [disk EXCEPT !.originals[p] = o].removed = disk.removed
  BY DEF Disks

LEMMA DownloadedIs ==
  ASSUME disk \in Disks, NEW p \in Paths
  PROVE  /\ Downloaded(p) \in Disks
         /\ Downloaded(p).media = disk.media
         /\ Downloaded(p).removed = disk.removed
<1> DEFINE o == IF disk.originals[p] = "absent" THEN "absent" ELSE "whole"
<1>1. o \in {"absent", "partial", "whole"}
  OBVIOUS
<1>2. Downloaded(p) = [disk EXCEPT !.originals[p] = o]
  BY DEF Downloaded
<1> HIDE DEF o
<1>3. QED BY <1>1, <1>2 DEF Disks

-----------------------------------------------------------------------------
(* What a step that leaves schedule and requests alone proves about the    *)
(* invariant's parts.                                                      *)

LEMMA UploadInv ==
  ASSUME LibraryInv, NEW v \in Videos, Upload(v)
  PROVE  LibraryInv'
<1>1. UNCHANGED <<rows, conv, schedule, requests, left>>
  BY DEF Upload
<1>2. video[v].status = "none"
  BY DEF Upload, Fresh, Unused
<1>3. /\ video' \in [Videos -> Rows]
      /\ \A w \in Videos \ {v} : video'[w] = video[w]
      /\ video'[v].status = "processing"
      /\ video'[v].deleted = video[v].deleted
  BY Identifiers, RowBegun DEF Upload, LibraryInv, TypeOK
<1>4. /\ job' \in [Paths -> Jobs]
      /\ \A p \in Paths \ {v} : job'[p] = job[p]
      /\ \/ job'[v] = job[v]
         \/ job'[v].status = "pending" /\ job'[v].attempts = 0
  BY Identifiers, Enqueued DEF Upload, LibraryInv, TypeOK
<1>5. disk' \in Disks /\ disk'.media = disk.media /\ disk'.removed = disk.removed
  BY Identifiers, OriginalChanged DEF Upload, LibraryInv, TypeOK, Disks
<1>6. TypeOK'
  BY <1>1, <1>2, <1>3, <1>4, <1>5 DEF LibraryInv, TypeOK, Disks
<1>7. ConvInv'
  BY <1>1, <1>2, <1>3, <1>4, <1>5, Identifiers
     DEF LibraryInv, TypeOK, Conversions, ConvInv, JobInv, NoConversion, Active
<1>8. JobInv'
  <2>1. \A k \in Paths : job'[k].status = "pending" => job'[k].attempts < MaxAttempts
    BY <1>1, <1>2, <1>3, <1>4, Identifiers DEF LibraryInv, JobInv
  <2>2. ASSUME NEW w \in Videos
        PROVE  /\ job'[w].status = "pending" => video'[w].status = "processing"
               /\ job'[w].status = "running" => conv'.video = w
    BY <1>1, <1>2, <1>3, <1>4, Identifiers DEF LibraryInv, JobInv, ConvInv, NoConversion
  <2>3. QED BY <2>1, <2>2 DEF JobInv
<1>9. ReadyHasFile'
  BY <1>1, <1>2, <1>3, <1>4, <1>5 DEF LibraryInv, TypeOK, ConvInv, ReadyHasFile, Ready
<1>10. \A w \in Videos : Exists(w) => Exists(w)'
  BY <1>1, <1>2, <1>3, <1>4, <1>5 DEF LibraryInv, ConvInv, Exists
<1>11. RequestInv' /\ ScheduledExists'
  BY <1>1, <1>2, <1>3, <1>4, <1>5, <1>10, StillThere
<1>12. QED
  BY <1>6, <1>7, <1>8, <1>9, <1>11 DEF LibraryInv

LEMMA RequestAdoptInv ==
  ASSUME LibraryInv, NEW f \in Legacy, RequestAdopt(f)
  PROVE  LibraryInv'
<1>1. UNCHANGED <<video, rows, disk, conv, schedule, requests>>
  BY DEF RequestAdopt
<1>2. left' \in 0..MaxEvents
  BY LibraryAssumption DEF RequestAdopt, Event, LibraryInv, TypeOK
<1>3. /\ job' \in [Paths -> Jobs]
      /\ \A p \in Paths \ {f} : job'[p] = job[p]
      /\ \/ job'[f] = job[f]
         \/ job'[f].status = "pending" /\ job'[f].attempts = 0
  BY Identifiers, Enqueued DEF RequestAdopt, LibraryInv, TypeOK
<1>4. TypeOK'
  BY <1>1, <1>2, <1>3 DEF LibraryInv, TypeOK, Disks
<1>5. ConvInv'
  BY <1>1, <1>2, <1>3, Identifiers
     DEF LibraryInv, TypeOK, Conversions, ConvInv, JobInv, NoConversion, Active
<1>6. JobInv'
  BY <1>1, <1>2, <1>3, Identifiers
     DEF LibraryInv, TypeOK, Conversions, Jobs, ConvInv, JobInv, NoConversion, Active
<1>7. ReadyHasFile'
  BY <1>1, <1>2, <1>3 DEF LibraryInv, TypeOK, ConvInv, ReadyHasFile, Ready
<1>8. \A w \in Videos : Exists(w) => Exists(w)'
  BY <1>1, <1>2, <1>3 DEF LibraryInv, ConvInv, Exists
<1>9. RequestInv' /\ ScheduledExists'
  BY <1>1, <1>2, <1>3, <1>8, StillThere
<1>10. QED
  BY <1>4, <1>5, <1>6, <1>7, <1>9 DEF LibraryInv

LEMMA ForgetRowInv ==
  ASSUME LibraryInv, NEW f \in Legacy, ForgetRow(f)
  PROVE  LibraryInv'
<1>1. UNCHANGED <<video, disk, job, conv, schedule, requests>>
  BY DEF ForgetRow
<1>2. left' \in 0..MaxEvents
  BY LibraryAssumption DEF ForgetRow, Event, LibraryInv, TypeOK
<1>3. rows' \in [Legacy -> [known : BOOLEAN, again : BOOLEAN]]
  BY DEF ForgetRow, LibraryInv, TypeOK
<1>4. TypeOK'
  BY <1>1, <1>2, <1>3 DEF LibraryInv, TypeOK, Disks
<1>5. ConvInv'
  BY <1>1, <1>2, <1>3, Identifiers
     DEF LibraryInv, TypeOK, Conversions, ConvInv, JobInv, NoConversion, Active
<1>6. JobInv'
  BY <1>1, <1>2, <1>3, Identifiers
     DEF LibraryInv, TypeOK, Conversions, Jobs, ConvInv, JobInv, NoConversion, Active
<1>7. ReadyHasFile'
  BY <1>1, <1>2, <1>3 DEF LibraryInv, TypeOK, ConvInv, ReadyHasFile, Ready
<1>8. \A w \in Videos : Exists(w) => Exists(w)'
  BY <1>1, <1>2, <1>3 DEF LibraryInv, ConvInv, Exists
<1>9. RequestInv' /\ ScheduledExists'
  BY <1>1, <1>2, <1>3, <1>8, StillThere
<1>10. QED
  BY <1>4, <1>5, <1>6, <1>7, <1>9 DEF LibraryInv

LEMMA ListRowInv ==
  ASSUME LibraryInv, NEW f \in Legacy, ListRow(f)
  PROVE  LibraryInv'
<1>1. UNCHANGED <<video, disk, job, conv, schedule, requests, left>>
  BY DEF ListRow
<1>2. rows' \in [Legacy -> [known : BOOLEAN, again : BOOLEAN]]
  BY DEF ListRow, LibraryInv, TypeOK
<1>3. TypeOK'
  BY <1>1, <1>2 DEF LibraryInv, TypeOK, Disks
<1>4. ConvInv'
  BY <1>1, <1>2, Identifiers
     DEF LibraryInv, TypeOK, Conversions, ConvInv, JobInv, NoConversion, Active
<1>5. JobInv'
  BY <1>1, <1>2, Identifiers
     DEF LibraryInv, TypeOK, Conversions, Jobs, ConvInv, JobInv, NoConversion, Active
<1>6. ReadyHasFile'
  BY <1>1, <1>2 DEF LibraryInv, TypeOK, ConvInv, ReadyHasFile, Ready
<1>7. \A w \in Videos : Exists(w) => Exists(w)'
  BY <1>1, <1>2 DEF LibraryInv, ConvInv, Exists
<1>8. RequestInv' /\ ScheduledExists'
  BY <1>1, <1>2, <1>7, StillThere
<1>9. QED
  BY <1>3, <1>4, <1>5, <1>6, <1>8 DEF LibraryInv

LEMMA BeginAdoptInv ==
  ASSUME LibraryInv, NEW f \in Legacy, BeginAdopt(f)
  PROVE  LibraryInv'
<1>1. UNCHANGED <<video, conv, schedule, requests, left>>
  BY DEF BeginAdopt
<1>2. PICK status \in {"running", "failed"} :
        job' = [job EXCEPT ![f] = [status |-> status, attempts |-> job[f].attempts + 1]]
  BY DEF BeginAdopt
<1>3. [status |-> status, attempts |-> job[f].attempts + 1] \in Jobs
  <2>1. job[f].attempts \in 0..MaxAttempts /\ job[f].attempts < MaxAttempts
    BY Identifiers DEF BeginAdopt, LibraryInv, TypeOK, Jobs, JobInv
  <2>2. job[f].attempts + 1 \in 0..MaxAttempts
    BY <2>1, Identifiers
  <2>3. QED BY <2>2 DEF Jobs, Active
<1>4. /\ job' \in [Paths -> Jobs]
      /\ \A p \in Paths \ {f} : job'[p] = job[p]
      /\ job'[f].status # "pending"
  BY <1>2, <1>3, Identifiers DEF LibraryInv, TypeOK
<1>5. disk' \in Disks /\ disk'.media = disk.media /\ disk'.removed = disk.removed
  <2>1. disk \in Disks /\ f \in Paths
    BY Identifiers DEF LibraryInv, TypeOK, Disks
  <2>2. disk' = disk \/ disk' = [disk EXCEPT !.originals[f] = "partial"]
    BY DEF BeginAdopt
  <2>3. LET new == [disk EXCEPT !.originals[f] = "partial"]
        IN  new \in Disks /\ new.media = disk.media /\ new.removed = disk.removed
    BY <2>1, OriginalChanged
  <2>4. QED BY <2>1, <2>2, <2>3
<1>6. rows' \in [Legacy -> [known : BOOLEAN, again : BOOLEAN]]
  <2>1. PICK again \in BOOLEAN : rows' = rows \/ rows' = [rows EXCEPT ![f].again = again]
    BY DEF BeginAdopt
  <2>2. [rows[f] EXCEPT !.again = again] \in [known : BOOLEAN, again : BOOLEAN]
    BY DEF LibraryInv, TypeOK
  <2>3. QED BY <2>1, <2>2 DEF LibraryInv, TypeOK
<1>7. TypeOK'
  BY <1>1, <1>2, <1>3, <1>4, <1>5, <1>6 DEF LibraryInv, TypeOK, Disks
<1>8. ConvInv'
  BY <1>1, <1>2, <1>3, <1>4, <1>5, <1>6, Identifiers
     DEF LibraryInv, TypeOK, Conversions, ConvInv, JobInv, NoConversion, Active
<1>9. JobInv'
  <2>1. \A k \in Paths : job'[k].status = "pending" => job'[k].attempts < MaxAttempts
    BY <1>1, <1>4, Identifiers DEF LibraryInv, JobInv
  <2>2. ASSUME NEW w \in Videos
        PROVE  /\ job'[w].status = "pending" => video'[w].status = "processing"
               /\ job'[w].status = "running" => conv'.video = w
    BY <1>1, <1>4, Identifiers DEF LibraryInv, JobInv, ConvInv, NoConversion
  <2>3. QED BY <2>1, <2>2 DEF JobInv
<1>10. ReadyHasFile'
  BY <1>1, <1>2, <1>3, <1>4, <1>5, <1>6 DEF LibraryInv, TypeOK, ConvInv, ReadyHasFile, Ready
<1>11. \A w \in Videos : Exists(w) => Exists(w)'
  BY <1>1, <1>2, <1>3, <1>4, <1>5, <1>6 DEF LibraryInv, ConvInv, Exists
<1>12. RequestInv' /\ ScheduledExists'
  BY <1>1, <1>2, <1>3, <1>4, <1>5, <1>6, <1>11, StillThere
<1>13. QED
  BY <1>7, <1>8, <1>9, <1>10, <1>12 DEF LibraryInv

LEMMA AdoptFailsInv ==
  ASSUME LibraryInv, NEW f \in Legacy, AdoptFails(f)
  PROVE  LibraryInv'
<1>1. UNCHANGED <<video, rows, conv, schedule, requests>>
  BY DEF AdoptFails
<1>2. left' \in 0..MaxEvents
  BY LibraryAssumption DEF AdoptFails, Event, LibraryInv, TypeOK
<1>3. /\ job' \in [Paths -> Jobs]
      /\ \A p \in Paths \ {f} : job'[p] = job[p]
      /\ job'[f].status = "failed"
  BY Identifiers, JobEnded DEF AdoptFails, LibraryInv, TypeOK
<1>4. disk' \in Disks /\ disk'.media = disk.media /\ disk'.removed = disk.removed
  BY Identifiers, OriginalChanged DEF AdoptFails, LibraryInv, TypeOK, Disks
<1>5. TypeOK'
  BY <1>1, <1>2, <1>3, <1>4 DEF LibraryInv, TypeOK, Disks
<1>6. ConvInv'
  BY <1>1, <1>2, <1>3, <1>4, Identifiers
     DEF LibraryInv, TypeOK, Conversions, ConvInv, JobInv, NoConversion, Active
<1>7. JobInv'
  BY <1>1, <1>2, <1>3, <1>4, Identifiers
     DEF LibraryInv, TypeOK, Conversions, Jobs, ConvInv, JobInv, NoConversion, Active
<1>8. ReadyHasFile'
  BY <1>1, <1>2, <1>3, <1>4 DEF LibraryInv, TypeOK, ConvInv, ReadyHasFile, Ready
<1>9. \A w \in Videos : Exists(w) => Exists(w)'
  BY <1>1, <1>2, <1>3, <1>4 DEF LibraryInv, ConvInv, Exists
<1>10. RequestInv' /\ ScheduledExists'
  BY <1>1, <1>2, <1>3, <1>4, <1>9, StillThere
<1>11. QED
  BY <1>5, <1>6, <1>7, <1>8, <1>10 DEF LibraryInv

LEMMA AdoptCrashesInv ==
  ASSUME LibraryInv, NEW f \in Legacy, AdoptCrashes(f)
  PROVE  LibraryInv'
<1>1. UNCHANGED <<video, rows, conv, schedule, requests>>
  BY DEF AdoptCrashes
<1>2. left' \in 0..MaxEvents
  BY LibraryAssumption DEF AdoptCrashes, Event, LibraryInv, TypeOK
<1>3. /\ job' \in [Paths -> Jobs]
      /\ \A p \in Paths \ {f} : job'[p] = job[p]
      /\ job'[f].status = "crashed"
  BY Identifiers, JobEnded DEF AdoptCrashes, LibraryInv, TypeOK
<1>4. disk' \in Disks /\ disk'.media = disk.media /\ disk'.removed = disk.removed
  <2>1. disk \in Disks /\ f \in Paths
    BY Identifiers DEF LibraryInv, TypeOK, Disks
  <2>2. \/ disk' = disk
        \/ disk' = Downloaded(f)
        \/ disk' = [disk EXCEPT !.originals[f] = "absent"]
    BY DEF AdoptCrashes
  <2>3. LET new == [disk EXCEPT !.originals[f] = "absent"]
        IN  new \in Disks /\ new.media = disk.media /\ new.removed = disk.removed
    BY <2>1, OriginalChanged
  <2>4. /\ Downloaded(f) \in Disks
        /\ Downloaded(f).media = disk.media
        /\ Downloaded(f).removed = disk.removed
    BY <2>1, DownloadedIs
  <2>5. QED BY <2>1, <2>2, <2>3, <2>4
<1>5. TypeOK'
  BY <1>1, <1>2, <1>3, <1>4 DEF LibraryInv, TypeOK, Disks
<1>6. ConvInv'
  BY <1>1, <1>2, <1>3, <1>4, Identifiers
     DEF LibraryInv, TypeOK, Conversions, ConvInv, JobInv, NoConversion, Active
<1>7. JobInv'
  BY <1>1, <1>2, <1>3, <1>4, Identifiers
     DEF LibraryInv, TypeOK, Conversions, Jobs, ConvInv, JobInv, NoConversion, Active
<1>8. ReadyHasFile'
  BY <1>1, <1>2, <1>3, <1>4 DEF LibraryInv, TypeOK, ConvInv, ReadyHasFile, Ready
<1>9. \A w \in Videos : Exists(w) => Exists(w)'
  BY <1>1, <1>2, <1>3, <1>4 DEF LibraryInv, ConvInv, Exists
<1>10. RequestInv' /\ ScheduledExists'
  BY <1>1, <1>2, <1>3, <1>4, <1>9, StillThere
<1>11. QED
  BY <1>5, <1>6, <1>7, <1>8, <1>10 DEF LibraryInv

LEMMA FinishAdoptInv ==
  ASSUME LibraryInv, NEW f \in Legacy, NEW v \in Videos, FinishAdopt(f, v)
  PROVE  LibraryInv'
<1>1. UNCHANGED <<rows, conv, schedule, requests, left>>
  BY DEF FinishAdopt
<1>2. video[v].status = "none"
  BY DEF FinishAdopt, Fresh, Unused
<1>3. /\ video' \in [Videos -> Rows]
      /\ \A w \in Videos \ {v} : video'[w] = video[w]
      /\ video'[v].status = "processing"
      /\ video'[v].deleted = video[v].deleted
  BY Identifiers, RowBegun DEF FinishAdopt, LibraryInv, TypeOK
<1>4. /\ Ends(f, "done") \in [Paths -> Jobs]
      /\ \A p \in Paths \ {f} : Ends(f, "done")[p] = job[p]
      /\ Ends(f, "done")[f].status = "done"
  BY Identifiers, JobEnded DEF LibraryInv, TypeOK
<1>5. /\ job' \in [Paths -> Jobs]
      /\ \A p \in Paths \ {f, v} : job'[p] = job[p]
      /\ job'[f].status = "done"
      /\ \/ job'[v] = job[v]
         \/ job'[v].status = "pending" /\ job'[v].attempts = 0
  BY <1>4, Identifiers, Enqueued DEF FinishAdopt
<1>6. disk' \in Disks /\ disk'.media = disk.media /\ disk'.removed = disk.removed
  BY Identifiers, DownloadedIs DEF FinishAdopt, LibraryInv, TypeOK, Disks
<1>7. TypeOK'
  BY <1>1, <1>2, <1>3, <1>4, <1>5, <1>6 DEF LibraryInv, TypeOK, Disks
<1>8. ConvInv'
  BY <1>1, <1>2, <1>3, <1>4, <1>5, <1>6, Identifiers
     DEF LibraryInv, TypeOK, Conversions, ConvInv, JobInv, NoConversion, Active
<1>9. JobInv'
  <2>1. \A k \in Paths : job'[k].status = "pending" => job'[k].attempts < MaxAttempts
    BY <1>1, <1>2, <1>3, <1>5, Identifiers DEF LibraryInv, JobInv
  <2>2. ASSUME NEW w \in Videos
        PROVE  /\ job'[w].status = "pending" => video'[w].status = "processing"
               /\ job'[w].status = "running" => conv'.video = w
    BY <1>1, <1>2, <1>3, <1>5, Identifiers DEF LibraryInv, JobInv, ConvInv, NoConversion
  <2>3. QED BY <2>1, <2>2 DEF JobInv
<1>10. ReadyHasFile'
  BY <1>1, <1>2, <1>3, <1>4, <1>5, <1>6 DEF LibraryInv, TypeOK, ConvInv, ReadyHasFile, Ready
<1>11. \A w \in Videos : Exists(w) => Exists(w)'
  BY <1>1, <1>2, <1>3, <1>4, <1>5, <1>6 DEF LibraryInv, ConvInv, Exists
<1>12. RequestInv' /\ ScheduledExists'
  BY <1>1, <1>2, <1>3, <1>4, <1>5, <1>6, <1>11, StillThere
<1>13. QED
  BY <1>7, <1>8, <1>9, <1>10, <1>12 DEF LibraryInv

LEMMA BeginInv ==
  ASSUME LibraryInv, NEW v \in Videos, Begin(v)
  PROVE  LibraryInv'
<1>1. UNCHANGED <<rows, disk, schedule, requests, left>>
  BY DEF Begin
<1>2. /\ conv = NoConversion
      /\ conv' = IF video[v].deleted THEN conv
                 ELSE [video |-> v, step |-> "reading", media |-> None, before |-> None]
  BY DEF Begin, NoConversion
<1>3. conv' \in Conversions
  BY <1>2 DEF Conversions, LibraryInv, TypeOK
<1>4. video[v].status = "processing"
  BY DEF Begin, LibraryInv, JobInv
<1>5. /\ video' \in [Videos -> Rows]
      /\ \A w \in Videos \ {v} : video'[w] = video[w]
      /\ video'[v].status = "processing"
      /\ video'[v].deleted = video[v].deleted
      /\ video'[v].media = video[v].media
  BY <1>4, StatusChanged DEF Begin, Statuses, LibraryInv, TypeOK
<1>6. PICK status \in {"running", "failed"} :
        /\ job' = [job EXCEPT ![v] = [status |-> status, attempts |-> job[v].attempts + 1]]
        /\ status = IF video[v].deleted THEN "failed" ELSE "running"
  BY DEF Begin
<1>7. [status |-> status, attempts |-> job[v].attempts + 1] \in Jobs
  <2>1. job[v].attempts \in 0..MaxAttempts /\ job[v].attempts < MaxAttempts
    BY Identifiers DEF Begin, LibraryInv, TypeOK, Jobs, JobInv
  <2>2. job[v].attempts + 1 \in 0..MaxAttempts
    BY <2>1, Identifiers
  <2>3. QED BY <2>2 DEF Jobs, Active
<1>8. /\ job' \in [Paths -> Jobs]
      /\ \A p \in Paths \ {v} : job'[p] = job[p]
      /\ job'[v].status = IF video[v].deleted THEN "failed" ELSE "running"
  BY <1>6, <1>7, Identifiers DEF LibraryInv, TypeOK
<1>9. TypeOK'
  BY <1>1, <1>2, <1>3, <1>4, <1>5, <1>6, <1>7, <1>8 DEF LibraryInv, TypeOK, Disks
<1>10. ConvInv'
  BY <1>1, <1>2, <1>3, <1>4, <1>5, <1>6, <1>7, <1>8, Identifiers
     DEF LibraryInv, TypeOK, Conversions, ConvInv, JobInv, NoConversion, Active
<1>11. JobInv'
  <2>1. \A k \in Paths : job'[k].status = "pending" => job'[k].attempts < MaxAttempts
    BY <1>2, <1>5, <1>8, Identifiers DEF LibraryInv, JobInv
  <2>2. ASSUME NEW w \in Videos
        PROVE  /\ job'[w].status = "pending" => video'[w].status = "processing"
               /\ job'[w].status = "running" => conv'.video = w
    BY <1>2, <1>5, <1>8, Identifiers DEF LibraryInv, JobInv, ConvInv, NoConversion
  <2>3. QED BY <2>1, <2>2 DEF JobInv
<1>12. ReadyHasFile'
  BY <1>1, <1>2, <1>3, <1>4, <1>5, <1>6, <1>7, <1>8
     DEF LibraryInv, TypeOK, ConvInv, ReadyHasFile, Ready
<1>13. \A w \in Videos : Exists(w) => Exists(w)'
  BY <1>1, <1>2, <1>3, <1>4, <1>5, <1>6, <1>7, <1>8 DEF LibraryInv, ConvInv, Exists
<1>14. RequestInv' /\ ScheduledExists'
  BY <1>1, <1>2, <1>3, <1>4, <1>5, <1>6, <1>7, <1>8, <1>13, StillThere
<1>15. QED
  BY <1>9, <1>10, <1>11, <1>12, <1>14 DEF LibraryInv

LEMMA StartEncodingInv ==
  ASSUME LibraryInv, StartEncoding
  PROVE  LibraryInv'
<1>1. UNCHANGED <<video, rows, disk, job, schedule, requests, left>>
  BY DEF StartEncoding
<1>2. conv # NoConversion
  BY DEF StartEncoding, NoConversion
<1>3. /\ conv' \in Conversions
      /\ conv'.video = conv.video
      /\ conv'.step = "encoding"
  BY DEF StartEncoding, Conversions, LibraryInv, TypeOK
<1>4. TypeOK'
  BY <1>1, <1>2, <1>3 DEF LibraryInv, TypeOK, Disks
<1>5. ConvInv'
  BY <1>1, <1>2, <1>3, Identifiers
     DEF LibraryInv, TypeOK, Conversions, ConvInv, JobInv, NoConversion, Active
<1>6. JobInv'
  BY <1>1, <1>2, <1>3, Identifiers
     DEF LibraryInv, TypeOK, Conversions, Jobs, ConvInv, JobInv, NoConversion, Active
<1>7. ReadyHasFile'
  BY <1>1, <1>2, <1>3 DEF LibraryInv, TypeOK, ConvInv, ReadyHasFile, Ready
<1>8. \A w \in Videos : Exists(w) => Exists(w)'
  BY <1>1, <1>2, <1>3 DEF LibraryInv, ConvInv, Exists
<1>9. RequestInv' /\ ScheduledExists'
  BY <1>1, <1>2, <1>3, <1>8, StillThere
<1>10. QED
  BY <1>4, <1>5, <1>6, <1>7, <1>9 DEF LibraryInv

LEMMA PlaceInv ==
  ASSUME LibraryInv, NEW e \in Encodings, Place(e)
  PROVE  LibraryInv'
<1>1. UNCHANGED <<video, rows, job, schedule, requests, left>>
  BY DEF Place
<1>2. /\ conv # NoConversion
      /\ conv.video \in Videos
      /\ video[conv.video].status = "processing"
  BY DEF Place, NoConversion, LibraryInv, ConvInv
<1>3. video[conv.video].media \in Encodings \cup {None}
  BY <1>2 DEF LibraryInv, TypeOK, Rows
<1>4. /\ conv' \in Conversions
      /\ conv'.video = conv.video
      /\ conv'.step = "placed"
      /\ conv'.before = video[conv.video].media
  BY <1>3 DEF Place, Conversions, LibraryInv, TypeOK
<1>5. /\ disk' \in Disks
      /\ disk'.media = (disk.media \ {<<conv.video, video[conv.video].media>>})
                        \cup {<<conv.video, e>>}
      /\ disk'.removed = disk.removed
  <2> DEFINE files == (disk.media \ {<<conv.video, video[conv.video].media>>})
                        \cup {<<conv.video, e>>}
  <2>1. disk \in Disks /\ files \in SUBSET (Videos \X Encodings)
    BY <1>2 DEF LibraryInv, TypeOK, Disks
  <2>2. disk' = [disk EXCEPT !.media = files]
    BY DEF Place
  <2> HIDE DEF files
  <2>3. disk' \in Disks /\ disk'.media = files /\ disk'.removed = disk.removed
    BY <2>1, <2>2 DEF Disks
  <2>4. QED BY <2>3 DEF files
<1>6. TypeOK'
  BY <1>1, <1>2, <1>3, <1>4, <1>5 DEF LibraryInv, TypeOK, Disks
<1>7. ConvInv'
  BY <1>1, <1>2, <1>3, <1>4, <1>5, Identifiers
     DEF LibraryInv, TypeOK, Conversions, ConvInv, JobInv, NoConversion, Active
<1>8. JobInv'
  BY <1>1, <1>2, <1>3, <1>4, <1>5, Identifiers
     DEF LibraryInv, TypeOK, Conversions, Jobs, ConvInv, JobInv, NoConversion, Active
<1>9. ReadyHasFile'
  BY <1>1, <1>2, <1>3, <1>4, <1>5 DEF LibraryInv, TypeOK, ConvInv, ReadyHasFile, Ready
<1>10. \A w \in Videos : Exists(w) => Exists(w)'
  BY <1>1, <1>2, <1>3, <1>4, <1>5 DEF LibraryInv, ConvInv, Exists
<1>11. RequestInv' /\ ScheduledExists'
  BY <1>1, <1>2, <1>3, <1>4, <1>5, <1>10, StillThere
<1>12. QED
  BY <1>6, <1>7, <1>8, <1>9, <1>11 DEF LibraryInv

LEMMA RecordInv ==
  ASSUME LibraryInv, Record
  PROVE  LibraryInv'
<1>1. UNCHANGED <<rows, disk, schedule, requests, left>>
  BY DEF Record
<1>2. /\ conv # NoConversion
      /\ conv.video \in Videos
      /\ video[conv.video].status = "processing"
      /\ <<conv.video, conv.media>> \in disk.media
      /\ video[conv.video].media = conv.before \/ video[conv.video].deleted
  BY DEF Record, NoConversion, LibraryInv, ConvInv
<1>3. PICK media \in Encodings \cup {None} :
        /\ video' = [video EXCEPT ![conv.video].status = "ready", ![conv.video].media = media]
        /\ media = IF conv.before = conv.media THEN video[conv.video].media ELSE conv.media
  BY <1>2 DEF Record, LibraryInv, TypeOK, Conversions, Rows
<1>4. /\ video' \in [Videos -> Rows]
      /\ \A w \in Videos \ {conv.video} : video'[w] = video[w]
      /\ video'[conv.video].status = "ready"
      /\ video'[conv.video].deleted = video[conv.video].deleted
      /\ video'[conv.video].media = media
  BY <1>2, <1>3, RowReady, ZenonT(40) DEF LibraryInv, TypeOK
<1>5. /\ job' \in [Paths -> Jobs]
      /\ \A p \in Paths \ {conv.video} : job'[p] = job[p]
      /\ job'[conv.video].status = "done"
  BY <1>2, Identifiers, JobEnded DEF Record, LibraryInv, TypeOK
<1>6. conv' = NoConversion /\ conv' \in Conversions
  BY DEF Record, NoConversion, Conversions
<1>7. TypeOK'
  BY <1>1, <1>2, <1>3, <1>4, <1>5, <1>6 DEF LibraryInv, TypeOK, Disks
<1>8. ConvInv'
  BY <1>1, <1>2, <1>3, <1>4, <1>5, <1>6, Identifiers
     DEF LibraryInv, TypeOK, Conversions, ConvInv, JobInv, NoConversion, Active
<1>9. JobInv'
  <2>1. \A k \in Paths : job'[k].status = "pending" => job'[k].attempts < MaxAttempts
    BY <1>2, <1>4, <1>5, <1>6, Identifiers DEF LibraryInv, JobInv
  <2>2. ASSUME NEW w \in Videos
        PROVE  /\ job'[w].status = "pending" => video'[w].status = "processing"
               /\ job'[w].status = "running" => conv'.video = w
    BY <1>2, <1>4, <1>5, <1>6, Identifiers DEF LibraryInv, JobInv, ConvInv, NoConversion
  <2>3. QED BY <2>1, <2>2 DEF JobInv
<1>10. ReadyHasFile'
  <2>1. ASSUME ~ video[conv.video].deleted
        PROVE  <<conv.video, media>> \in disk.media
    BY <1>2, <1>3, <2>1
  <2>2. ASSUME NEW w \in Videos \ {conv.video}, Ready(w)', <<w, "media">> \notin disk'.removed
        PROVE  <<w, video'[w].media>> \in disk'.media
    BY <1>1, <1>4, <2>2 DEF LibraryInv, ReadyHasFile, Ready
  <2>3. ASSUME NEW w \in Videos, w = conv.video, Ready(w)'
        PROVE  <<w, video'[w].media>> \in disk'.media
    BY <1>1, <1>4, <2>1, <2>3 DEF Ready
  <2>4. QED BY <1>2, <2>2, <2>3 DEF ReadyHasFile
<1>11. \A w \in Videos : Exists(w) => Exists(w)'
  BY <1>1, <1>2, <1>3, <1>4, <1>5, <1>6 DEF LibraryInv, ConvInv, Exists
<1>12. RequestInv' /\ ScheduledExists'
  BY <1>1, <1>2, <1>3, <1>4, <1>5, <1>6, <1>11, StillThere
<1>13. QED
  BY <1>7, <1>8, <1>9, <1>10, <1>12 DEF LibraryInv

LEMMA ConversionFailsInv ==
  ASSUME LibraryInv, ConversionFails
  PROVE  LibraryInv'
<1>1. UNCHANGED <<rows, disk, schedule, requests>>
  BY DEF ConversionFails
<1>2. left' \in 0..MaxEvents
  BY LibraryAssumption DEF ConversionFails, Event, LibraryInv, TypeOK
<1>3. /\ conv # NoConversion
      /\ conv.video \in Videos
      /\ video[conv.video].status = "processing"
  BY DEF ConversionFails, NoConversion, LibraryInv, ConvInv
<1>4. /\ video' \in [Videos -> Rows]
      /\ \A w \in Videos \ {conv.video} : video'[w] = video[w]
      /\ video'[conv.video].status = "failed"
      /\ video'[conv.video].deleted = video[conv.video].deleted
      /\ video'[conv.video].media = video[conv.video].media
  BY <1>3, StatusChanged DEF ConversionFails, Statuses, LibraryInv, TypeOK
<1>5. /\ job' \in [Paths -> Jobs]
      /\ \A p \in Paths \ {conv.video} : job'[p] = job[p]
      /\ job'[conv.video].status = "failed"
  BY <1>3, Identifiers, JobEnded DEF ConversionFails, LibraryInv, TypeOK
<1>6. conv' = NoConversion /\ conv' \in Conversions
  BY DEF ConversionFails, NoConversion, Conversions
<1>7. TypeOK'
  BY <1>1, <1>2, <1>3, <1>4, <1>5, <1>6 DEF LibraryInv, TypeOK, Disks
<1>8. ConvInv'
  BY <1>1, <1>2, <1>3, <1>4, <1>5, <1>6, Identifiers
     DEF LibraryInv, TypeOK, Conversions, ConvInv, JobInv, NoConversion, Active
<1>9. JobInv'
  <2>1. \A k \in Paths : job'[k].status = "pending" => job'[k].attempts < MaxAttempts
    BY <1>3, <1>4, <1>5, <1>6, Identifiers DEF LibraryInv, JobInv
  <2>2. ASSUME NEW w \in Videos
        PROVE  /\ job'[w].status = "pending" => video'[w].status = "processing"
               /\ job'[w].status = "running" => conv'.video = w
    BY <1>3, <1>4, <1>5, <1>6, Identifiers DEF LibraryInv, JobInv, ConvInv, NoConversion
  <2>3. QED BY <2>1, <2>2 DEF JobInv
<1>10. ReadyHasFile'
  BY <1>1, <1>2, <1>3, <1>4, <1>5, <1>6 DEF LibraryInv, TypeOK, ConvInv, ReadyHasFile, Ready
<1>11. \A w \in Videos : Exists(w) => Exists(w)'
  BY <1>1, <1>2, <1>3, <1>4, <1>5, <1>6 DEF LibraryInv, ConvInv, Exists
<1>12. RequestInv' /\ ScheduledExists'
  BY <1>1, <1>2, <1>3, <1>4, <1>5, <1>6, <1>11, StillThere
<1>13. QED
  BY <1>7, <1>8, <1>9, <1>10, <1>12 DEF LibraryInv

LEMMA CrashesInv ==
  ASSUME LibraryInv, Crashes
  PROVE  LibraryInv'
<1>1. UNCHANGED <<video, rows, disk, schedule, requests>>
  BY DEF Crashes
<1>2. left' \in 0..MaxEvents
  BY LibraryAssumption DEF Crashes, Event, LibraryInv, TypeOK
<1>3. /\ conv # NoConversion
      /\ conv.video \in Videos
      /\ video[conv.video].status = "processing"
  BY DEF Crashes, LibraryInv, ConvInv
<1>4. /\ job' \in [Paths -> Jobs]
      /\ \A p \in Paths \ {conv.video} : job'[p] = job[p]
      /\ job'[conv.video].status = "crashed"
  BY <1>3, Identifiers, JobEnded DEF Crashes, LibraryInv, TypeOK
<1>5. conv' = NoConversion /\ conv' \in Conversions
  BY DEF Crashes, NoConversion, Conversions
<1>6. TypeOK'
  BY <1>1, <1>2, <1>3, <1>4, <1>5 DEF LibraryInv, TypeOK, Disks
<1>7. ConvInv'
  BY <1>1, <1>2, <1>3, <1>4, <1>5, Identifiers
     DEF LibraryInv, TypeOK, Conversions, ConvInv, JobInv, NoConversion, Active
<1>8. JobInv'
  <2>1. \A k \in Paths : job'[k].status = "pending" => job'[k].attempts < MaxAttempts
    BY <1>1, <1>3, <1>4, <1>5, Identifiers DEF LibraryInv, JobInv
  <2>2. ASSUME NEW w \in Videos
        PROVE  /\ job'[w].status = "pending" => video'[w].status = "processing"
               /\ job'[w].status = "running" => conv'.video = w
    BY <1>1, <1>3, <1>4, <1>5, Identifiers DEF LibraryInv, JobInv, ConvInv, NoConversion
  <2>3. QED BY <2>1, <2>2 DEF JobInv
<1>9. ReadyHasFile'
  BY <1>1, <1>2, <1>3, <1>4, <1>5 DEF LibraryInv, TypeOK, ConvInv, ReadyHasFile, Ready
<1>10. \A w \in Videos : Exists(w) => Exists(w)'
  BY <1>1, <1>2, <1>3, <1>4, <1>5 DEF LibraryInv, ConvInv, Exists
<1>11. RequestInv' /\ ScheduledExists'
  BY <1>1, <1>2, <1>3, <1>4, <1>5, <1>10, StillThere
<1>12. QED
  BY <1>6, <1>7, <1>8, <1>9, <1>11 DEF LibraryInv

LEMMA RestartInv ==
  ASSUME LibraryInv, Restart
  PROVE  LibraryInv'
<1>1. UNCHANGED <<video, rows, disk, schedule, requests>>
  BY DEF Restart
<1>2. left' \in 0..MaxEvents
  BY LibraryAssumption DEF Restart, Event, LibraryInv, TypeOK
<1>3. \A k \in Paths :
        /\ Recover(job[k]) \in Jobs
        /\ Recover(job[k]).attempts = job[k].attempts
        /\ Recover(job[k]).status = IF job[k].attempts < MaxAttempts THEN "pending" ELSE "given up"
  <2>1. SUFFICES ASSUME NEW j \in Jobs
                 PROVE  /\ Recover(j) \in Jobs
                        /\ Recover(j).attempts = j.attempts
                        /\ Recover(j).status = IF j.attempts < MaxAttempts THEN "pending" ELSE "given up"
    BY DEF LibraryInv, TypeOK
  <2>2. PICK status \in {"pending", "given up"} :
          /\ Recover(j) = [j EXCEPT !.status = status]
          /\ status = IF j.attempts < MaxAttempts THEN "pending" ELSE "given up"
    BY DEF Recover
  <2>3. QED BY <2>2 DEF Jobs, Active
<1>4. job' \in [Paths -> Jobs]
  BY <1>3 DEF Restart, LibraryInv, TypeOK
<1>5. \A k \in Paths :
        \/ job'[k] = job[k] /\ job[k].status # "running"
        \/ /\ job[k].status = "running"
           /\ job'[k].status # "running"
           /\ job'[k].status = "pending" => job'[k].attempts < MaxAttempts
  BY <1>3 DEF Restart
<1>6. conv' = NoConversion /\ conv' \in Conversions
  BY DEF Restart, NoConversion, Conversions
<1>7. \A v \in Videos : v \in Paths /\ (job[v].status = "running" => video[v].status = "processing")
  BY Identifiers DEF LibraryInv, JobInv, ConvInv, NoConversion
<1>8. TypeOK'
  BY <1>1, <1>2, <1>3, <1>4, <1>5, <1>6, <1>7 DEF LibraryInv, TypeOK, Disks
<1>9. ConvInv'
  BY <1>1, <1>2, <1>3, <1>4, <1>5, <1>6, <1>7, Identifiers
     DEF LibraryInv, TypeOK, Conversions, ConvInv, JobInv, NoConversion, Active
<1>10. JobInv'
  BY <1>1, <1>2, <1>3, <1>4, <1>5, <1>6, <1>7, Identifiers, ZenonT(40)
     DEF LibraryInv, TypeOK, Conversions, Jobs, ConvInv, JobInv, NoConversion, Active
<1>11. ReadyHasFile'
  BY <1>1, <1>2, <1>3, <1>4, <1>5, <1>6, <1>7 DEF LibraryInv, TypeOK, ConvInv, ReadyHasFile, Ready
<1>12. \A w \in Videos : Exists(w) => Exists(w)'
  BY <1>1, <1>2, <1>3, <1>4, <1>5, <1>6, <1>7 DEF LibraryInv, ConvInv, Exists
<1>13. RequestInv' /\ ScheduledExists'
  BY <1>1, <1>2, <1>3, <1>4, <1>5, <1>6, <1>7, <1>12, StillThere
<1>14. QED
  BY <1>8, <1>9, <1>10, <1>11, <1>13 DEF LibraryInv

-----------------------------------------------------------------------------
(* The steps that change the requests or the schedule.                     *)
LEMMA Removed ==
  ASSUME requests \in Seq(Requests), NEW i \in DOMAIN requests,
         requests' = RemoveAt(requests, i)
  PROVE  requests' \in Seq(Requests) /\ Range(requests)' \subseteq Range(requests)
<1> DEFINE before == SubSeq(requests, 1, i - 1)
           after  == SubSeq(requests, i + 1, Len(requests))
<1>1. Len(requests) \in Nat /\ DOMAIN requests = 1..Len(requests) /\ i \in 1..Len(requests)
  OBVIOUS
<1>2. /\ before \in Seq(Requests)
      /\ Len(before) = i - 1
      /\ \A j \in 1..(i - 1) : before[j] = requests[j]
  BY <1>1
<1>3. /\ after \in Seq(Requests)
      /\ Len(after) = Len(requests) - i
      /\ \A j \in 1..(Len(requests) - i) : after[j] = requests[i + j]
  BY <1>1
<1>4. requests' = before \o after
  BY DEF RemoveAt
<1> HIDE DEF before, after
<1>5. /\ requests' \in Seq(Requests)
      /\ Len(requests') = Len(requests) - 1
      /\ \A j \in 1..(Len(requests) - 1) :
           requests'[j] = IF j < i THEN requests[j] ELSE requests[j + 1]
  <2>1. /\ requests' \in Seq(Requests)
        /\ Len(requests') = Len(before) + Len(after)
        /\ \A j \in 1..(Len(before) + Len(after)) :
             requests'[j] = IF j <= Len(before) THEN before[j] ELSE after[j - Len(before)]
    <3>1. before \in Seq(Requests) /\ after \in Seq(Requests)
      BY <1>2, <1>3
    <3>2. QED BY ONLY <3>1, <1>4, ConcatProperties
  <2>2. Len(before) + Len(after) = Len(requests) - 1
    BY <1>1, <1>2, <1>3
  <2>3. ASSUME NEW j \in 1..(Len(requests) - 1)
        PROVE  requests'[j] = IF j < i THEN requests[j] ELSE requests[j + 1]
    <3>1. CASE j < i
      BY <1>1, <1>2, <2>1, <2>2, <3>1
    <3>2. CASE ~ j < i
      <4>1. j - (i - 1) \in 1..(Len(requests) - i) /\ i + (j - (i - 1)) = j + 1
        BY <1>1, <3>2
      <4>2. requests'[j] = after[j - (i - 1)]
        BY <1>1, <1>2, <2>1, <2>2, <3>2
      <4>3. QED BY <1>3, <3>2, <4>1, <4>2
    <3>3. QED BY <3>1, <3>2
  <2>4. QED BY <2>1, <2>2, <2>3
<1>6. \A j \in 1..(Len(requests) - 1) : requests'[j] \in Range(requests)
  BY <1>1, <1>5 DEF Range
<1>7. DOMAIN requests' = 1..(Len(requests) - 1)
  BY <1>1, <1>5
<1>8. QED BY <1>5, <1>6, <1>7 DEF Range

LEMMA FewerRequests ==
  ASSUME LibraryInv, Range(requests)' \subseteq Range(requests),
         \A v \in Videos : Exists(v) => Exists(v)',
         \A s \in Slots : \/ schedule'[s] = schedule[s]
                          \/ schedule'[s] = None
                          \/ schedule'[s].ended
                          \/ schedule'[s].crossed
  PROVE  RequestInv'
<1>1. Range(requests) \subseteq Requests
  BY UnderWay DEF LibraryInv, TypeOK
<1>2. ASSUME NEW q \in Range(requests)'
      PROVE  /\ q.kind = "retry" => q.failed
             /\ \A d \in Range(requests)' : d.video = q.video
             /\ q.kind = "schedule" /\ ~ q.crossed =>
                  Exists(q.video)' /\ \A d \in Range(requests)' : d.kind # "delete"
  <2>1. q \in Range(requests) /\ q.video \in Videos
    BY <1>1 DEF Requests
  <2>2. QED BY <2>1 DEF LibraryInv, RequestInv
<1>3. ASSUME NEW q \in Range(requests)', q.kind = "delete", NEW s \in Blocking(q.video)'
      PROVE  schedule'[s].crossed
  <2>1. s \in Slots /\ schedule'[s] # None /\ schedule'[s].video = q.video /\ ~ schedule'[s].ended
    BY DEF Blocking
  <2>2. CASE schedule'[s] = schedule[s]
    BY <1>3, <2>1, <2>2 DEF LibraryInv, RequestInv, Blocking
  <2>3. QED BY <2>1, <2>2
<1>4. QED BY <1>2, <1>3 DEF RequestInv

LEMMA CheckedInv ==
  ASSUME LibraryInv, NEW kind \in {"delete", "retry", "schedule"}, NEW v \in Videos,
         NEW s \in Slots \cup {None}, NEW original \in Paths \cup {None},
         NEW media \in Encodings \cup {None},
         Checked(kind, v, s, original, media),
         kind = "retry" => video[v].status = "failed",
         kind = "delete" => Blocking(v) = {},
         kind = "schedule" => Exists(v)
  PROVE  LibraryInv'
<1> DEFINE request == [kind |-> kind, video |-> v, slot |-> s, original |-> original,
                       media |-> media, step |-> "checked", crossed |-> FALSE,
                       failed |-> video[v].status = "failed" /\ kind = "retry"]
           all == Append(requests, request)
           Meets(q) == q.kind = "schedule" /\ \E d \in Range(all) : d.kind = "delete"
           Now(q) == [q EXCEPT !.crossed = q.crossed \/ Meets(q)]
<1>1. /\ UNCHANGED <<video, rows, disk, job, conv, schedule, left>>
      /\ requests' = [i \in DOMAIN all |-> Now(all[i])]
      /\ \A q \in Range(requests) : q.video = v
  BY DEF Checked
<1>2. /\ request \in Requests
      /\ request.kind = kind
      /\ request.video = v
      /\ kind = "retry" => request.failed
  BY DEF Requests
<1>3. /\ all \in Seq(Requests)
      /\ \A i \in DOMAIN all : all[i] = request \/ all[i] \in Range(requests)
  <2> HIDE DEF request
  <2>1. requests \in Seq(Requests)
    BY DEF LibraryInv, TypeOK
  <2>2. QED BY <1>2, <2>1 DEF Range
<1>4. ASSUME NEW q \in Requests
      PROVE  /\ Now(q) \in Requests
             /\ Now(q).kind = q.kind
             /\ Now(q).video = q.video
             /\ Now(q).failed = q.failed
             /\ Now(q).crossed = (q.crossed \/ Meets(q))
  <2>1. (q.crossed \/ Meets(q)) \in BOOLEAN
    BY DEF Requests
  <2> HIDE DEF Meets
  <2>2. QED BY <2>1 DEF Requests
<1> HIDE DEF request, Now
<1>5. \A i \in DOMAIN all : all[i] \in Requests /\ all[i].video = v
  BY <1>1, <1>2, <1>3
<1>6. requests' \in Seq(Requests)
  <2> HIDE DEF all
  <2>1. QED BY <1>1, <1>3, <1>4, <1>5
<1>7. \A q \in Range(requests)' : \E i \in DOMAIN all : q = Now(all[i])
  BY <1>1 DEF Range
<1>8. ASSUME NEW q \in Range(requests)'
      PROVE  /\ q.kind = "retry" => q.failed
             /\ \A d \in Range(requests)' : d.video = q.video
             /\ q.kind = "schedule" /\ ~ q.crossed =>
                  Exists(q.video) /\ \A d \in Range(requests)' : d.kind # "delete"
             /\ q.kind = "delete" => \A b \in Blocking(q.video) : schedule[b].crossed
  <2>1. PICK i \in DOMAIN all : q = Now(all[i])
    BY <1>7
  <2>2. /\ q.kind = all[i].kind
        /\ q.video = v
        /\ q.failed = all[i].failed
        /\ q.crossed = (all[i].crossed \/ Meets(all[i]))
    BY <1>4, <1>5, <2>1
  <2>3. \A d \in Range(requests)' : d.video = v /\ \E j \in DOMAIN all : d.kind = all[j].kind
    BY <1>4, <1>5, <1>7
  <2>4. q.kind = "retry" => q.failed
    BY <1>2, <1>3, <2>2 DEF LibraryInv, RequestInv
  <2>5. ASSUME q.kind = "schedule", ~ q.crossed
        PROVE  Exists(q.video)
    <3>1. ~ all[i].crossed /\ all[i].kind = "schedule"
      BY <2>2, <2>5
    <3>2. CASE all[i] = request
      BY <1>2, <2>2, <3>1, <3>2
    <3>3. CASE all[i] \in Range(requests)
      BY <2>2, <3>1, <3>3, <1>1 DEF LibraryInv, RequestInv
    <3>4. QED BY <1>3, <3>2, <3>3
  <2>6. ASSUME q.kind = "schedule", ~ q.crossed, NEW d \in Range(requests)'
        PROVE  d.kind # "delete"
    <3>1. ~ \E j \in DOMAIN all : all[j].kind = "delete"
      BY <2>2, <2>6 DEF Range
    <3>2. QED BY <2>3, <3>1
  <2>7. ASSUME q.kind = "delete"
        PROVE  \A b \in Blocking(q.video) : schedule[b].crossed
    <3>1. CASE all[i] = request
      BY <1>2, <2>2, <2>7, <3>1
    <3>2. CASE all[i] \in Range(requests)
      BY <1>1, <2>2, <2>7, <3>2 DEF LibraryInv, RequestInv
    <3>3. QED BY <1>3, <3>1, <3>2
  <2>8. QED BY <2>2, <2>3, <2>4, <2>5, <2>6, <2>7
<1>9. RequestInv'
  BY <1>1, <1>8 DEF RequestInv, Exists, Blocking
<1>10. TypeOK'
  BY <1>1, <1>6 DEF LibraryInv, TypeOK
<1>11. ConvInv' /\ JobInv' /\ ReadyHasFile' /\ ScheduledExists'
  BY <1>1 DEF LibraryInv, ConvInv, JobInv, ReadyHasFile, Ready, ScheduledExists, Exists
<1>12. QED BY <1>9, <1>10, <1>11 DEF LibraryInv

LEMMA CheckRetryInv ==
  ASSUME LibraryInv, NEW v \in Videos, CheckRetry(v)
  PROVE  LibraryInv'
  BY CheckedInv DEF CheckRetry

LEMMA CheckDeleteInv ==
  ASSUME LibraryInv, NEW v \in Videos, CheckDelete(v)
  PROVE  LibraryInv'
<1>1. video[v].original \in Paths \cup {None} /\ video[v].media \in Encodings \cup {None}
  BY DEF LibraryInv, TypeOK, Rows
<1>2. QED BY <1>1, CheckedInv DEF CheckDelete

LEMMA CheckScheduleInv ==
  ASSUME LibraryInv, NEW s \in Slots, NEW v \in Videos, CheckSchedule(s, v)
  PROVE  LibraryInv'
  BY CheckedInv DEF CheckSchedule

LEMMA CommitRetryInv ==
  ASSUME LibraryInv, NEW i \in DOMAIN requests, CommitRetry(i)
  PROVE  LibraryInv'
<1> DEFINE v == requests[i].video
<1>1. UNCHANGED <<rows, disk, conv, schedule, left>>
  BY DEF CommitRetry
<1>2. v \in Videos
  BY UnderWay DEF LibraryInv, TypeOK, Requests
<1>3. requests' \in Seq(Requests) /\ Range(requests)' \subseteq Range(requests)
  BY Removed DEF CommitRetry, Commits, LibraryInv, TypeOK
<1>4. /\ video' \in [Videos -> Rows]
      /\ \A w \in Videos \ {v} : video'[w] = video[w]
      /\ video'[v].status = "processing"
      /\ video'[v].deleted = video[v].deleted
      /\ video'[v].media = video[v].media
  BY <1>2, StatusChanged DEF CommitRetry, Statuses, LibraryInv, TypeOK
<1>5. /\ job' \in [Paths -> Jobs]
      /\ \A p \in Paths \ {v} : job'[p] = job[p]
      /\ \/ job'[v] = job[v]
         \/ job'[v].status = "pending" /\ job'[v].attempts = 0 /\ job[v].status \notin Active
  BY <1>2, Identifiers, Enqueued DEF CommitRetry, Enqueue, LibraryInv, TypeOK
<1> HIDE DEF v
<1>6. TypeOK'
  BY <1>1, <1>3, <1>4, <1>5 DEF LibraryInv, TypeOK
<1>7. ConvInv'
  BY <1>1, <1>2, <1>4, <1>5, Identifiers DEF LibraryInv, ConvInv, Active
<1>8. JobInv'
  <2>1. \A k \in Paths : job'[k].status = "pending" => job'[k].attempts < MaxAttempts
    BY <1>5, Identifiers DEF LibraryInv, JobInv
  <2>2. ASSUME NEW w \in Videos
        PROVE  /\ job'[w].status = "pending" => video'[w].status = "processing"
               /\ job'[w].status = "running" => conv'.video = w
    BY <1>1, <1>4, <1>5, Identifiers DEF LibraryInv, JobInv
  <2>3. QED BY <2>1, <2>2 DEF JobInv
<1>9. ReadyHasFile'
  BY <1>1, <1>4 DEF LibraryInv, ReadyHasFile, Ready
<1>10. \A w \in Videos : Exists(w) => Exists(w)'
  BY <1>2, <1>4 DEF Exists
<1>11. RequestInv'
  BY <1>1, <1>3, <1>10, FewerRequests
<1>12. ScheduledExists'
  BY <1>1, <1>10 DEF LibraryInv, TypeOK, ScheduledExists, Assignments
<1>13. QED BY <1>6, <1>7, <1>8, <1>9, <1>11, <1>12 DEF LibraryInv

LEMMA UploadFailsInv ==
  ASSUME LibraryInv, NEW v \in Videos, UploadFails(v)
  PROVE  LibraryInv'
<1>1. UNCHANGED <<video, rows, job, conv, schedule, requests>>
  BY DEF UploadFails
<1>2. left' \in 0..MaxEvents
  BY LibraryAssumption DEF UploadFails, Event, LibraryInv, TypeOK
<1>3. disk' \in Disks /\ disk'.media = disk.media /\ disk'.removed = disk.removed
  BY Identifiers, OriginalChanged DEF UploadFails, LibraryInv, TypeOK, Disks
<1>4. TypeOK'
  BY <1>1, <1>2, <1>3 DEF LibraryInv, TypeOK, Disks
<1>5. ConvInv' /\ JobInv' /\ ReadyHasFile'
  BY <1>1, <1>3 DEF LibraryInv, ConvInv, JobInv, ReadyHasFile, Ready
<1>6. RequestInv' /\ ScheduledExists'
  BY <1>1, StillThere DEF Exists
<1>7. QED BY <1>4, <1>5, <1>6 DEF LibraryInv

LEMMA RequestFailsInv ==
  ASSUME LibraryInv, NEW i \in DOMAIN requests, RequestFails(i)
  PROVE  LibraryInv'
<1>1. UNCHANGED <<video, rows, disk, job, conv, schedule>>
  BY DEF RequestFails
<1>2. left' \in 0..MaxEvents
  BY LibraryAssumption DEF RequestFails, Event, LibraryInv, TypeOK
<1>3. requests' \in Seq(Requests) /\ Range(requests)' \subseteq Range(requests)
  BY Removed DEF RequestFails, LibraryInv, TypeOK
<1>4. TypeOK'
  BY <1>1, <1>2, <1>3 DEF LibraryInv, TypeOK
<1>5. ConvInv' /\ JobInv' /\ ReadyHasFile'
  BY <1>1 DEF LibraryInv, ConvInv, JobInv, ReadyHasFile, Ready
<1>6. \A v \in Videos : Exists(v)' = Exists(v)
  BY <1>1 DEF Exists
<1>7. RequestInv'
  BY <1>1, <1>3, <1>6, FewerRequests
<1>8. ScheduledExists'
  BY <1>1, <1>6 DEF LibraryInv, TypeOK, Assignments, ScheduledExists
<1>9. QED BY <1>4, <1>5, <1>7, <1>8 DEF LibraryInv

(* A deletion that removes a file is the request that it was.              *)
SameRequests ==
  \A q \in Range(requests)' : \E r \in Range(requests) :
    /\ q.kind = r.kind
    /\ q.video = r.video
    /\ q.original = r.original
    /\ q.crossed = r.crossed
    /\ q.failed = r.failed

LEMMA StepTaken ==
  ASSUME requests \in Seq(Requests), NEW i \in DOMAIN requests,
         NEW step \in {"original", "media"},
         requests' = [requests EXCEPT ![i].step = step]
  PROVE  requests' \in Seq(Requests) /\ SameRequests
<1> DEFINE q == [requests[i] EXCEPT !.step = step]
<1>1. /\ requests[i] \in Requests /\ requests[i] \in Range(requests)
      /\ DOMAIN requests = 1..Len(requests) /\ Len(requests) \in Nat
  BY UnderWay
<1>2. /\ q \in Requests
      /\ q.kind = requests[i].kind
      /\ q.video = requests[i].video
      /\ q.original = requests[i].original
      /\ q.crossed = requests[i].crossed
      /\ q.failed = requests[i].failed
  BY <1>1 DEF Requests
<1>3. requests' = [requests EXCEPT ![i] = q]
  OBVIOUS
<1> HIDE DEF q
<1>4. requests' \in Seq(Requests)
  BY <1>1, <1>2, <1>3
<1>5. \A r \in Range(requests)' : r = q \/ r \in Range(requests)
  BY <1>1, <1>3 DEF Range
<1>6. QED BY <1>1, <1>2, <1>4, <1>5 DEF SameRequests

LEMMA SameRequestsInv ==
  ASSUME LibraryInv, SameRequests, UNCHANGED <<video, schedule>>
  PROVE  RequestInv'
<1>1. ASSUME NEW q \in Range(requests)'
      PROVE  /\ q.kind = "retry" => q.failed
             /\ \A d \in Range(requests)' : d.video = q.video
             /\ q.kind = "schedule" /\ ~ q.crossed =>
                  Exists(q.video) /\ \A d \in Range(requests)' : d.kind # "delete"
             /\ q.kind = "delete" => \A s \in Blocking(q.video) : schedule[s].crossed
  <2>1. PICK r \in Range(requests) :
          /\ q.kind = r.kind
          /\ q.video = r.video
          /\ q.crossed = r.crossed
          /\ q.failed = r.failed
    BY DEF SameRequests
  <2>2. \A d \in Range(requests)' : \E e \in Range(requests) :
          d.kind = e.kind /\ d.video = e.video
    BY DEF SameRequests
  <2>3. QED BY <2>1, <2>2 DEF LibraryInv, RequestInv
<1>2. QED BY <1>1 DEF RequestInv, Exists, Blocking

(* What a deletion has removed, but not committed, is its own video's.     *)
LEMMA RemoveOriginalInv ==
  ASSUME LibraryInv, NEW i \in DOMAIN requests, RemoveOriginal(i)
  PROVE  LibraryInv'
<1>1. UNCHANGED <<video, rows, job, conv, schedule, left>>
  BY DEF RemoveOriginal
<1>2. requests[i] \in Requests /\ requests[i].video \in Videos
  BY UnderWay DEF LibraryInv, TypeOK, Requests
<1>3. requests' \in Seq(Requests) /\ SameRequests
  BY StepTaken DEF RemoveOriginal, LibraryInv, TypeOK
<1>4. disk' \in Disks /\ disk'.media = disk.media /\ disk.removed \subseteq disk'.removed
  <2>1. disk \in Disks
    BY DEF LibraryInv, TypeOK, Disks
  <2>2. CASE requests[i].original = None
    BY <2>1, <2>2 DEF RemoveOriginal
  <2>3. CASE requests[i].original # None
    <3>1. requests[i].original \in Paths
      BY <1>2, <2>3 DEF Requests
    <3>2. disk' = [disk EXCEPT !.originals[requests[i].original] = "absent",
                               !.removed = disk.removed \cup {<<requests[i].video, "original">>}]
      BY <2>3 DEF RemoveOriginal
    <3> DEFINE gone == disk.removed \cup {<<requests[i].video, "original">>}
               kept == [disk.originals EXCEPT ![requests[i].original] = "absent"]
    <3>3. gone \in SUBSET (Videos \X {"original", "media"}) /\ disk.removed \subseteq gone
      BY <1>2, <2>1 DEF Disks
    <3>4. kept \in [Paths -> {"absent", "partial", "whole"}]
      BY <2>1, <3>1 DEF Disks
    <3>5. disk' = [disk EXCEPT !.originals = kept, !.removed = gone]
      BY <3>2
    <3> HIDE DEF gone, kept
    <3>6. QED BY <2>1, <3>3, <3>4, <3>5 DEF Disks
  <2>4. QED BY <2>2, <2>3
<1>5. TypeOK'
  BY <1>1, <1>3, <1>4 DEF LibraryInv, TypeOK, Disks
<1>6. ConvInv' /\ JobInv' /\ ReadyHasFile'
  BY <1>1, <1>4 DEF LibraryInv, ConvInv, JobInv, ReadyHasFile, Ready
<1>7. RequestInv'
  BY <1>1, <1>3, SameRequestsInv
<1>8. ScheduledExists'
  BY <1>1 DEF LibraryInv, ScheduledExists, Exists
<1>9. QED BY <1>5, <1>6, <1>7, <1>8 DEF LibraryInv

LEMMA RemoveMediaInv ==
  ASSUME LibraryInv, NEW i \in DOMAIN requests, RemoveMedia(i)
  PROVE  LibraryInv'
<1> DEFINE v == requests[i].video
<1>1. UNCHANGED <<video, rows, job, conv, schedule, left>>
  BY DEF RemoveMedia
<1>2. requests[i] \in Requests /\ v \in Videos
  BY UnderWay DEF LibraryInv, TypeOK, Requests
<1>3. requests' \in Seq(Requests) /\ SameRequests
  BY StepTaken DEF RemoveMedia, LibraryInv, TypeOK
<1>4. /\ disk' \in Disks
      /\ \/ disk' = disk
         \/ /\ disk'.removed = disk.removed \cup {<<v, "media">>}
            /\ \A w \in Videos \ {v} : \A e : <<w, e>> \in disk.media => <<w, e>> \in disk'.media
  <2>1. disk \in Disks
    BY DEF LibraryInv, TypeOK, Disks
  <2>2. CASE requests[i].media = None
    BY <2>1, <2>2 DEF RemoveMedia
  <2>3. CASE requests[i].media # None
    <3>1. disk' = [disk EXCEPT !.media = disk.media \ {<<v, requests[i].media>>},
                               !.removed = disk.removed \cup {<<v, "media">>}]
      BY <2>3 DEF RemoveMedia
    <3> DEFINE gone == disk.removed \cup {<<v, "media">>}
               kept == disk.media \ {<<v, requests[i].media>>}
    <3>2. /\ gone \in SUBSET (Videos \X {"original", "media"})
          /\ kept \in SUBSET (Videos \X Encodings)
          /\ \A w \in Videos \ {v} : \A e : <<w, e>> \in disk.media => <<w, e>> \in kept
      BY <1>2, <2>1 DEF Disks
    <3>3. disk' = [disk EXCEPT !.media = kept, !.removed = gone]
      BY <3>1
    <3>4. disk' \in Disks /\ disk'.media = kept /\ disk'.removed = gone
      <4> HIDE DEF gone, kept
      <4>1. QED BY <2>1, <3>2, <3>3 DEF Disks
    <3>5. QED BY <3>2, <3>4
  <2>4. QED BY <2>2, <2>3
<1> HIDE DEF v
<1>5. TypeOK'
  BY <1>1, <1>3, <1>4 DEF LibraryInv, TypeOK, Disks
<1>6. ConvInv' /\ JobInv'
  BY <1>1 DEF LibraryInv, ConvInv, JobInv
<1>7. ReadyHasFile'
  <2>1. ASSUME NEW w \in Videos, Ready(w)', <<w, "media">> \notin disk'.removed
        PROVE  <<w, video'[w].media>> \in disk'.media
    <3>1. Ready(w) /\ video'[w] = video[w]
      BY <1>1, <2>1 DEF Ready
    <3>2. <<w, "media">> \notin disk.removed
      BY <1>4, <2>1
    <3>3. <<w, video[w].media>> \in disk.media
      BY <3>1, <3>2 DEF LibraryInv, ReadyHasFile
    <3>4. disk' # disk => w # v
      BY <1>4, <2>1
    <3>5. QED BY <1>4, <3>1, <3>3, <3>4
  <2>2. QED BY <2>1 DEF ReadyHasFile
<1>8. RequestInv'
  BY <1>1, <1>3, SameRequestsInv
<1>9. ScheduledExists'
  BY <1>1 DEF LibraryInv, ScheduledExists, Exists
<1>10. QED BY <1>5, <1>6, <1>7, <1>8, <1>9 DEF LibraryInv

LEMMA CommitDeleteInv ==
  ASSUME LibraryInv, NEW i \in DOMAIN requests, CommitDelete(i)
  PROVE  LibraryInv'
<1> DEFINE v == requests[i].video
<1>1. /\ UNCHANGED <<rows, job, conv, schedule, left>>
      /\ requests[i].kind = "delete"
  BY DEF CommitDelete, Commits
<1>2. requests[i] \in Requests /\ requests[i] \in Range(requests) /\ v \in Videos
  BY UnderWay DEF LibraryInv, TypeOK, Requests
<1>3. requests' \in Seq(Requests) /\ Range(requests)' \subseteq Range(requests)
  BY Removed DEF CommitDelete, Commits, LibraryInv, TypeOK
<1>4. PICK media \in Encodings \cup {None} :
        video' = [video EXCEPT ![v].deleted = TRUE, ![v].original = None, ![v].media = media]
  BY <1>2 DEF CommitDelete, LibraryInv, TypeOK, Rows
<1>5. /\ disk' \in Disks /\ disk'.media = disk.media
      /\ \A w \in Videos \ {v} : <<w, "media">> \in disk.removed => <<w, "media">> \in disk'.removed
  BY <1>2 DEF CommitDelete, Disks, LibraryInv, TypeOK
<1> HIDE DEF v
<1>6. /\ video' \in [Videos -> Rows]
      /\ \A w \in Videos \ {v} : video'[w] = video[w]
      /\ video'[v].status = video[v].status
      /\ video'[v].deleted
  BY <1>2, <1>4, RowDeleted DEF LibraryInv, TypeOK
<1>7. TypeOK'
  BY <1>1, <1>3, <1>5, <1>6 DEF LibraryInv, TypeOK, Disks
<1>8. ConvInv'
  BY <1>1, <1>2, <1>6 DEF LibraryInv, ConvInv
<1>9. JobInv'
  BY <1>1, <1>2, <1>6 DEF LibraryInv, JobInv
<1>10. ReadyHasFile'
  BY <1>2, <1>5, <1>6 DEF LibraryInv, TypeOK, Rows, ReadyHasFile, Ready
<1>11. \A q \in Range(requests) : q.video = v
  BY <1>2 DEF LibraryInv, RequestInv, v
<1>12. \A q \in Range(requests) : q.kind = "schedule" => q.crossed
  BY <1>1, <1>2 DEF LibraryInv, RequestInv
<1>13. \A s \in Blocking(v) : schedule[s].crossed
  BY <1>1, <1>2 DEF LibraryInv, RequestInv, v
<1>14. RequestInv'
  BY <1>1, <1>3, <1>11, <1>12, <1>13 DEF LibraryInv, RequestInv, Blocking
<1>15. ScheduledExists'
  BY <1>1, <1>6, <1>13 DEF LibraryInv, TypeOK, Assignments, ScheduledExists, Exists, Blocking
<1>16. QED BY <1>7, <1>8, <1>9, <1>10, <1>14, <1>15 DEF LibraryInv

LEMMA CommitScheduleInv ==
  ASSUME LibraryInv, NEW i \in DOMAIN requests, CommitSchedule(i)
  PROVE  LibraryInv'
<1> DEFINE q == requests[i]
           new == [video |-> q.video, ended |-> FALSE, crossed |-> q.crossed]
<1>1. /\ UNCHANGED <<video, rows, disk, job, conv, left>>
      /\ q.kind = "schedule"
      /\ schedule' = [schedule EXCEPT ![q.slot] = new]
  BY DEF CommitSchedule, Commits
<1>2. q \in Requests /\ q \in Range(requests) /\ q.video \in Videos
  BY UnderWay DEF LibraryInv, TypeOK, Requests
<1>3. requests' \in Seq(Requests) /\ Range(requests)' \subseteq Range(requests)
  BY Removed DEF CommitSchedule, Commits, LibraryInv, TypeOK
<1>4. /\ new \in Assignments
      /\ new.video = q.video
      /\ new.crossed = q.crossed
  BY <1>2 DEF Assignments, Requests
<1>5. q.crossed \/ (Exists(q.video) /\ \A d \in Range(requests) : d.kind # "delete")
  BY <1>1, <1>2 DEF LibraryInv, RequestInv
<1> HIDE DEF q, new
<1>6. /\ schedule' \in [Slots -> {None} \cup Assignments]
      /\ \A s \in Slots : schedule'[s] = schedule[s] \/ schedule'[s] = new
  BY <1>1, <1>4 DEF LibraryInv, TypeOK
<1>7. TypeOK'
  BY <1>1, <1>3, <1>6 DEF LibraryInv, TypeOK
<1>8. ConvInv' /\ JobInv' /\ ReadyHasFile'
  BY <1>1 DEF LibraryInv, ConvInv, JobInv, ReadyHasFile, Ready
<1>9. \A v \in Videos : Exists(v)' = Exists(v)
  BY <1>1 DEF Exists
<1>10. RequestInv'
  <2>1. CASE q.crossed
    BY <1>3, <1>4, <1>6, <1>9, <2>1, FewerRequests
  <2>2. CASE \A d \in Range(requests) : d.kind # "delete"
    BY <1>1, <1>3, <2>2 DEF LibraryInv, RequestInv, Exists
  <2>3. QED BY <1>5, <2>1, <2>2
<1>11. ScheduledExists'
  BY <1>4, <1>5, <1>6, <1>9, <1>2 DEF LibraryInv, TypeOK, Assignments, ScheduledExists
<1>12. QED BY <1>7, <1>8, <1>10, <1>11 DEF LibraryInv

LEMMA EndAssignmentInv ==
  ASSUME LibraryInv, NEW s \in Slots, EndAssignment(s)
  PROVE  LibraryInv'
<1> DEFINE ended == [schedule[s] EXCEPT !.ended = TRUE, !.crossed = FALSE]
<1>1. UNCHANGED <<video, rows, disk, job, conv, requests, left>>
  BY DEF EndAssignment
<1>2. schedule[s] \in Assignments
  BY DEF EndAssignment, LibraryInv, TypeOK
<1>3. ended \in Assignments /\ ended.ended = TRUE
  BY <1>2 DEF Assignments
<1>4. schedule' = [schedule EXCEPT ![s] = ended]
  BY DEF EndAssignment
<1> HIDE DEF ended
<1>5. /\ schedule' \in [Slots -> {None} \cup Assignments]
      /\ \A t \in Slots : schedule'[t] = schedule[t] \/ schedule'[t].ended
  BY <1>3, <1>4 DEF LibraryInv, TypeOK
<1>6. TypeOK'
  BY <1>1, <1>5 DEF LibraryInv, TypeOK
<1>7. ConvInv' /\ JobInv' /\ ReadyHasFile'
  BY <1>1 DEF LibraryInv, ConvInv, JobInv, ReadyHasFile, Ready
<1>8. \A v \in Videos : Exists(v)' = Exists(v)
  BY <1>1 DEF Exists
<1>9. RequestInv'
  BY <1>1, <1>5, <1>8, FewerRequests DEF Range
<1>10. ScheduledExists'
  BY <1>5, <1>8 DEF LibraryInv, TypeOK, Assignments, ScheduledExists
<1>11. QED BY <1>6, <1>7, <1>9, <1>10 DEF LibraryInv

LEMMA DeleteAssignmentInv ==
  ASSUME LibraryInv, NEW s \in Slots, DeleteAssignment(s)
  PROVE  LibraryInv'
<1>1. UNCHANGED <<video, rows, disk, job, conv, requests, left>>
  BY DEF DeleteAssignment
<1>2. /\ schedule' \in [Slots -> {None} \cup Assignments]
      /\ \A t \in Slots : schedule'[t] = schedule[t] \/ schedule'[t] = None
  BY DEF DeleteAssignment, LibraryInv, TypeOK
<1>3. TypeOK'
  BY <1>1, <1>2 DEF LibraryInv, TypeOK
<1>4. ConvInv' /\ JobInv' /\ ReadyHasFile'
  BY <1>1 DEF LibraryInv, ConvInv, JobInv, ReadyHasFile, Ready
<1>5. \A v \in Videos : Exists(v)' = Exists(v)
  BY <1>1 DEF Exists
<1>6. RequestInv'
  BY <1>1, <1>2, <1>5, FewerRequests DEF Range
<1>7. ScheduledExists'
  BY <1>2, <1>5 DEF LibraryInv, TypeOK, Assignments, ScheduledExists
<1>8. QED BY <1>3, <1>4, <1>6, <1>7 DEF LibraryInv

-----------------------------------------------------------------------------
LEMMA InitInv == Init => LibraryInv
<1> SUFFICES ASSUME Init PROVE LibraryInv
  OBVIOUS
<1>1. video \in [Videos -> Rows] /\ \A v \in Videos : video[v].status = "none"
  BY DEF Init, Rows
<1>2. rows \in [Legacy -> [known : BOOLEAN, again : BOOLEAN]]
  BY DEF Init
<1>3. disk \in Disks
  BY DEF Init, Disks
<1>4. job \in [Paths -> Jobs] /\ \A k \in Paths : job[k].status = "none"
  <2>1. 0 \in 0..MaxAttempts
    BY LibraryAssumption
  <2>2. QED BY <2>1 DEF Init, Jobs
<1>5. conv = NoConversion /\ conv \in Conversions
  BY DEF Init, NoConversion, Conversions
<1>6. schedule \in [Slots -> {None} \cup Assignments] /\ \A s \in Slots : schedule[s] = None
  BY DEF Init
<1>7. requests \in Seq(Requests) /\ Range(requests) = {}
  BY DEF Init, Range
<1>8. left \in 0..MaxEvents
  BY LibraryAssumption DEF Init
<1>9. TypeOK
  BY <1>1, <1>2, <1>3, <1>4, <1>5, <1>6, <1>7, <1>8 DEF TypeOK, Disks
<1>10. ConvInv /\ JobInv
  BY <1>4, <1>5, Identifiers DEF ConvInv, JobInv
<1>11. RequestInv /\ ReadyHasFile /\ ScheduledExists
  BY <1>1, <1>6, <1>7 DEF RequestInv, ReadyHasFile, Ready, ScheduledExists
<1>12. QED BY <1>9, <1>10, <1>11 DEF LibraryInv

(* Every action keeps the invariant.                                       *)
LEMMA StepInv == LibraryInv /\ [Next]_vars => LibraryInv'
<1> SUFFICES ASSUME LibraryInv, [Next]_vars PROVE LibraryInv'
  OBVIOUS
<1>1. CASE UNCHANGED vars
  BY <1>1 DEF vars, LibraryInv, TypeOK, ConvInv, JobInv, RequestInv, Range, Exists, Blocking,
              ReadyHasFile, Ready, ScheduledExists
<1>2. CASE Panel
  BY <1>2, UploadInv, CheckRetryInv, CheckDeleteInv, CheckScheduleInv, CommitRetryInv,
     CommitDeleteInv, CommitScheduleInv, EndAssignmentInv, DeleteAssignmentInv, RequestAdoptInv,
     UploadFailsInv, RemoveOriginalInv, RemoveMediaInv, RequestFailsInv
     DEF Panel
<1>3. CASE Adoption
  BY <1>3, ForgetRowInv, ListRowInv, BeginAdoptInv, AdoptFailsInv, AdoptCrashesInv,
     FinishAdoptInv DEF Adoption
<1>4. CASE Conversion
  BY <1>4, StartEncodingInv, PlaceInv, RecordInv, ConversionFailsInv, CrashesInv, BeginInv,
     RestartInv DEF Conversion, Advance
<1>5. QED BY <1>1, <1>2, <1>3, <1>4 DEF Next

LEMMA Invariant == Spec => []LibraryInv
<1>1. QED BY InitInv, StepInv, PTL DEF Spec

(* The types, and with them that no job is tried more than MaxAttempts     *)
(* times after interruptions (jobs.py:138-154).                            *)
THEOREM LibraryTypeCorrect == Spec => []TypeOK
<1>1. LibraryInv => TypeOK
  BY DEF LibraryInv
<1>2. QED BY <1>1, Invariant, PTL

(* A row that says ready names a converted file that is there: no          *)
(* conversion (transcode.py:317-358), and nothing else but a deletion of   *)
(* this very video that has not committed, or never will                   *)
(* (library.py:205-214), takes the file away.                              *)
THEOREM ReadyVideosHaveFiles == Spec => []ReadyHasFile
<1>1. LibraryInv => ReadyHasFile
  BY DEF LibraryInv
<1>2. QED BY <1>1, Invariant, PTL

(* An assignment that goes on keeps its video in the library, but for a    *)
(* form and a deletion that overlap (schedule.py:112-142, library.py:195). *)
THEOREM ScheduledVideosExist == Spec => []ScheduledExists
<1>1. LibraryInv => ScheduledExists
  BY DEF LibraryInv
<1>2. QED BY <1>1, Invariant, PTL

(* A video stays ready, with the same file, until it is deleted or a retry *)
(* that read it as failed commits late (library.py:219-229).               *)
THEOREM ReadyVideosStay == Spec => ReadyStays
<1>1. LibraryInv /\ [Next]_vars => [StaysReady]_vars
  <2> SUFFICES ASSUME LibraryInv, Next, NEW v \in Videos, Ready(v)
               PROVE  \/ video'[v] = video[v]
                      \/ video'[v].deleted
                      \/ \E q \in Range(requests) : q.video = v /\ q.failed
    BY DEF StaysReady
  <2>1. video[v].status = "ready" /\ video \in [Videos -> Rows]
    BY DEF Ready, LibraryInv, TypeOK
  <2>2. CASE UNCHANGED video
    BY <2>2
  <2>3. ASSUME NEW w \in Videos, Upload(w) \/ \E f \in Legacy : FinishAdopt(f, w)
        PROVE  video'[v] = video[v]
    BY <2>1, <2>3 DEF Upload, FinishAdopt, Fresh, Unused
  <2>4. ASSUME NEW i \in DOMAIN requests, CommitRetry(i)
        PROVE  video'[v] = video[v] \/ \E q \in Range(requests) : q.video = v /\ q.failed
    <3>1. requests[i] \in Range(requests) /\ requests[i].failed
      BY <2>4, UnderWay DEF CommitRetry, Commits, LibraryInv, TypeOK, RequestInv
    <3>2. requests[i].video # v => video'[v] = video[v]
      BY <2>1, <2>4 DEF CommitRetry
    <3>3. QED BY <3>1, <3>2
  <2>5. ASSUME NEW i \in DOMAIN requests, CommitDelete(i)
        PROVE  video'[v] = video[v] \/ video'[v].deleted
    <3>1. requests[i].media \in Encodings \cup {None}
      BY UnderWay DEF LibraryInv, TypeOK, Requests
    <3>2. requests[i].video # v => video'[v] = video[v]
      BY <2>1, <2>5 DEF CommitDelete
    <3>3. requests[i].video = v => video'[v].deleted
      BY <2>1, <2>5 DEF CommitDelete, Rows
    <3>4. QED BY <3>2, <3>3
  <2>6. ASSUME NEW w \in Videos, Begin(w)
        PROVE  video'[v] = video[v]
    BY <2>1, <2>6 DEF Begin, LibraryInv, JobInv
  <2>7. ASSUME Record \/ ConversionFails
        PROVE  video'[v] = video[v]
    <3>1. video[conv.video].status = "processing"
      BY <2>7 DEF Record, ConversionFails, NoConversion, LibraryInv, ConvInv
    <3>2. QED BY <2>1, <2>7, <3>1 DEF Record, ConversionFails
  <2>8. CASE Panel
    BY <2>2, <2>3, <2>4, <2>5, <2>8
       DEF Panel, CheckRetry, CheckDelete, CheckSchedule, Checked, CommitSchedule, EndAssignment,
           DeleteAssignment, RequestAdopt, UploadFails, RemoveOriginal, RemoveMedia, RequestFails
  <2>9. CASE Adoption
    BY <2>2, <2>3, <2>9 DEF Adoption, ForgetRow, ListRow, BeginAdopt, AdoptFails, AdoptCrashes
  <2>10. CASE Conversion
    BY <2>2, <2>6, <2>7, <2>10 DEF Conversion, Advance, StartEncoding, Place, Crashes, Restart
  <2>11. QED BY <2>8, <2>9, <2>10 DEF Next
<1>2. QED BY <1>1, Invariant, PTL DEF Spec, ReadyStays

-----------------------------------------------------------------------------
(* The originals of the videos in the library, which a conversion that     *)
(* failed needs again: who may empty or remove them.                       *)

Own(v) == {None, v} \cup Legacy

(* A video's original is its upload or a legacy file.                      *)
OriginalsNamed ==
  \A v \in Videos :
    /\ video[v].original \in Own(v)
    /\ Exists(v) => video[v].original # None

(* A request is about a video that has begun, and removes no other's file. *)
RequestsName ==
  \A q \in Range(requests) :
    /\ video[q.video].status # "none"
    /\ q.original \in Own(q.video)

(* A legacy file that was not downloaded again is the original of one      *)
(* video at most, the one of every request that has read it; and while it  *)
(* is being downloaded, of none.                                           *)
OneHolder ==
  \A f \in Legacy : ~ rows[f].again =>
    /\ \A v, w \in Videos : video[v].original = f /\ video[w].original = f => v = w
    /\ \A v \in Videos : \A q \in Range(requests) :
         video[v].original = f /\ q.original = f => q.video = v
    /\ job[f].status = "running" =>
         /\ disk.originals[f] = "partial"
         /\ \A v \in Videos : video[v].original # f
         /\ \A q \in Range(requests) : q.original # f

Originals == OriginalKept /\ OriginalsNamed /\ RequestsName /\ OneHolder

OriginalsInv == LibraryInv /\ Originals

-----------------------------------------------------------------------------
(* What the types say of a request and of the files.                       *)
LEMMA Typed ==
  ASSUME LibraryInv
  PROVE  /\ video \in [Videos -> Rows]
         /\ job \in [Paths -> Jobs]
         /\ rows \in [Legacy -> [known : BOOLEAN, again : BOOLEAN]]
         /\ disk \in Disks
         /\ disk.originals \in [Paths -> {"absent", "partial", "whole"}]
         /\ requests \in Seq(Requests)
         /\ \A q \in Range(requests) : q \in Requests /\ q.video \in Videos
         /\ \A i \in DOMAIN requests : requests[i] \in Range(requests)
<1>1. requests \in Seq(Requests)
  BY DEF LibraryInv, TypeOK
<1>2. \A q \in Range(requests) : q \in Requests /\ q.video \in Videos
  BY <1>1, UnderWay DEF Requests
<1>3. \A i \in DOMAIN requests : requests[i] \in Range(requests)
  BY <1>1, UnderWay
<1>4. QED BY <1>1, <1>2, <1>3 DEF LibraryInv, TypeOK, Disks

(* Steps that leave the originals, in rows and on disk, as they are, begin *)
(* no download and add no request.                                         *)
LEMMA Unaffected ==
  ASSUME OriginalsInv,
         \A v \in Videos : /\ video'[v].original = video[v].original
                           /\ Exists(v)' => Exists(v)
                           /\ video[v].status # "none" => video'[v].status # "none",
         disk'.originals = disk.originals,
         disk.removed \subseteq disk'.removed,
         \A f \in Legacy : /\ rows'[f].again = rows[f].again
                           /\ job'[f].status = "running" => job[f].status = "running",
         \/ Range(requests)' \subseteq Range(requests)
         \/ SameRequests
  PROVE  Originals'
<1>1. \A q \in Range(requests)' : \E r \in Range(requests) :
        q.video = r.video /\ q.original = r.original /\ r.video \in Videos
  BY Typed DEF OriginalsInv, SameRequests
<1>2. OriginalKept'
  BY DEF OriginalsInv, Originals, OriginalKept, Source
<1>3. OriginalsNamed'
  BY DEF OriginalsInv, Originals, OriginalsNamed, Own
<1>4. RequestsName'
  BY <1>1 DEF OriginalsInv, Originals, RequestsName, Own
<1>5. OneHolder'
  BY <1>1 DEF OriginalsInv, Originals, OneHolder
<1>6. QED BY <1>2, <1>3, <1>4, <1>5 DEF Originals

(* A new status, and a converted file, leave the original.                 *)
LEMMA StatusOnly ==
  ASSUME video \in [Videos -> Rows], NEW v \in Videos, NEW status \in Statuses \ {"none"},
         \/ video' = [video EXCEPT ![v].status = status]
         \/ \E media \in Encodings \cup {None} :
              video' = [video EXCEPT ![v].status = status, ![v].media = media]
  PROVE  \A w \in Videos : /\ video'[w].original = video[w].original
                           /\ video'[w].deleted = video[w].deleted
                           /\ video[w].status # "none" => video'[w].status # "none"
                           /\ w # v => video'[w] = video[w]
<1>1. CASE video' = [video EXCEPT ![v].status = status]
  <2> DEFINE row == [video[v] EXCEPT !.status = status]
  <2>1. row.original = video[v].original /\ row.deleted = video[v].deleted /\ row.status # "none"
    BY DEF Rows
  <2>2. video' = [video EXCEPT ![v] = row]
    BY <1>1
  <2> HIDE DEF row
  <2>3. QED BY <2>1, <2>2
<1>2. ASSUME NEW media \in Encodings \cup {None},
             video' = [video EXCEPT ![v].status = status, ![v].media = media]
      PROVE  \A w \in Videos : /\ video'[w].original = video[w].original
                               /\ video'[w].deleted = video[w].deleted
                               /\ video[w].status # "none" => video'[w].status # "none"
                               /\ w # v => video'[w] = video[w]
  <2> DEFINE row == [video[v] EXCEPT !.status = status, !.media = media]
  <2>1. row.original = video[v].original /\ row.deleted = video[v].deleted /\ row.status # "none"
    BY DEF Rows
  <2>2. video' = [video EXCEPT ![v] = row]
    BY <1>2
  <2> HIDE DEF row
  <2>3. QED BY <2>1, <2>2
<1>3. QED BY <1>1, <1>2

(* An enqueued job is of its key only, and does not begin to run.          *)
LEMMA NotBegun ==
  ASSUME NEW jobs \in [Paths -> Jobs], NEW k \in Paths
  PROVE  \A p \in Paths : Enqueue(jobs, k)[p].status = "running" => jobs[p].status = "running"
  BY Enqueued

-----------------------------------------------------------------------------
(* Steps that leave the originals alone                                    *)

(* Nothing but the queue, the schedule or what is known of the Pi changes. *)
LEMMA OtherSteps ==
  ASSUME OriginalsInv,
         \/ \E i \in DOMAIN requests : CommitSchedule(i) \/ RemoveMedia(i) \/ RequestFails(i)
         \/ \E s \in Slots : EndAssignment(s) \/ DeleteAssignment(s)
         \/ \E f \in Legacy : RequestAdopt(f) \/ ForgetRow(f) \/ ListRow(f)
         \/ StartEncoding
         \/ \E e \in Encodings : Place(e)
         \/ Crashes
         \/ Restart
  PROVE  Originals'
<1> USE Typed DEF OriginalsInv
<1>1. ASSUME NEW i \in DOMAIN requests, CommitSchedule(i) PROVE Originals'
  <2>1. Range(requests)' \subseteq Range(requests)
    BY <1>1, Removed DEF CommitSchedule, Commits
  <2>2. UNCHANGED <<video, rows, disk, job>>
    BY <1>1 DEF CommitSchedule
  <2>3. QED BY <2>1, <2>2, Unaffected DEF Exists
<1>2. ASSUME NEW s \in Slots, EndAssignment(s) \/ DeleteAssignment(s) PROVE Originals'
  <2>1. UNCHANGED <<video, rows, disk, job, requests>>
    BY <1>2 DEF EndAssignment, DeleteAssignment
  <2>2. QED BY <2>1, Unaffected DEF Exists, Range
<1>3. ASSUME NEW f \in Legacy, RequestAdopt(f) PROVE Originals'
  <2>1. UNCHANGED <<video, rows, disk, requests>> /\ job' = Enqueue(job, f)
    BY <1>3 DEF RequestAdopt
  <2>2. \A p \in Legacy : job'[p].status = "running" => job[p].status = "running"
    BY <2>1, NotBegun, Identifiers
  <2>3. QED BY <2>1, <2>2, Unaffected DEF Exists, Range
<1>4. ASSUME NEW f \in Legacy, ForgetRow(f) \/ ListRow(f) PROVE Originals'
  <2>1. UNCHANGED <<video, disk, job, requests>>
    BY <1>4 DEF ForgetRow, ListRow
  <2>2. PICK known \in BOOLEAN : rows' = [rows EXCEPT ![f].known = known]
    BY <1>4 DEF ForgetRow, ListRow
  <2>3. \A p \in Legacy : rows'[p].again = rows[p].again
    BY <2>2
  <2>4. QED BY <2>1, <2>3, Unaffected DEF Exists, Range
<1>5. CASE StartEncoding
  <2>1. UNCHANGED <<video, rows, disk, job, requests>>
    BY <1>5 DEF StartEncoding
  <2>2. QED BY <2>1, Unaffected DEF Exists, Range
<1>6. ASSUME NEW e \in Encodings, Place(e) PROVE Originals'
  <2>1. UNCHANGED <<video, rows, job, requests>>
    BY <1>6 DEF Place
  <2>2. disk'.originals = disk.originals /\ disk'.removed = disk.removed
    BY <1>6 DEF Place, Disks
  <2>3. QED BY <2>1, <2>2, Unaffected DEF Exists, Range
<1>7. CASE Crashes
  <2>1. UNCHANGED <<video, rows, disk, requests>> /\ job' = Ends(conv.video, "crashed")
    BY <1>7 DEF Crashes
  <2>2. conv.video \in Videos
    BY <1>7 DEF Crashes, LibraryInv, ConvInv
  <2>3. \A p \in Legacy : job'[p] = job[p]
    BY <2>1, <2>2, Identifiers, JobEnded
  <2>4. QED BY <2>1, <2>3, Unaffected DEF Exists, Range
<1>8. CASE Restart
  <2>1. UNCHANGED <<video, rows, disk, requests>>
    BY <1>8 DEF Restart
  <2>2. job' = [k \in Paths |-> IF job[k].status = "running" THEN Recover(job[k]) ELSE job[k]]
    BY <1>8 DEF Restart
  <2>3. \A p \in Legacy : job'[p].status = "running" => job[p].status = "running"
    BY <2>2, Identifiers
  <2>4. QED BY <2>1, <2>3, Unaffected DEF Exists, Range
<1>9. ASSUME NEW i \in DOMAIN requests, RemoveMedia(i) PROVE Originals'
  <2>1. UNCHANGED <<video, rows, job>>
    BY <1>9 DEF RemoveMedia
  <2>2. disk'.originals = disk.originals /\ disk.removed \subseteq disk'.removed
    <3>1. disk \in Disks
      BY Typed
    <3>2. CASE disk' = disk
      BY <3>2
    <3>3. ASSUME NEW kept, NEW gone, disk.removed \subseteq gone,
                 disk' = [disk EXCEPT !.media = kept, !.removed = gone]
          PROVE  disk'.originals = disk.originals /\ disk.removed \subseteq disk'.removed
      BY <3>1, <3>3 DEF Disks
    <3>4. QED BY <1>9, <3>2, <3>3 DEF RemoveMedia
  <2>3. SameRequests
    BY <1>9, StepTaken DEF RemoveMedia
  <2>4. QED BY <2>1, <2>2, <2>3, Unaffected DEF Exists
<1>10. ASSUME NEW i \in DOMAIN requests, RequestFails(i) PROVE Originals'
  <2>1. Range(requests)' \subseteq Range(requests)
    BY <1>10, Removed DEF RequestFails
  <2>2. UNCHANGED <<video, rows, disk, job>>
    BY <1>10 DEF RequestFails
  <2>3. QED BY <2>1, <2>2, Unaffected DEF Exists
<1>11. QED BY <1>1, <1>2, <1>3, <1>4, <1>5, <1>6, <1>7, <1>8, <1>9, <1>10

(* A video gets a new status, with its job.                                *)
LEMMA StatusSteps ==
  ASSUME OriginalsInv,
         \/ \E i \in DOMAIN requests : CommitRetry(i)
         \/ \E v \in Videos : Begin(v)
         \/ Record
         \/ ConversionFails
  PROVE  Originals'
<1> USE Typed DEF OriginalsInv
<1>1. ASSUME NEW i \in DOMAIN requests, CommitRetry(i) PROVE Originals'
  <2> DEFINE v == requests[i].video
  <2>1. v \in Videos /\ video[v].status # "none"
    BY DEF Originals, RequestsName
  <2>2. /\ UNCHANGED <<rows, disk>>
        /\ video' = [video EXCEPT ![v].status = "processing"]
        /\ job' = Enqueue(job, v)
    BY <1>1 DEF CommitRetry
  <2>3. Range(requests)' \subseteq Range(requests)
    BY <1>1, Removed DEF CommitRetry, Commits
  <2> HIDE DEF v
  <2>4. \A w \in Videos : /\ video'[w].original = video[w].original
                          /\ video'[w].deleted = video[w].deleted
                          /\ video[w].status # "none" => video'[w].status # "none"
                          /\ w # v => video'[w] = video[w]
    <3>1. "processing" \in Statuses \ {"none"}
      BY DEF Statuses
    <3>2. QED BY <2>1, <2>2, <3>1, StatusOnly
  <2>5. \A w \in Videos : Exists(w)' => Exists(w)
    BY <2>1, <2>4 DEF Exists
  <2>6. \A p \in Legacy : job'[p].status = "running" => job[p].status = "running"
    BY <2>1, <2>2, NotBegun, Identifiers
  <2>7. QED BY <2>2, <2>3, <2>4, <2>5, <2>6, Unaffected
<1>2. ASSUME NEW v \in Videos, Begin(v) PROVE Originals'
  <2>1. UNCHANGED <<rows, disk, requests>> /\ job[v].status = "pending"
    BY <1>2 DEF Begin
  <2>2. \A p \in Legacy : job'[p] = job[p]
    BY <1>2, Identifiers DEF Begin
  <2>3. video[v].status # "none"
    BY <2>1 DEF LibraryInv, JobInv
  <2>4. CASE video[v].deleted
    <3>1. video' = video
      BY <1>2, <2>4 DEF Begin
    <3>2. QED BY <2>1, <2>2, <3>1, Unaffected DEF Exists, Range
  <2>5. CASE ~ video[v].deleted
    <3>1. video' = [video EXCEPT ![v].status = "processing"]
      BY <1>2, <2>5 DEF Begin
    <3>2. \A w \in Videos : /\ video'[w].original = video[w].original
                            /\ video'[w].deleted = video[w].deleted
                            /\ video[w].status # "none" => video'[w].status # "none"
                            /\ w # v => video'[w] = video[w]
      <4>1. "processing" \in Statuses \ {"none"}
        BY DEF Statuses
      <4>2. QED BY <3>1, <4>1, StatusOnly
    <3>3. \A w \in Videos : Exists(w)' => Exists(w)
      BY <2>3, <3>2 DEF Exists
    <3>4. QED BY <2>1, <2>2, <3>2, <3>3, Unaffected DEF Range
  <2>6. QED BY <2>4, <2>5
<1>3. ASSUME Record \/ ConversionFails PROVE Originals'
  <2> DEFINE v == conv.video
  <2>1. v \in Videos /\ video[v].status # "none"
    BY <1>3 DEF Record, ConversionFails, NoConversion, LibraryInv, ConvInv
  <2>2. UNCHANGED <<rows, requests>>
    BY <1>3 DEF Record, ConversionFails
  <2>3. disk' = disk
    BY <1>3 DEF Record, ConversionFails
  <2>4. PICK end \in {"done", "failed"} : job' = Ends(v, end)
    BY <1>3 DEF Record, ConversionFails
  <2>5. \E status \in Statuses \ {"none"} :
          \/ video' = [video EXCEPT ![v].status = status]
          \/ \E media \in Encodings \cup {None} :
               video' = [video EXCEPT ![v].status = status, ![v].media = media]
    <3>1. CASE ConversionFails
      BY <3>1 DEF ConversionFails, Statuses
    <3>2. CASE Record
      <4>1. conv.media \in Encodings \cup {None} /\ video[v].media \in Encodings \cup {None}
        BY <2>1 DEF LibraryInv, TypeOK, Conversions, Rows
      <4>2. \E media \in Encodings \cup {None} :
               video' = [video EXCEPT ![v].status = "ready", ![v].media = media]
        BY <3>2, <4>1 DEF Record
      <4>3. QED BY <4>2 DEF Statuses
    <3>3. QED BY <1>3, <3>1, <3>2
  <2> HIDE DEF v
  <2>6. \A w \in Videos : /\ video'[w].original = video[w].original
                          /\ video'[w].deleted = video[w].deleted
                          /\ video[w].status # "none" => video'[w].status # "none"
                          /\ w # v => video'[w] = video[w]
    BY <2>1, <2>5, StatusOnly
  <2>7. \A w \in Videos : Exists(w)' => Exists(w)
    BY <2>1, <2>6 DEF Exists
  <2>8. \A p \in Legacy : job'[p] = job[p]
    BY <2>1, <2>4, Identifiers, JobEnded
  <2>9. QED BY <2>2, <2>3, <2>6, <2>7, <2>8, Unaffected DEF Range
<1>4. QED BY <1>1, <1>2, <1>3

-----------------------------------------------------------------------------
(* Requests                                                                *)

(* A request that reads the row of v names the file v has, or none.        *)
LEMMA CheckedOriginals ==
  ASSUME OriginalsInv, NEW kind, NEW v \in Videos, NEW s, NEW original, NEW media,
         Checked(kind, v, s, original, media),
         original \in {None, video[v].original}, Exists(v)
  PROVE  Originals'
<1> USE DEF OriginalsInv
<1> DEFINE request == [kind |-> kind, video |-> v, slot |-> s, original |-> original,
                       media |-> media, step |-> "checked", crossed |-> FALSE,
                       failed |-> video[v].status = "failed" /\ kind = "retry"]
           all == Append(requests, request)
           Meets(q) == q.kind = "schedule" /\ \E d \in Range(all) : d.kind = "delete"
           Now(q) == [q EXCEPT !.crossed = q.crossed \/ Meets(q)]
<1>1. /\ UNCHANGED <<video, rows, disk, job>>
      /\ requests' = [i \in DOMAIN all |-> Now(all[i])]
      /\ \A q \in Range(requests) : q.video = v
  BY DEF Checked
<1>2. /\ request.video = v
      /\ request.original = original
      /\ Now(request).video = request.video
      /\ Now(request).original = request.original
  <2> HIDE DEF Meets
  <2>1. QED OBVIOUS
<1>3. ASSUME NEW q \in Requests
      PROVE  Now(q).video = q.video /\ Now(q).original = q.original
  <2> HIDE DEF Meets
  <2>1. QED BY DEF Requests
<1>4. \A i \in DOMAIN all : all[i] = request \/ all[i] \in Range(requests)
  <2> HIDE DEF request
  <2>1. requests \in Seq(Requests)
    BY Typed
  <2>2. QED BY <2>1 DEF Range
<1> HIDE DEF request, Now
<1>5. ASSUME NEW q \in Range(requests)'
      PROVE  /\ q.video = v
             /\ \/ q.original = original
                \/ \E r \in Range(requests) : r.original = q.original
  <2>1. PICK i \in DOMAIN all : q = Now(all[i])
    BY <1>1 DEF Range
  <2>2. CASE all[i] = request
    BY <1>2, <2>1, <2>2
  <2>3. CASE all[i] \in Range(requests)
    <3>1. all[i] \in Requests
      BY <2>3, Typed
    <3>2. q.video = v /\ q.original = all[i].original
      BY <1>1, <1>3, <2>1, <2>3, <3>1
    <3>3. QED BY <2>3, <3>2
  <2>4. QED BY <1>4, <2>2, <2>3
<1>6. OriginalKept' /\ OriginalsNamed'
  BY <1>1 DEF Originals, OriginalKept, OriginalsNamed, Source, Exists
<1>7. RequestsName'
  BY <1>1, <1>5 DEF Originals, RequestsName, OriginalsNamed, Own, Exists
<1>8. OneHolder'
  <2>1. ASSUME NEW f \in Legacy, ~ rows[f].again
        PROVE  /\ \A w, x \in Videos : video[w].original = f /\ video[x].original = f => w = x
               /\ \A w \in Videos : \A q \in Range(requests)' :
                    video[w].original = f /\ q.original = f => q.video = w
               /\ job[f].status = "running" =>
                    /\ disk.originals[f] = "partial"
                    /\ \A w \in Videos : video[w].original # f
                    /\ \A q \in Range(requests)' : q.original # f
    BY <1>1, <1>5, <2>1, Identifiers DEF Originals, OneHolder
  <2>2. QED BY <1>1, <2>1 DEF OneHolder
<1>9. QED BY <1>6, <1>7, <1>8 DEF Originals

(* A deletion removes the file that it read, which is no other video's.    *)
LEMMA RemoveOriginalOriginals ==
  ASSUME OriginalsInv, NEW i \in DOMAIN requests, RemoveOriginal(i)
  PROVE  Originals'
<1> DEFINE q == requests[i]
           v == q.video
<1> USE DEF OriginalsInv
<1>1. UNCHANGED <<video, rows, job>>
  BY DEF RemoveOriginal
<1>2. q \in Range(requests) /\ v \in Videos /\ q.original \in Own(v)
  BY Typed DEF Originals, RequestsName
<1>3. SameRequests
  BY Typed, StepTaken DEF RemoveOriginal
<1>4. CASE q.original = None
  BY <1>1, <1>3, <1>4, Unaffected DEF RemoveOriginal, Exists
<1>5. CASE q.original # None
  <2>1. q.original \in Paths
    BY <1>2, <1>5, Identifiers DEF Own
  <2>2. /\ \A p \in Paths \ {q.original} : disk'.originals[p] = disk.originals[p]
        /\ disk'.removed = disk.removed \cup {<<v, "original">>}
    BY <1>5, <2>1, Typed DEF RemoveOriginal, Disks
  <2>3. OriginalKept'
    <3>1. ASSUME NEW w \in Videos, Exists(w)', <<w, "original">> \notin disk'.removed,
                 ~ (video'[w].original \in Legacy /\ rows'[video'[w].original].again)
          PROVE  Source(w)' = "whole"
      <4>1. w # v /\ <<w, "original">> \notin disk.removed
        BY <2>2, <3>1
      <4>2. Exists(w) /\ video'[w] = video[w]
        BY <1>1, <3>1 DEF Exists
      <4>3. Source(w) = "whole"
        BY <1>1, <3>1, <4>1, <4>2 DEF Originals, OriginalKept
      <4>4. video[w].original \in Own(w) /\ video[w].original # None
        BY <4>2 DEF Originals, OriginalsNamed
      <4>5. video[w].original # q.original
        <5>1. CASE video[w].original = w
          BY <1>2, <4>1, <5>1, Identifiers DEF Own
        <5>2. CASE video[w].original \in Legacy
          BY <1>1, <1>2, <3>1, <4>1, <4>2, <5>2 DEF Originals, OneHolder
        <5>3. QED BY <4>4, <5>1, <5>2 DEF Own
      <4>6. video[w].original \in Paths
        BY <4>4, Identifiers DEF Own
      <4>7. QED BY <2>2, <4>2, <4>3, <4>4, <4>5, <4>6 DEF Source
    <3>2. QED BY <3>1 DEF OriginalKept
  <2>4. OriginalsNamed'
    BY <1>1 DEF Originals, OriginalsNamed, Exists
  <2>5. RequestsName'
    BY <1>1, <1>3, Typed DEF Originals, RequestsName, SameRequests
  <2>6. OneHolder'
    <3>1. ASSUME NEW f \in Legacy, ~ rows[f].again
          PROVE  /\ \A x, y \in Videos : video[x].original = f /\ video[y].original = f => x = y
                 /\ \A x \in Videos : \A r \in Range(requests)' :
                      video[x].original = f /\ r.original = f => r.video = x
                 /\ job[f].status = "running" =>
                      /\ disk'.originals[f] = "partial"
                      /\ \A x \in Videos : video[x].original # f
                      /\ \A r \in Range(requests)' : r.original # f
      <4>1. f # q.original => disk'.originals[f] = disk.originals[f]
        BY <2>2, Identifiers
      <4>2. QED BY <1>2, <1>3, <3>1, <4>1 DEF Originals, OneHolder, SameRequests
    <3>2. QED BY <1>1, <3>1 DEF OneHolder
  <2>7. QED BY <2>3, <2>4, <2>5, <2>6 DEF Originals
<1>6. QED BY <1>4, <1>5

(* Its commit ends the row's interest in the file.                         *)
LEMMA CommitDeleteOriginals ==
  ASSUME OriginalsInv, NEW i \in DOMAIN requests, CommitDelete(i)
  PROVE  Originals'
<1> DEFINE v == requests[i].video
<1> USE DEF OriginalsInv
<1>1. /\ UNCHANGED <<rows, job>>
      /\ disk'.originals = disk.originals
      /\ disk'.removed = disk.removed \ ({v} \X {"original", "media"})
  BY Typed DEF CommitDelete, Disks
<1>2. requests[i] \in Range(requests) /\ v \in Videos
  BY Typed
<1>3. Range(requests)' \subseteq Range(requests)
  BY Typed, Removed DEF CommitDelete, Commits
<1>4. PICK media \in Encodings \cup {None} :
        video' = [video EXCEPT ![v].deleted = TRUE, ![v].original = None, ![v].media = media]
  BY <1>2, Typed DEF CommitDelete, Rows
<1> HIDE DEF v
<1>5. /\ video'[v].original = None /\ video'[v].deleted
      /\ video'[v].status = video[v].status
      /\ \A w \in Videos \ {v} : video'[w] = video[w]
  <2> DEFINE row == [video[v] EXCEPT !.deleted = TRUE, !.original = None, !.media = media]
  <2>1. row.original = None /\ row.deleted = TRUE /\ row.status = video[v].status
    BY <1>2, Typed DEF Rows
  <2>2. video' = [video EXCEPT ![v] = row]
    BY <1>4
  <2> HIDE DEF row
  <2>3. QED BY <1>2, <2>1, <2>2, Typed
<1>6. OriginalKept'
  <2>1. ASSUME NEW w \in Videos, Exists(w)', <<w, "original">> \notin disk'.removed,
               ~ (video'[w].original \in Legacy /\ rows'[video'[w].original].again)
        PROVE  Source(w)' = "whole"
    <3>1. w # v /\ video'[w] = video[w] /\ Exists(w)
      BY <1>2, <1>5, <2>1 DEF Exists
    <3>2. <<w, "original">> \notin disk.removed
      BY <1>1, <2>1, <3>1
    <3>3. Source(w) = "whole"
      BY <1>1, <2>1, <3>1, <3>2 DEF Originals, OriginalKept
    <3>4. QED BY <1>1, <3>1, <3>3 DEF Source
  <2>2. QED BY <2>1 DEF OriginalKept
<1>7. OriginalsNamed'
  BY <1>2, <1>5 DEF Originals, OriginalsNamed, Exists, Own
<1>8. RequestsName'
  BY <1>3, <1>5, Typed DEF Originals, RequestsName, Own
<1>9. OneHolder'
  <2>1. \A w \in Videos, f \in Legacy : video'[w].original = f => video[w].original = f
    BY <1>5, Identifiers
  <2>2. QED BY <1>1, <1>3, <2>1 DEF Originals, OneHolder
<1>10. QED BY <1>6, <1>7, <1>8, <1>9 DEF Originals

-----------------------------------------------------------------------------
(* Uploads and adoptions                                                   *)

(* A row that begins has the path it was given.                            *)
LEMMA RowBegunOriginal ==
  ASSUME video \in [Videos -> Rows], NEW v \in Videos, NEW path \in Paths,
         video' = [video EXCEPT ![v].status = "processing", ![v].original = path]
  PROVE  video'[v].original = path
<1> DEFINE row == [video[v] EXCEPT !.status = "processing", !.original = path]
<1>1. row.original = path
  BY DEF Rows
<1>2. video' = [video EXCEPT ![v] = row]
  OBVIOUS
<1> HIDE DEF row
<1>3. QED BY <1>1, <1>2

LEMMA UploadOriginals ==
  ASSUME OriginalsInv, NEW v \in Videos, Upload(v)
  PROVE  Originals'
<1> USE DEF OriginalsInv
<1>1. UNCHANGED <<rows, requests>>
  BY DEF Upload
<1>2. /\ video'[v].original = v /\ video'[v].status = "processing"
      /\ \A w \in Videos \ {v} : video'[w] = video[w]
  BY Typed, Identifiers, RowBegun, RowBegunOriginal DEF Upload
<1>3. /\ disk'.originals[v] = "whole"
      /\ \A p \in Paths \ {v} : disk'.originals[p] = disk.originals[p]
      /\ disk'.removed = disk.removed
  BY Typed, Identifiers DEF Upload, Disks
<1>4. \A f \in Legacy : job'[f].status = "running" => job[f].status = "running"
  BY Typed, NotBegun, Identifiers DEF Upload
<1>5. OriginalsNamed'
  BY <1>2, Identifiers DEF Originals, OriginalsNamed, Own, Exists
<1>6. OriginalKept'
  <2>1. ASSUME NEW w \in Videos, w # v, Exists(w)', <<w, "original">> \notin disk'.removed,
               ~ (video'[w].original \in Legacy /\ rows'[video'[w].original].again)
        PROVE  Source(w)' = "whole"
    <3>1. video'[w] = video[w] /\ Exists(w)
      BY <1>2, <2>1 DEF Exists
    <3>2. video[w].original \in Own(w) /\ video[w].original # None
      BY <3>1 DEF Originals, OriginalsNamed
    <3>3. video[w].original \in Paths \ {v}
      BY <2>1, <3>2, Identifiers DEF Own
    <3>4. Source(w) = "whole"
      BY <1>1, <1>3, <2>1, <3>1 DEF Originals, OriginalKept
    <3>5. QED BY <1>3, <3>1, <3>3, <3>4 DEF Source
  <2>2. Source(v)' = "whole"
    BY <1>2, <1>3, Identifiers DEF Source
  <2>3. QED BY <2>1, <2>2 DEF OriginalKept
<1>7. RequestsName'
  BY <1>1, <1>2, Typed DEF Originals, RequestsName, Range
<1>8. OneHolder'
  <2>1. \A w \in Videos, f \in Legacy : video'[w].original = f => video[w].original = f
    BY <1>2, Identifiers
  <2>2. \A f \in Legacy : disk'.originals[f] = disk.originals[f]
    BY <1>3, Identifiers
  <2>3. QED BY <1>1, <1>4, <2>1, <2>2 DEF Originals, OneHolder, Range
<1>9. QED BY <1>5, <1>6, <1>7, <1>8 DEF Originals

(* What an upload that failed leaves is the file of no row.                *)
LEMMA UploadFailsOriginals ==
  ASSUME OriginalsInv, NEW v \in Videos, UploadFails(v)
  PROVE  Originals'
<1> USE DEF OriginalsInv
<1>1. UNCHANGED <<video, rows, job, requests>> /\ ~ Exists(v)
  BY DEF UploadFails, Fresh, Unused, Exists
<1>2. /\ \A p \in Paths \ {v} : disk'.originals[p] = disk.originals[p]
      /\ disk'.removed = disk.removed
  BY Typed, Identifiers DEF UploadFails, Disks
<1>3. OriginalKept'
  <2>1. ASSUME NEW w \in Videos, Exists(w)', <<w, "original">> \notin disk'.removed,
               ~ (video'[w].original \in Legacy /\ rows'[video'[w].original].again)
        PROVE  Source(w)' = "whole"
    <3>1. Exists(w) /\ w # v /\ video'[w] = video[w]
      BY <1>1, <2>1 DEF Exists
    <3>2. Source(w) = "whole"
      BY <1>1, <1>2, <2>1, <3>1 DEF Originals, OriginalKept
    <3>3. video[w].original \in Paths \ {v}
      BY <3>1, Identifiers DEF Originals, OriginalsNamed, Own
    <3>4. QED BY <1>2, <3>1, <3>2, <3>3 DEF Source
  <2>2. QED BY <2>1 DEF OriginalKept
<1>4. OriginalsNamed' /\ RequestsName'
  BY <1>1 DEF Originals, OriginalsNamed, RequestsName, Range, Exists
<1>5. OneHolder'
  <2>1. \A f \in Legacy : disk'.originals[f] = disk.originals[f]
    BY <1>2, Identifiers
  <2>2. QED BY <1>1, <2>1 DEF Originals, OneHolder, Range
<1>6. QED BY <1>3, <1>4, <1>5 DEF Originals

(* Emptying a file that somebody holds marks it; else nobody's is emptied. *)
LEMMA BeginAdoptOriginals ==
  ASSUME OriginalsInv, NEW f \in Legacy, BeginAdopt(f)
  PROVE  Originals'
<1> USE DEF OriginalsInv
<1>1. UNCHANGED <<video, requests>>
  BY DEF BeginAdopt
<1>2. CASE ~ rows[f].known
  <2>1. /\ UNCHANGED <<disk, rows>>
        /\ job' = [job EXCEPT ![f] = [status |-> "failed", attempts |-> job[f].attempts + 1]]
    BY <1>2 DEF BeginAdopt
  <2>2. \A p \in Legacy : job'[p].status = "running" => job[p].status = "running"
    BY <2>1, Typed, Identifiers
  <2>3. QED BY <1>1, <2>1, <2>2, Unaffected DEF Exists, Range
<1>3. CASE rows[f].known
  <2> DEFINE held == \/ \E v \in Videos : video[v].original = f
                     \/ \E q \in Range(requests) : q.original = f
  <2>1. /\ job' = [job EXCEPT ![f] = [status |-> "running", attempts |-> job[f].attempts + 1]]
        /\ disk' = [disk EXCEPT !.originals[f] = "partial"]
        /\ rows' = [rows EXCEPT ![f].again = held]
    BY <1>3 DEF BeginAdopt
  <2>2. /\ rows'[f].again = held
        /\ \A g \in Legacy \ {f} : rows'[g] = rows[g]
    <3> HIDE DEF held
    <3>1. QED BY <2>1, Typed
  <2>3. /\ disk'.originals[f] = "partial"
        /\ \A p \in Paths \ {f} : disk'.originals[p] = disk.originals[p]
        /\ disk'.removed = disk.removed
    BY <2>1, Typed, Identifiers DEF Disks
  <2>4. \A g \in Legacy \ {f} : job'[g] = job[g]
    BY <2>1, Typed, Identifiers
  <2>5. OriginalKept'
    <3>1. ASSUME NEW w \in Videos, Exists(w)', <<w, "original">> \notin disk'.removed,
                 ~ (video'[w].original \in Legacy /\ rows'[video'[w].original].again)
          PROVE  Source(w)' = "whole"
      <4>1. Exists(w) /\ video'[w] = video[w]
        BY <1>1, <3>1 DEF Exists
      <4>2. video[w].original # f
        BY <2>2, <3>1, <4>1
      <4>3. ~ (video[w].original \in Legacy /\ rows[video[w].original].again)
        BY <2>2, <3>1, <4>1, <4>2
      <4>4. Source(w) = "whole"
        BY <2>3, <3>1, <4>1, <4>3 DEF Originals, OriginalKept
      <4>5. video[w].original \in Paths
        BY <4>1, Identifiers DEF Originals, OriginalsNamed, Own
      <4>6. QED BY <2>3, <4>1, <4>2, <4>4, <4>5 DEF Source
    <3>2. QED BY <3>1 DEF OriginalKept
  <2>6. OriginalsNamed' /\ RequestsName'
    BY <1>1 DEF Originals, OriginalsNamed, RequestsName, Range, Exists
  <2>7. OneHolder'
    <3>1. ASSUME NEW g \in Legacy, ~ rows'[g].again
          PROVE  /\ \A v, w \in Videos : video[v].original = g /\ video[w].original = g => v = w
                 /\ \A v \in Videos : \A q \in Range(requests) :
                      video[v].original = g /\ q.original = g => q.video = v
                 /\ job'[g].status = "running" =>
                      /\ disk'.originals[g] = "partial"
                      /\ \A v \in Videos : video[v].original # g
                      /\ \A q \in Range(requests) : q.original # g
      <4>1. CASE g = f
        BY <2>2, <2>3, <3>1, <4>1
      <4>2. CASE g # f
        <5>1. ~ rows[g].again /\ job'[g] = job[g] /\ disk'.originals[g] = disk.originals[g]
          BY <2>2, <2>3, <2>4, <3>1, <4>2, Identifiers
        <5>2. QED BY <5>1 DEF Originals, OneHolder
      <4>3. QED BY <4>1, <4>2
    <3>2. QED BY <1>1, <3>1 DEF OneHolder, Range
  <2>8. QED BY <2>5, <2>6, <2>7 DEF Originals
<1>4. QED BY <1>2, <1>3

(* A download that ends badly leaves the others' files alone, and its own  *)
(* is nobody's unless it was marked.                                       *)
LEMMA AdoptEndsOriginals ==
  ASSUME OriginalsInv, NEW f \in Legacy, AdoptFails(f) \/ AdoptCrashes(f)
  PROVE  Originals'
<1> USE DEF OriginalsInv
<1>1. UNCHANGED <<video, rows, requests>> /\ job[f].status = "running"
  BY DEF AdoptFails, AdoptCrashes
<1>2. PICK end \in {"failed", "crashed"} : job' = Ends(f, end)
  BY DEF AdoptFails, AdoptCrashes
<1>3. job'[f].status # "running" /\ \A g \in Legacy \ {f} : job'[g] = job[g]
  BY <1>2, Typed, Identifiers, JobEnded
<1>4. /\ \A p \in Paths \ {f} : disk'.originals[p] = disk.originals[p]
      /\ disk'.removed = disk.removed
  BY Typed, Identifiers DEF AdoptFails, AdoptCrashes, Downloaded, Disks
<1>5. OriginalKept'
  <2>1. ASSUME NEW w \in Videos, Exists(w)', <<w, "original">> \notin disk'.removed,
               ~ (video'[w].original \in Legacy /\ rows'[video'[w].original].again)
        PROVE  Source(w)' = "whole"
    <3>1. Exists(w) /\ video'[w] = video[w] /\ Source(w) = "whole"
      BY <1>1, <1>4, <2>1 DEF Exists, Originals, OriginalKept
    <3>2. video[w].original # f
      BY <1>1, <2>1 DEF Originals, OneHolder
    <3>3. video[w].original \in Paths
      BY <3>1, Identifiers DEF Originals, OriginalsNamed, Own
    <3>4. QED BY <1>4, <3>1, <3>2, <3>3 DEF Source
  <2>2. QED BY <2>1 DEF OriginalKept
<1>6. OriginalsNamed' /\ RequestsName'
  BY <1>1 DEF Originals, OriginalsNamed, RequestsName, Range, Exists
<1>7. OneHolder'
  <2>1. \A g \in Legacy : job'[g].status = "running" =>
          g # f /\ job[g].status = "running" /\ disk'.originals[g] = disk.originals[g]
    BY <1>3, <1>4, Identifiers
  <2>2. QED BY <1>1, <2>1 DEF Originals, OneHolder, Range
<1>8. QED BY <1>5, <1>6, <1>7 DEF Originals

(* One that ends well gives the file to the new video, and to it alone     *)
(* unless it was marked.                                                   *)
LEMMA FinishAdoptOriginals ==
  ASSUME OriginalsInv, NEW f \in Legacy, NEW v \in Videos, FinishAdopt(f, v)
  PROVE  Originals'
<1> USE DEF OriginalsInv
<1>1. UNCHANGED <<rows, requests>> /\ job[f].status = "running"
  BY DEF FinishAdopt
<1>2. /\ video'[v].original = f /\ video'[v].status = "processing"
      /\ \A w \in Videos \ {v} : video'[w] = video[w]
  BY Typed, Identifiers, RowBegun, RowBegunOriginal DEF FinishAdopt
<1>3. /\ disk.originals[f] = "partial" => disk'.originals[f] = "whole"
      /\ \A p \in Paths \ {f} : disk'.originals[p] = disk.originals[p]
      /\ disk'.removed = disk.removed
  BY Typed, Identifiers DEF FinishAdopt, Downloaded, Disks
<1>4. /\ Ends(f, "done") \in [Paths -> Jobs]
      /\ Ends(f, "done")[f].status = "done"
      /\ \A g \in Legacy \ {f} : Ends(f, "done")[g] = job[g]
  BY Typed, Identifiers, JobEnded
<1>5. \A g \in Legacy : job'[g].status = "running" => g # f /\ job[g].status = "running"
  BY <1>4, Identifiers, NotBegun DEF FinishAdopt
<1>6. OriginalsNamed'
  BY <1>2, Identifiers DEF Originals, OriginalsNamed, Own, Exists
<1>7. OriginalKept'
  <2>1. ASSUME NEW w \in Videos, w # v, Exists(w)', <<w, "original">> \notin disk'.removed,
               ~ (video'[w].original \in Legacy /\ rows'[video'[w].original].again)
        PROVE  Source(w)' = "whole"
    <3>1. Exists(w) /\ video'[w] = video[w]
      BY <1>2, <2>1 DEF Exists
    <3>2. Source(w) = "whole"
      BY <1>1, <1>3, <2>1, <3>1 DEF Originals, OriginalKept
    <3>3. video[w].original # f
      BY <1>1, <2>1, <3>1 DEF Originals, OneHolder
    <3>4. video[w].original \in Paths
      BY <3>1, Identifiers DEF Originals, OriginalsNamed, Own
    <3>5. QED BY <1>3, <3>1, <3>2, <3>3, <3>4 DEF Source
  <2>2. ASSUME ~ rows[f].again PROVE Source(v)' = "whole"
    <3>1. disk.originals[f] = "partial"
      BY <1>1, <2>2 DEF Originals, OneHolder
    <3>2. QED BY <1>2, <1>3, <3>1, Identifiers DEF Source
  <2>3. QED BY <1>1, <1>2, <2>1, <2>2 DEF OriginalKept
<1>8. RequestsName'
  BY <1>1, <1>2, Typed DEF Originals, RequestsName, Range
<1>9. OneHolder'
  <2>1. ASSUME NEW g \in Legacy, ~ rows[g].again
        PROVE  /\ \A w, x \in Videos : video'[w].original = g /\ video'[x].original = g => w = x
               /\ \A w \in Videos : \A q \in Range(requests) :
                    video'[w].original = g /\ q.original = g => q.video = w
               /\ job'[g].status = "running" =>
                    /\ disk'.originals[g] = "partial"
                    /\ \A w \in Videos : video'[w].original # g
                    /\ \A q \in Range(requests) : q.original # g
    <3>1. CASE g = f
      <4>1. /\ \A w \in Videos : video[w].original # f
            /\ \A q \in Range(requests) : q.original # f
        BY <1>1, <2>1, <3>1 DEF Originals, OneHolder
      <4>2. QED BY <1>2, <1>5, <3>1, <4>1
    <3>2. CASE g # f
      <4>1. \A w \in Videos : video'[w].original = g => video[w].original = g
        BY <1>2, <3>2
      <4>2. disk'.originals[g] = disk.originals[g]
        BY <1>3, <3>2, Identifiers
      <4>3. QED BY <1>5, <2>1, <4>1, <4>2 DEF Originals, OneHolder
    <3>3. QED BY <3>1, <3>2
  <2>2. QED BY <1>1, <2>1 DEF OneHolder, Range
<1>10. QED BY <1>6, <1>7, <1>8, <1>9 DEF Originals

-----------------------------------------------------------------------------
LEMMA InitOriginals == Init => Originals
<1> SUFFICES ASSUME Init PROVE Originals
  OBVIOUS
<1>1. \A v \in Videos : video[v].original = None /\ ~ Exists(v)
  BY DEF Init, Exists
<1>2. Range(requests) = {}
  BY DEF Init, Range
<1>3. \A f \in Legacy : job[f].status = "none" /\ f # None
  BY Identifiers DEF Init
<1>4. QED
  BY <1>1, <1>2, <1>3 DEF Originals, OriginalKept, OriginalsNamed, Own, RequestsName, OneHolder

LEMMA StepOriginals == OriginalsInv /\ [Next]_vars => OriginalsInv'
<1> SUFFICES ASSUME OriginalsInv, [Next]_vars PROVE OriginalsInv'
  OBVIOUS
<1>1. LibraryInv'
  BY StepInv DEF OriginalsInv
<1>2. ASSUME UNCHANGED vars PROVE Originals'
  BY <1>2, Unaffected, Typed DEF vars, Exists, Range
<1>3. ASSUME NEW v \in Videos, CheckRetry(v) \/ CheckDelete(v) PROVE Originals'
  BY <1>3, CheckedOriginals DEF CheckRetry, CheckDelete
<1>4. ASSUME NEW v \in Videos, NEW s \in Slots, CheckSchedule(s, v) PROVE Originals'
  BY <1>4, CheckedOriginals DEF CheckSchedule
<1>5. ASSUME Panel PROVE Originals'
  BY <1>3, <1>4, <1>5, UploadOriginals, UploadFailsOriginals, RemoveOriginalOriginals,
     CommitDeleteOriginals, StatusSteps, OtherSteps DEF Panel
<1>6. ASSUME Adoption PROVE Originals'
  BY <1>6, BeginAdoptOriginals, AdoptEndsOriginals, FinishAdoptOriginals, OtherSteps DEF Adoption
<1>7. ASSUME Conversion PROVE Originals'
  BY <1>7, StatusSteps, OtherSteps DEF Conversion, Advance
<1>8. Originals'
  BY <1>2, <1>5, <1>6, <1>7 DEF Next
<1>9. QED BY <1>1, <1>8 DEF OriginalsInv

(* The original of a video in the library is whole, so that a conversion   *)
(* that failed can be repeated: nothing but a second adoption of the same  *)
(* legacy file (worker.py:369-399), or a deletion of this very video that  *)
(* has not committed (library.py:205-214), empties or removes it.          *)
THEOREM OriginalsAreKept == Spec => []OriginalKept
<1>1. Init => OriginalsInv
  BY InitInv, InitOriginals DEF OriginalsInv
<1>2. OriginalsInv => OriginalKept
  BY DEF OriginalsInv, Originals
<1>3. QED BY <1>1, <1>2, StepOriginals, PTL DEF Spec
=============================================================================
