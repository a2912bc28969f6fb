--------------------------- MODULE JobQueueProofs ---------------------------
(***************************************************************************)
(* Proofs about JobQueue, for any keys, threads, slots and bounds.         *)
(***************************************************************************)
EXTENDS JobQueue, FiniteSetTheorems, TLAPS

(* How a job's attempts relate to the workers that went away with it, in   *)
(* each place the job can be.                                              *)
Counted(i) ==
  LET job == jobs[i]
  IN  /\ job.status \in {"none", "pending"} =>
           job.attempts = job.interrupted /\ job.attempts < MaxAttempts
      /\ i \in claimed \cup begun => job.attempts = job.interrupted + 1
      /\ job.status = "running" /\ i \notin claimed \cup begun =>
           job.attempts = job.interrupted
      /\ job.status = "givenUp" => job.interrupted = MaxAttempts

(* Jobs wait for a pool only in a worker that is up, and run only in one   *)
(* that is not down.                                                       *)
NothingInHand == /\ worker # "up" => claimed = {}
                 /\ worker = "down" => begun = {}

QueueInv == TypeOK /\ (\A i \in Ids : Counted(i)) /\ NothingInHand

(* A job that has yet to read what was asked for a key.                    *)
Serves(j, k) == /\ jobs[j].status \in {"pending", "running"}
                /\ jobs[j].key = k
                /\ j \notin working

AllInv == QueueInv /\ WaitingHasJob

(* What a step proves about the invariant's parts.                         *)
LEMMA InitInv == Init => QueueInv
  BY JobQueueAssumption
     DEF Init, QueueInv, TypeOK, JobRecords, Statuses, WithStatus, Counted, NothingInHand, Ids

LEMMA MergeInv ==
  ASSUME QueueInv, NEW t \in Threads, NEW k \in Keys, Merge(t, k)
  PROVE  QueueInv'
<1>1. TypeOK'
  BY JobQueueAssumption DEF Merge, QueueInv, TypeOK, JobRecords, Statuses, WithStatus, Counted, NothingInHand
<1>2. ASSUME NEW j \in Ids PROVE Counted(j)'
  BY JobQueueAssumption DEF Merge, QueueInv, TypeOK, JobRecords, Statuses, WithStatus, Counted, NothingInHand
<1>3. NothingInHand'
  BY DEF Merge, QueueInv, NothingInHand
<1>4. QED BY <1>1, <1>2, <1>3 DEF QueueInv

LEMMA LookUpInv ==
  ASSUME QueueInv, NEW t \in Threads, NEW k \in Keys, LookUp(t, k)
  PROVE  QueueInv'
<1>1. TypeOK'
  BY JobQueueAssumption DEF LookUp, QueueInv, TypeOK, JobRecords, Statuses, WithStatus, Counted, NothingInHand
<1>2. ASSUME NEW j \in Ids PROVE Counted(j)'
  BY JobQueueAssumption DEF LookUp, QueueInv, TypeOK, JobRecords, Statuses, WithStatus, Counted, NothingInHand
<1>3. NothingInHand'
  BY DEF LookUp, QueueInv, NothingInHand
<1>4. QED BY <1>1, <1>2, <1>3 DEF QueueInv

LEMMA InsertInv ==
  ASSUME QueueInv, NEW t \in Threads, Insert(t)
  PROVE  QueueInv'
<1>1. TypeOK'
  <2>1. PICK i \in WithStatus("none") :
          jobs' = [jobs EXCEPT ![i] = [jobs[i] EXCEPT !.status = "pending", !.key = web[t]]]
    BY DEF Insert
  <2>2. i \in Ids /\ web[t] \in Keys
    BY <2>1 DEF WithStatus, Insert, QueueInv, TypeOK
  <2>3. jobs' \in [Ids -> JobRecords]
    <3>1. [jobs[i] EXCEPT !.status = "pending", !.key = web[t]]
            \in JobRecords
      BY <2>2, ZenonT(40) DEF QueueInv, TypeOK, JobRecords, Statuses
    <3>2. QED BY <2>1, <2>2, <3>1 DEF QueueInv, TypeOK
  <2>4. i \notin claimed \cup begun /\ \A j \in Ids \ {i} : jobs'[j] = jobs[j]
    BY <2>1, <2>2 DEF WithStatus, QueueInv, TypeOK
  <2>5. QED
    BY <2>2, <2>3, <2>4 DEF Insert, WithStatus, QueueInv, TypeOK
<1>2. ASSUME NEW j \in Ids PROVE Counted(j)'
  BY JobQueueAssumption DEF Insert, QueueInv, TypeOK, JobRecords, Statuses, WithStatus, Counted, NothingInHand
<1>3. NothingInHand'
  BY DEF Insert, QueueInv, NothingInHand
<1>4. QED BY <1>1, <1>2, <1>3 DEF QueueInv

LEMMA StartInv ==
  ASSUME QueueInv, StartWorker
  PROVE  QueueInv'
<1>1. TypeOK'
  <2>1. ASSUME NEW j \in Ids PROVE Recovered(j) \in JobRecords
    BY ZenonT(40) DEF Recovered, QueueInv, TypeOK, JobRecords, Statuses
  <2>2. jobs' \in [Ids -> JobRecords]
    BY <2>1 DEF StartWorker
  <2>3. claimed = {} /\ begun = {} /\ working = {}
    BY DEF StartWorker, QueueInv, TypeOK, NothingInHand
  <2>4. QED
    BY <2>2, <2>3, JobQueueAssumption DEF StartWorker, WithStatus, QueueInv, TypeOK
<1>2. ASSUME NEW j \in Ids PROVE Counted(j)'
  <2>1. claimed = {} /\ begun = {} /\ claimed' = {} /\ begun' = {}
    BY DEF StartWorker, QueueInv, TypeOK, NothingInHand
  <2>2. jobs'[j] = Recovered(j) /\ jobs[j] \in JobRecords /\ Counted(j)
    BY DEF StartWorker, QueueInv, TypeOK
  <2>3. CASE jobs[j].status # "running"
    BY <2>1, <2>2, <2>3 DEF Recovered, Counted
  <2>4. CASE jobs[j].status = "running"
    <3>1. jobs[j].attempts = jobs[j].interrupted
      BY <2>1, <2>2, <2>4 DEF StartWorker, QueueInv, TypeOK, NothingInHand, WithStatus, Counted
    <3>2. /\ jobs'[j].status = IF jobs[j].attempts < MaxAttempts THEN "pending" ELSE "givenUp"
          /\ jobs'[j].attempts = jobs[j].attempts
          /\ jobs'[j].interrupted = jobs[j].interrupted
      BY <2>2, <2>4 DEF Recovered, JobRecords
    <3>3. jobs[j].attempts \in 0 .. MaxAttempts
      BY <2>2 DEF JobRecords
    <3>4. QED
      BY <2>1, <3>1, <3>2, <3>3, JobQueueAssumption DEF Counted
  <2>5. QED BY <2>3, <2>4
<1>3. NothingInHand'
  BY DEF StartWorker, Recovered, QueueInv, NothingInHand
<1>4. QED BY <1>1, <1>2, <1>3 DEF QueueInv

LEMMA ClaimMediaInv ==
  ASSUME QueueInv, NEW i \in Ids, ClaimMedia(i)
  PROVE  QueueInv'
<1>1. TypeOK'
  BY JobQueueAssumption DEF ClaimMedia, Claim, QueueInv, TypeOK, JobRecords, Statuses, WithStatus, Counted, NothingInHand
<1>2. ASSUME NEW j \in Ids PROVE Counted(j)'
  BY JobQueueAssumption DEF ClaimMedia, Claim, QueueInv, TypeOK, JobRecords, Statuses, WithStatus, Counted, NothingInHand
<1>3. NothingInHand'
  BY DEF ClaimMedia, Claim, QueueInv, NothingInHand
<1>4. QED BY <1>1, <1>2, <1>3 DEF QueueInv

LEMMA ClaimFtpInv ==
  ASSUME QueueInv, NEW i \in Ids, ClaimFtp(i)
  PROVE  QueueInv'
<1>1. TypeOK'
  BY JobQueueAssumption DEF ClaimFtp, Claim, QueueInv, TypeOK, JobRecords, Statuses, WithStatus, Counted, NothingInHand
<1>2. ASSUME NEW j \in Ids PROVE Counted(j)'
  BY JobQueueAssumption DEF ClaimFtp, Claim, QueueInv, TypeOK, JobRecords, Statuses, WithStatus, Counted, NothingInHand
<1>3. NothingInHand'
  BY DEF ClaimFtp, Claim, QueueInv, NothingInHand
<1>4. QED BY <1>1, <1>2, <1>3 DEF QueueInv

LEMMA BeginInv ==
  ASSUME QueueInv, NEW i \in Ids, Begin(i)
  PROVE  QueueInv'
<1>1. TypeOK'
  BY JobQueueAssumption DEF Begin, QueueInv, TypeOK, JobRecords, Statuses, WithStatus, Counted, NothingInHand
<1>2. ASSUME NEW j \in Ids PROVE Counted(j)'
  BY JobQueueAssumption DEF Begin, QueueInv, TypeOK, JobRecords, Statuses, WithStatus, Counted, NothingInHand
<1>3. NothingInHand'
  BY DEF Begin, QueueInv, NothingInHand
<1>4. QED BY <1>1, <1>2, <1>3 DEF QueueInv

LEMMA WorkInv ==
  ASSUME QueueInv, NEW i \in Ids, Work(i)
  PROVE  QueueInv'
<1>1. TypeOK'
  BY JobQueueAssumption DEF Work, QueueInv, TypeOK, JobRecords, Statuses, WithStatus, Counted, NothingInHand
<1>2. ASSUME NEW j \in Ids PROVE Counted(j)'
  BY JobQueueAssumption DEF Work, QueueInv, TypeOK, JobRecords, Statuses, WithStatus, Counted, NothingInHand
<1>3. NothingInHand'
  BY DEF Work, QueueInv, NothingInHand
<1>4. QED BY <1>1, <1>2, <1>3 DEF QueueInv

LEMMA FinishInv ==
  ASSUME QueueInv, NEW i \in Ids, Finish(i)
  PROVE  QueueInv'
<1>1. TypeOK'
  BY JobQueueAssumption DEF Finish, SetStatus, QueueInv, TypeOK, JobRecords, Statuses, WithStatus, Counted, NothingInHand
<1>2. ASSUME NEW j \in Ids PROVE Counted(j)'
  BY JobQueueAssumption DEF Finish, SetStatus, QueueInv, TypeOK, JobRecords, Statuses, WithStatus, Counted, NothingInHand
<1>3. NothingInHand'
  BY DEF Finish, SetStatus, QueueInv, NothingInHand
<1>4. QED BY <1>1, <1>2, <1>3 DEF QueueInv

LEMMA FailEarlyInv ==
  ASSUME QueueInv, NEW i \in Ids, FailEarly(i)
  PROVE  QueueInv'
<1>1. TypeOK'
  <2>1. jobs' \in [Ids -> JobRecords]
    BY DEF FailEarly, SetStatus, QueueInv, TypeOK, JobRecords, Statuses
  <2>2. \A j \in Ids \ {i} : jobs'[j].status = jobs[j].status
    BY DEF FailEarly, SetStatus, QueueInv, TypeOK
  <2>3. i \notin claimed
    BY DEF FailEarly, SetStatus, QueueInv, TypeOK, JobRecords
  <2>4. QED
    BY <2>1, <2>2, <2>3, JobQueueAssumption DEF FailEarly, SetStatus, WithStatus, QueueInv, TypeOK
<1>2. ASSUME NEW j \in Ids PROVE Counted(j)'
  BY JobQueueAssumption DEF FailEarly, SetStatus, QueueInv, TypeOK, JobRecords, Statuses, WithStatus, Counted, NothingInHand
<1>3. NothingInHand'
  BY DEF FailEarly, SetStatus, QueueInv, NothingInHand
<1>4. QED BY <1>1, <1>2, <1>3 DEF QueueInv

LEMMA PostponeInv ==
  ASSUME QueueInv, NEW i \in Ids, Postpone(i)
  PROVE  QueueInv'
<1>1. TypeOK'
  BY JobQueueAssumption DEF Postpone, QueueInv, TypeOK, JobRecords, Statuses, WithStatus, Counted, NothingInHand
<1>2. ASSUME NEW j \in Ids PROVE Counted(j)'
  BY JobQueueAssumption DEF Postpone, QueueInv, TypeOK, JobRecords, Statuses, WithStatus, Counted, NothingInHand
<1>3. NothingInHand'
  BY DEF Postpone, QueueInv, NothingInHand
<1>4. QED BY <1>1, <1>2, <1>3 DEF QueueInv

(* What EndNotWritten writes, for any number.                               *)
LEMMA LostRecord ==
  ASSUME NEW job \in JobRecords, NEW n \in Nat
  PROVE  LET r == [job EXCEPT !.interrupted = n, !.lost = TRUE]
         IN  /\ r \in JobRecords
             /\ r.status = job.status
             /\ r.key = job.key
             /\ r.attempts = job.attempts
             /\ r.interrupted = n
  BY DEF JobRecords

LEMMA EndNotWrittenInv ==
  ASSUME QueueInv, NEW i \in Ids, EndNotWritten(i)
  PROVE  QueueInv'
<1> DEFINE n == jobs[i].interrupted + 1
<1> DEFINE r == [jobs[i] EXCEPT !.interrupted = n, !.lost = TRUE]
<1>1. jobs \in [Ids -> JobRecords] /\ jobs' = [jobs EXCEPT ![i] = r]
  BY DEF EndNotWritten, QueueInv, TypeOK
<1>2. n \in Nat
  BY <1>1 DEF JobRecords
<1>3. /\ r \in JobRecords
      /\ r.status = jobs[i].status
      /\ r.key = jobs[i].key
      /\ r.attempts = jobs[i].attempts
      /\ r.interrupted = n
  <2> HIDE DEF n
  <2>1. jobs[i] \in JobRecords
    BY <1>1
  <2>2. QED BY <1>2, <2>1, LostRecord
<1> HIDE DEF r
<1>4. TypeOK'
  BY <1>1, <1>3, JobQueueAssumption DEF EndNotWritten, WithStatus, QueueInv, TypeOK
<1>5. ASSUME NEW j \in Ids PROVE Counted(j)'
  <2>1. CASE j # i
    BY <1>1, <2>1 DEF EndNotWritten, QueueInv, TypeOK, Counted
  <2>2. CASE j = i
    <3>1. i \notin claimed /\ jobs[i].status = "running" /\ Counted(i)
      BY DEF EndNotWritten, QueueInv, TypeOK, WithStatus
    <3>2. QED BY <1>1, <1>3, <2>2, <3>1 DEF EndNotWritten, Counted
  <2>3. QED BY <2>1, <2>2
<1>6. NothingInHand'
  BY DEF EndNotWritten, QueueInv, NothingInHand
<1>7. QED BY <1>4, <1>5, <1>6 DEF QueueInv

LEMMA DelayInv ==
  ASSUME QueueInv, NEW i \in Ids, DelayPasses(i)
  PROVE  QueueInv'
<1>1. TypeOK'
  <2>1. jobs' \in [Ids -> JobRecords]
    <3>1. [jobs[i] EXCEPT !.delayed = FALSE] \in JobRecords
      BY ZenonT(40) DEF QueueInv, TypeOK, JobRecords
    <3>2. jobs' = [jobs EXCEPT ![i] = [jobs[i] EXCEPT !.delayed = FALSE]]
      BY DEF DelayPasses
    <3>3. QED BY <3>1, <3>2 DEF QueueInv, TypeOK
  <2>2. \A j \in Ids \ {i} : jobs'[j].status = jobs[j].status
    BY DEF DelayPasses, QueueInv, TypeOK
  <2>3. jobs'[i].status = jobs[i].status
    BY DEF DelayPasses, QueueInv, TypeOK, JobRecords
  <2>4. QED
    BY <2>1, <2>2, <2>3, JobQueueAssumption DEF DelayPasses, WithStatus, QueueInv, TypeOK
<1>2. ASSUME NEW j \in Ids PROVE Counted(j)'
  BY JobQueueAssumption DEF DelayPasses, QueueInv, TypeOK, JobRecords, Statuses, WithStatus, Counted, NothingInHand
<1>3. NothingInHand'
  BY DEF DelayPasses, QueueInv, NothingInHand
<1>4. QED BY <1>1, <1>2, <1>3 DEF QueueInv

LEMMA ShutdownInv ==
  ASSUME QueueInv, Shutdown
  PROVE  QueueInv'
<1>1. TypeOK'
  <2>1. jobs' \in [Ids -> JobRecords]
    BY DEF Shutdown, LeftBehind, QueueInv, TypeOK, JobRecords
  <2>2. \A j \in Ids : jobs'[j].status = jobs[j].status
    BY DEF Shutdown, LeftBehind, QueueInv, TypeOK
  <2>3. QED
    BY <2>1, <2>2 DEF Shutdown, WithStatus, QueueInv, TypeOK
<1>2. ASSUME NEW j \in Ids PROVE Counted(j)'
  BY JobQueueAssumption DEF Shutdown, LeftBehind, QueueInv, TypeOK, JobRecords, Statuses, WithStatus, Counted, NothingInHand
<1>3. NothingInHand'
  BY DEF Shutdown, LeftBehind, QueueInv, NothingInHand
<1>4. QED BY <1>1, <1>2, <1>3 DEF QueueInv

LEMMA StoppedInv ==
  ASSUME QueueInv, Stopped
  PROVE  QueueInv'
<1>1. TypeOK'
  BY JobQueueAssumption DEF Stopped, QueueInv, TypeOK, JobRecords, Statuses, WithStatus, Counted, NothingInHand
<1>2. ASSUME NEW j \in Ids PROVE Counted(j)'
  BY JobQueueAssumption DEF Stopped, QueueInv, TypeOK, JobRecords, Statuses, WithStatus, Counted, NothingInHand
<1>3. NothingInHand'
  BY DEF Stopped, QueueInv, NothingInHand
<1>4. QED BY <1>1, <1>2, <1>3 DEF QueueInv

LEMMA KilledInv ==
  ASSUME QueueInv, Killed
  PROVE  QueueInv'
<1>1. TypeOK'
  BY JobQueueAssumption DEF Killed, LeftBehind, QueueInv, TypeOK, JobRecords, Statuses, WithStatus, Counted, NothingInHand
<1>2. ASSUME NEW j \in Ids PROVE Counted(j)'
  BY JobQueueAssumption DEF Killed, LeftBehind, QueueInv, TypeOK, JobRecords, Statuses, WithStatus, Counted, NothingInHand
<1>3. NothingInHand'
  BY DEF Killed, LeftBehind, QueueInv, NothingInHand
<1>4. QED BY <1>1, <1>2, <1>3 DEF QueueInv

(* The scheduled cycles never take more than the pool's threads.           *)
LEMMA CyclesInv ==
  ASSUME QueueInv, StartCycle \/ EndCycle
  PROVE  QueueInv'
<1>1. IsFiniteSet(FtpJobs(begun))
  <2>1. IsFiniteSet(Ids)
    BY FS_Interval, JobQueueAssumption DEF Ids
  <2>2. FtpJobs(begun) \subseteq Ids
    BY DEF FtpJobs, QueueInv, TypeOK, WithStatus
  <2>3. QED BY <2>1, <2>2, FS_Subset
<1>2. Cardinality(FtpJobs(begun)) \in Nat
  BY <1>1, FS_CardinalityType
<1>3. cycles' \in 0 .. Slots
  BY <1>2, JobQueueAssumption DEF StartCycle, EndCycle, QueueInv, TypeOK
<1>4. TypeOK'
  BY <1>3 DEF StartCycle, EndCycle, QueueInv, TypeOK, WithStatus
<1>5. ASSUME NEW j \in Ids PROVE Counted(j)'
  BY DEF StartCycle, EndCycle, QueueInv, Counted
<1>6. NothingInHand'
  BY DEF StartCycle, EndCycle, QueueInv, NothingInHand
<1>7. QED BY <1>4, <1>5, <1>6 DEF QueueInv

LEMMA NextInv == QueueInv /\ [Next]_vars => QueueInv'
<1> SUFFICES ASSUME QueueInv, [Next]_vars PROVE QueueInv'
  OBVIOUS
<1>1. ASSUME NEW t \in Threads, Insert(t) \/ \E k \in Keys : Ask(t, k)
      PROVE  QueueInv'
  BY <1>1, InsertInv, MergeInv, LookUpInv DEF Ask
<1>2. CASE StartWorker \/ Shutdown \/ Stopped \/ Killed
  BY <1>2, StartInv, ShutdownInv, StoppedInv, KilledInv
<1>3. CASE Dispatch
  BY <1>3, ClaimMediaInv, ClaimFtpInv DEF Dispatch
<1>4. CASE StartCycle \/ EndCycle
  BY <1>4, CyclesInv
<1>5. ASSUME NEW i \in Ids,
             \/ Begin(i) \/ Work(i) \/ Finish(i)
             \/ FailEarly(i) \/ Postpone(i) \/ DelayPasses(i)
             \/ EndNotWritten(i)
      PROVE  QueueInv'
  BY <1>5, EndNotWrittenInv, BeginInv, WorkInv, FinishInv, FailEarlyInv, PostponeInv, DelayInv
<1>6. CASE UNCHANGED vars
  <2>1. TypeOK'
    BY <1>6 DEF vars, QueueInv, TypeOK, WithStatus
  <2>2. ASSUME NEW j \in Ids PROVE Counted(j)'
    BY <1>6 DEF vars, QueueInv, Counted
  <2>3. NothingInHand'
    BY <1>6 DEF vars, QueueInv, NothingInHand
  <2>4. QED BY <2>1, <2>2, <2>3 DEF QueueInv
<1>7. QED BY <1>1, <1>2, <1>3, <1>4, <1>5, <1>6 DEF Next

THEOREM QueueInvariant == Spec => []QueueInv
  BY InitInv, NextInv, PTL DEF Spec

-----------------------------------------------------------------------------
(* Every state of the queue is well formed: attempts never exceed the      *)
(* maximum, and what is in a pool is marked as running.                    *)
THEOREM QueueTypeCorrect == Spec => []TypeOK
<1>1. QueueInv => TypeOK
  BY DEF QueueInv
<1>2. QED BY <1>1, QueueInvariant, PTL

(* A job loses an attempt only to a worker that went away with it.         *)
THEOREM InterruptionsCount == Spec => []OnlyInterruptionsCount
<1>1. QueueInv => OnlyInterruptionsCount
  BY DEF QueueInv, Counted, OnlyInterruptionsCount
<1>2. QED BY <1>1, QueueInvariant, PTL

-----------------------------------------------------------------------------
LEMMA ServedMeansWaitingHasJob ==
  WaitingHasJob <=> \A k \in Keys : asked[k] = "waiting" => \E j \in Ids : Serves(j, k)
  BY DEF WaitingHasJob, Serves, Active, WithStatus

LEMMA ServedNext ==
  ASSUME (\A k \in Keys : asked[k] = "waiting" => \E j \in Ids : Serves(j, k))'
  PROVE  WaitingHasJob'
  BY DEF WaitingHasJob, Serves, Active, WithStatus

(* Every step leaves each waiting key a job that serves it: the same one,  *)
(* or the one just inserted, or the key is no longer waiting.              *)
LEMMA WaitingNext ==
  ASSUME QueueInv, WaitingHasJob, [Next]_vars
  PROVE  WaitingHasJob'
<1> USE ServedMeansWaitingHasJob
<1>1. ASSUME NEW t \in Threads, Insert(t) PROVE WaitingHasJob'
  <2>1. PICK i \in WithStatus("none") :
          jobs' = [jobs EXCEPT ![i] = [jobs[i] EXCEPT !.status = "pending", !.key = web[t]]]
    BY <1>1 DEF Insert
  <2>2. i \in Ids /\ i \notin working /\ web[t] \in Keys
    BY <1>1, <2>1 DEF WithStatus, Insert, QueueInv, TypeOK
  <2>3. jobs'[i].status = "pending" /\ jobs'[i].key = web[t]
    BY <2>1, <2>2 DEF QueueInv, TypeOK
  <2>4. \A j \in Ids \ {i} : jobs'[j] = jobs[j]
    BY <2>1, <2>2 DEF QueueInv, TypeOK
  <2>5. ASSUME NEW k \in Keys, asked'[k] = "waiting"
        PROVE  \E j \in Ids : Serves(j, k)'
    <3>1. CASE k = web[t]
      BY <1>1, <2>2, <2>3, <3>1 DEF Serves, Insert
    <3>2. CASE k # web[t]
      <4>1. PICK j \in Ids : Serves(j, k)
        BY <1>1, <2>2, <2>5, <3>2 DEF Insert, QueueInv, TypeOK
      <4>2. j # i
        BY <2>1, <4>1 DEF WithStatus, Serves
      <4>3. QED BY <1>1, <2>4, <4>1, <4>2 DEF Insert, Serves
    <3>3. QED BY <3>1, <3>2
  <2>6. QED BY <2>5, ServedNext
<1>2. ASSUME NEW t \in Threads, NEW k \in Keys, Merge(t, k) PROVE WaitingHasJob'
  BY <1>2 DEF Merge, WaitingHasJob, Active, WithStatus, QueueInv, TypeOK
<1>3. ASSUME NEW t \in Threads, NEW k \in Keys, LookUp(t, k) PROVE WaitingHasJob'
  BY <1>3 DEF LookUp, WaitingHasJob, Active, WithStatus
<1>4. CASE StartWorker
  <2>1. working = {}
    BY <1>4 DEF StartWorker, QueueInv, TypeOK, NothingInHand
  <2>2. ASSUME NEW k \in Keys, asked'[k] = "waiting"
        PROVE  \E j \in Ids : Serves(j, k)'
    <3>1. PICK j \in Active(k) : Recovered(j).status # "givenUp"
      BY <1>4, <2>2 DEF StartWorker, WaitingHasJob
    <3>2. j \in Ids /\ jobs[j].key = k /\ jobs[j].status \in {"pending", "running"}
      BY <3>1 DEF Active, WithStatus
    <3>3. jobs'[j].status = "pending" /\ jobs'[j].key = k
      BY <1>4, <3>1, <3>2, ZenonT(40) DEF StartWorker, Recovered, QueueInv, TypeOK, JobRecords
    <3>4. QED BY <1>4, <2>1, <3>2, <3>3 DEF StartWorker, Serves
  <2>3. QED BY <2>2, ServedNext
<1>5. ASSUME NEW i \in Ids, ClaimMedia(i) \/ ClaimFtp(i) PROVE WaitingHasJob'
  <2>1. \A j \in Ids, k \in Keys : Serves(j, k) => Serves(j, k)'
    BY <1>5 DEF ClaimMedia, ClaimFtp, Claim, Serves, QueueInv, TypeOK, JobRecords
  <2>2. QED BY <1>5, <2>1, ServedNext DEF ClaimMedia, ClaimFtp, Claim
<1>6. ASSUME NEW i \in Ids, Begin(i) PROVE WaitingHasJob'
  BY <1>6 DEF Begin, WaitingHasJob, Active, WithStatus
<1>7. ASSUME NEW i \in Ids, Work(i) PROVE WaitingHasJob'
  <2>1. ASSUME NEW k \in Keys, asked'[k] = "waiting"
        PROVE  \E j \in Ids : Serves(j, k)'
    <3>1. k # jobs[i].key /\ asked[k] = "waiting"
      BY <1>7, <2>1 DEF Work, QueueInv, TypeOK
    <3>2. PICK j \in Ids : Serves(j, k)
      BY <3>1
    <3>3. QED BY <1>7, <3>1, <3>2 DEF Work, Serves
  <2>2. QED BY <2>1, ServedNext
<1>8. ASSUME NEW i \in Ids, Finish(i) PROVE WaitingHasJob'
  <2>1. \A j \in Ids, k \in Keys : Serves(j, k) => Serves(j, k)'
    BY <1>8 DEF Finish, SetStatus, Serves, QueueInv, TypeOK, JobRecords
  <2>2. QED BY <1>8, <2>1, ServedNext DEF Finish
<1>9. ASSUME NEW i \in Ids, EndNotWritten(i) PROVE WaitingHasJob'
  <2>1. \A j \in Ids : jobs'[j].status = jobs[j].status /\ jobs'[j].key = jobs[j].key
    BY <1>9 DEF EndNotWritten, QueueInv, TypeOK, JobRecords
  <2>2. \A j \in Ids, k \in Keys : Serves(j, k) => Serves(j, k)'
    BY <1>9, <2>1 DEF EndNotWritten, Serves
  <2>3. QED BY <1>9, <2>2, ServedNext DEF EndNotWritten
<1>10. ASSUME NEW i \in Ids, FailEarly(i) PROVE WaitingHasJob'
  <2>1. ASSUME NEW k \in Keys, asked'[k] = "waiting"
        PROVE  \E j \in Ids : Serves(j, k)'
    <3>1. k # jobs[i].key /\ asked[k] = "waiting"
      BY <1>10, <2>1 DEF FailEarly, QueueInv, TypeOK
    <3>2. PICK j \in Ids : Serves(j, k)
      BY <3>1
    <3>3. QED BY <1>10, <3>1, <3>2 DEF FailEarly, SetStatus, Serves, QueueInv, TypeOK, JobRecords
  <2>2. QED BY <2>1, ServedNext
<1>11. ASSUME NEW i \in Ids, Postpone(i) \/ DelayPasses(i) PROVE WaitingHasJob'
  <2>1. \A j \in Ids, k \in Keys : Serves(j, k) => Serves(j, k)'
    BY <1>11 DEF Postpone, DelayPasses, Serves, QueueInv, TypeOK, JobRecords
  <2>2. QED BY <1>11, <2>1, ServedNext DEF Postpone, DelayPasses
<1>12. CASE Shutdown \/ Killed
  <2>1. \A j \in Ids, k \in Keys : Serves(j, k) => Serves(j, k)'
    BY <1>12 DEF Shutdown, Killed, LeftBehind, Serves, QueueInv, TypeOK, JobRecords
  <2>2. QED BY <1>12, <2>1, ServedNext DEF Shutdown, Killed
<1>13. CASE Stopped \/ StartCycle \/ EndCycle \/ UNCHANGED vars
  BY <1>13 DEF Stopped, StartCycle, EndCycle, vars, WaitingHasJob, Active, WithStatus
<1>14. QED
  BY <1>1, <1>2, <1>3, <1>4, <1>5, <1>6, <1>7, <1>8, <1>9, <1>10, <1>11, <1>12, <1>13
     DEF Next, Ask, Dispatch

(* Whatever was asked and not yet read has a job that will bring it about. *)
THEOREM NothingForgotten == Spec => []WaitingHasJob
<1>1. Init => AllInv
  BY InitInv DEF AllInv, Init, WaitingHasJob
<1>2. AllInv /\ [Next]_vars => AllInv'
  BY NextInv, WaitingNext DEF AllInv
<1>3. AllInv => WaitingHasJob
  BY DEF AllInv
<1>4. QED BY <1>1, <1>2, <1>3, PTL DEF Spec
=============================================================================
