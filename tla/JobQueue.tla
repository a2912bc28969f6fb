------------------------------ MODULE JobQueue ------------------------------
(***************************************************************************)
(* The worker's task queue (jobs.py, and the dispatcher of worker.py): web *)
(* requests put jobs in a table of the database; the one worker process    *)
(* claims them, hands them to its pools and settles them; a worker that    *)
(* starts finds what the last one left running.                            *)
(*                                                                         *)
(* A key stands for what enqueue compares: type, store, video, payload.    *)
(* asked follows what people asked for: whether somebody asked for a key   *)
(* since a handler of that key last read what it works from (a cycle reads *)
(* the schedule when it plans), and what became of it.                     *)
(***************************************************************************)
EXTENDS Integers, FiniteSets

CONSTANTS
  Keys,
  NoKey,
  Media,        (* the keys of MEDIA_JOBS; the others are FTP_JOBS            *)
  Threads,      (* of the web processes, each with a request                  *)
  Slots,        (* MAX_PARALLEL                                               *)
  MaxAttempts,
  MaxJobs,      (* bounds: jobs,                                              *)
  MaxStarts,    (*   starts of the worker,                                    *)
  MaxBusy,      (*   jobs that find their store busy,                         *)
  MaxLocked     (*   jobs whose end cannot be written                         *)

ASSUME JobQueueAssumption ==
       /\ Media \subseteq Keys
       /\ NoKey \notin Keys
       /\ Slots \in Nat \ {0}
       /\ MaxAttempts \in Nat \ {0}
       /\ MaxJobs \in Nat /\ MaxStarts \in Nat /\ MaxBusy \in Nat /\ MaxLocked \in Nat

Ids == 1 .. MaxJobs

VARIABLES
  jobs,     (* status, key, attempts, delayed: not_before is in the future,   *)
            (* interrupted: how often a worker went away with it or could not *)
            (* write its end, lost: that one still runs (both history)        *)
  web,      (* the key each thread found no job for and is about to insert    *)
  worker,   (* down, up or stopping                                           *)
  claimed,  (* jobs handed to a pool and not begun                            *)
  begun,    (* jobs whose handler runs in a thread of a pool                  *)
  working,  (* those among them that have read what they work from            *)
  cycles,   (* scheduled cycles running in the FTP pool                       *)
  asked,    (* per key: no, waiting, late (merged into jobs already at work), *)
            (* givenUp                                                        *)
  left      (* what remains of the bounds                                     *)

vars == <<jobs, web, worker, claimed, begun, working, cycles, asked, left>>

WithStatus(s) == {i \in Ids : jobs[i].status = s}

Active(k) == {i \in WithStatus("pending") \cup WithStatus("running") : jobs[i].key = k}

MediaJobs(S) == {i \in S : jobs[i].key \in Media}
FtpJobs(S)   == S \ MediaJobs(S)

SetStatus(i, s) == jobs' = [jobs EXCEPT ![i].status = s]

Init == /\ jobs = [i \in Ids |-> [status |-> "none", key |-> NoKey, attempts |-> 0,
                               delayed |-> FALSE, interrupted |-> 0, lost |-> FALSE]]
        /\ web = [t \in Threads |-> NoKey]
        /\ worker = "down"
        /\ claimed = {}
        /\ begun = {}
        /\ working = {}
        /\ cycles = 0
        /\ asked = [k \in Keys |-> "no"]
        /\ left = [starts |-> MaxStarts, busy |-> MaxBusy, locked |-> MaxLocked]

-----------------------------------------------------------------------------
(* The web side.  enqueue returns a waiting or running job of the key ...  *)
Merge(t, k) ==
  /\ web[t] = NoKey
  /\ Active(k) # {}
  /\ asked' = [asked EXCEPT ![k] = IF Active(k) \subseteq working THEN "late" ELSE "waiting"]
  /\ UNCHANGED <<jobs, web, worker, claimed, begun, working, cycles, left>>

(* ... or finds none; the insert is another transaction.                   *)
LookUp(t, k) ==
  /\ web[t] = NoKey
  /\ Active(k) = {}
  /\ web' = [web EXCEPT ![t] = k]
  /\ UNCHANGED <<jobs, worker, claimed, begun, working, cycles, asked, left>>

Insert(t) ==
  /\ web[t] # NoKey
  /\ \E i \in WithStatus("none") :
       /\ \A j \in WithStatus("none") : i <= j
       /\ jobs' = [jobs EXCEPT ![i] = [@ EXCEPT !.status = "pending", !.key = web[t]]]
  /\ asked' = [asked EXCEPT ![web[t]] = "waiting"]
  /\ web' = [web EXCEPT ![t] = NoKey]
  /\ UNCHANGED <<worker, claimed, begun, working, cycles, left>>

-----------------------------------------------------------------------------
(* Mutant: what the last worker left is taken for the work of a live one.  *)
RecoveredNever(i) == jobs[i]

(* A worker starts.  recover_stale gives what the last one left running    *)
(* another chance, or fails it (here: gives it up) if it had them all.     *)
Recovered(i) ==
  IF jobs[i].status # "running" THEN jobs[i]
  ELSE IF jobs[i].attempts < MaxAttempts
         THEN [jobs[i] EXCEPT !.status = "pending", !.lost = FALSE]
         ELSE [jobs[i] EXCEPT !.status = "givenUp", !.lost = FALSE]

StartWorker ==
  /\ worker = "down"
  /\ left.starts > 0
  /\ left' = [left EXCEPT !.starts = @ - 1]
  /\ worker' = "up"
  /\ jobs' = [i \in Ids |-> Recovered(i)]
  /\ asked' = [k \in Keys |->
       IF asked[k] = "waiting" /\ \A i \in Active(k) : Recovered(i).status = "givenUp"
         THEN "givenUp" ELSE asked[k]]
  /\ UNCHANGED <<web, claimed, begun, working, cycles>>

(* dispatch: the oldest job of a kind that is due, if its pool has room.   *)
Claim(i) ==
  /\ jobs[i].status = "pending"
  /\ ~ jobs[i].delayed
  /\ \A j \in WithStatus("pending") :
       j < i => jobs[j].delayed \/ (jobs[j].key \in Media <=> jobs[i].key \notin Media)
  /\ jobs' = [jobs EXCEPT ![i].status = "running", ![i].attempts = @ + 1]
  /\ claimed' = claimed \cup {i}
  /\ UNCHANGED <<web, worker, begun, working, cycles, asked, left>>

ClaimMedia(i) ==
  /\ worker = "up"
  /\ jobs[i].key \in Media
  /\ MediaJobs(claimed \cup begun) = {}
  /\ Claim(i)

ClaimFtp(i) ==
  /\ worker = "up"
  /\ jobs[i].key \notin Media
  /\ Cardinality(FtpJobs(claimed \cup begun)) < Slots
  /\ Claim(i)

(* Scheduled cycles share the FTP pool, and may keep a claimed job waiting. *)
StartCycle ==
  /\ worker = "up"
  /\ Cardinality(FtpJobs(begun)) + cycles < Slots
  /\ cycles' = cycles + 1
  /\ UNCHANGED <<jobs, web, worker, claimed, begun, working, asked, left>>

EndCycle ==
  /\ cycles > 0
  /\ cycles' = cycles - 1
  /\ UNCHANGED <<jobs, web, worker, claimed, begun, working, asked, left>>

(* A thread picks the job up ...                                           *)
Begin(i) ==
  /\ i \in claimed
  /\ jobs[i].key \in Media \/ Cardinality(FtpJobs(begun)) + cycles < Slots
  /\ claimed' = claimed \ {i}
  /\ begun' = begun \cup {i}
  /\ UNCHANGED <<jobs, web, worker, working, cycles, asked, left>>

(* ... and its handler reads, with all that was asked so far.              *)
Work(i) ==
  /\ i \in begun \ working
  /\ working' = working \cup {i}
  /\ asked' = [asked EXCEPT ![jobs[i].key] = "no"]
  /\ UNCHANGED <<jobs, web, worker, claimed, begun, cycles, left>>

(* Mutant: the pool's count is not given back.                             *)
FinishKeepsSlot(i) ==
  /\ i \in working
  /\ \E s \in {"done", "failed"} : SetStatus(i, s)
  /\ working' = working \ {i}
  /\ UNCHANGED <<web, worker, claimed, begun, cycles, asked, left>>

(* finish: done, or failed, which whoever asked is told; the handlers      *)
(* never ask for a retry.                                                  *)
Finish(i) ==
  /\ i \in working
  /\ \E s \in {"done", "failed"} : SetStatus(i, s)
  /\ begun' = begun \ {i}
  /\ working' = working \ {i}
  /\ UNCHANGED <<web, worker, claimed, cycles, asked, left>>

FailEarly(i) ==
  /\ i \in begun \ working
  /\ SetStatus(i, "failed")
  /\ begun' = begun \ {i}
  /\ asked' = [asked EXCEPT ![jobs[i].key] = "no"]
  /\ UNCHANGED <<web, worker, claimed, working, cycles, left>>

(* The commit of the end fails (the database is locked, the disk full),    *)
(* and so does that of _run_job's own finish: the thread is free again and *)
(* the job stays marked as running.                                        *)
EndNotWritten(i) ==
  /\ i \in begun
  /\ left.locked > 0
  /\ left' = [left EXCEPT !.locked = @ - 1]
  /\ jobs' = [jobs EXCEPT ![i] = [@ EXCEPT !.interrupted = jobs[i].interrupted + 1,
                                         !.lost = TRUE]]
  /\ begun' = begun \ {i}
  /\ working' = working \ {i}
  /\ UNCHANGED <<web, worker, claimed, cycles, asked>>

(* Mutants: the try counts; a busy store ends the job.                     *)
PostponeCounted(i) ==
  /\ i \in begun \ working
  /\ jobs[i].key \notin Media
  /\ left.busy > 0
  /\ left' = [left EXCEPT !.busy = @ - 1]
  /\ jobs' = [jobs EXCEPT ![i].status = "pending", ![i].delayed = TRUE]
  /\ begun' = begun \ {i}
  /\ UNCHANGED <<web, worker, claimed, working, cycles, asked>>

PostponeDropped(i) ==
  /\ i \in begun \ working
  /\ jobs[i].key \notin Media
  /\ left.busy > 0
  /\ left' = [left EXCEPT !.busy = @ - 1]
  /\ SetStatus(i, "done")
  /\ begun' = begun \ {i}
  /\ UNCHANGED <<web, worker, claimed, working, cycles, asked>>

(* postpone: the store is busy; another try later, that does not count.    *)
Postpone(i) ==
  /\ i \in begun \ working
  /\ jobs[i].key \notin Media
  /\ left.busy > 0
  /\ left' = [left EXCEPT !.busy = @ - 1]
  /\ jobs' = [jobs EXCEPT ![i].status = "pending", ![i].attempts = @ - 1, ![i].delayed = TRUE]
  /\ begun' = begun \ {i}
  /\ UNCHANGED <<web, worker, claimed, working, cycles, asked>>

DelayPasses(i) ==
  /\ jobs[i].delayed
  /\ jobs' = [jobs EXCEPT ![i].delayed = FALSE]
  /\ UNCHANGED <<web, worker, claimed, begun, working, cycles, asked, left>>

-----------------------------------------------------------------------------
(* The worker goes away: on request, after the handlers that run, but      *)
(* dropping what had not begun; or at once.                                *)
LeftBehind(S) == [i \in Ids |-> IF i \in S THEN [jobs[i] EXCEPT !.interrupted = @ + 1]
                                           ELSE jobs[i]]

Shutdown ==
  /\ worker = "up"
  /\ left.starts > 0   \* bound: it can start again
  /\ worker' = "stopping"
  /\ jobs' = LeftBehind(claimed)
  /\ claimed' = {}
  /\ UNCHANGED <<web, begun, working, cycles, asked, left>>

Stopped ==
  /\ worker = "stopping"
  /\ begun = {} /\ cycles = 0
  /\ worker' = "down"
  /\ UNCHANGED <<jobs, web, claimed, begun, working, cycles, asked, left>>

Killed ==
  /\ worker # "down"
  /\ left.starts > 0   \* bound: it can start again
  /\ worker' = "down"
  /\ jobs' = LeftBehind(claimed \cup begun)
  /\ claimed' = {} /\ begun' = {} /\ working' = {} /\ cycles' = 0
  /\ UNCHANGED <<web, asked, left>>

-----------------------------------------------------------------------------
Ask(t, k) == Merge(t, k) \/ LookUp(t, k)

Dispatch == \E i \in Ids : ClaimMedia(i) \/ ClaimFtp(i)

Next == \/ \E t \in Threads : Insert(t) \/ \E k \in Keys : Ask(t, k)
        \/ StartWorker \/ Dispatch \/ Shutdown \/ Stopped \/ Killed
        \/ StartCycle \/ EndCycle
        \/ \E i \in Ids : \/ Begin(i) \/ Work(i) \/ Finish(i)
                          \/ FailEarly(i) \/ Postpone(i) \/ DelayPasses(i)
                          \/ EndNotWritten(i)

Spec == Init /\ [][Next]_vars

(* The service is restarted when it is down, dispatch polls, handlers and  *)
(* cycles end, delays pass.  The pools are first come, first served, so a  *)
(* claimed job that finds a free thread again and again gets one: strong   *)
(* fairness.                                                               *)
FairSpec ==
  /\ Spec
  /\ WF_vars(StartWorker) /\ WF_vars(Stopped) /\ WF_vars(Dispatch) /\ WF_vars(EndCycle)
  /\ \A i \in Ids : /\ SF_vars(Begin(i))
                   /\ WF_vars(Work(i)) /\ WF_vars(Finish(i)) /\ WF_vars(DelayPasses(i))
-----------------------------------------------------------------------------
Statuses == {"none", "pending", "running", "done", "failed", "givenUp"}

JobRecords ==
  [status : Statuses, key : Keys \cup {NoKey}, attempts : 0 .. MaxAttempts,
   delayed : BOOLEAN, interrupted : Nat, lost : BOOLEAN]

TypeOK ==
  /\ jobs \in [Ids -> JobRecords]
  /\ web \in [Threads -> Keys \cup {NoKey}]
  /\ worker \in {"down", "up", "stopping"}
  /\ claimed \subseteq WithStatus("running")
  /\ begun \subseteq WithStatus("running")
  /\ claimed \cap begun = {}
  /\ working \subseteq begun
  /\ cycles \in 0 .. Slots
  /\ asked \in [Keys -> {"no", "waiting", "late", "givenUp"}]
  /\ left \in [starts : 0 .. MaxStarts, busy : 0 .. MaxBusy, locked : 0 .. MaxLocked]

(* The attempts of a job count exactly the times a worker went away with   *)
(* it or could not write its end (a busy store does not count), so a job   *)
(* is given up only after MaxAttempts of them, and until then it always    *)
(* gets another chance (jobs.py:130, "without counting an attempt").       *)
OnlyInterruptionsCount ==
  \A i \in Ids :
    /\ jobs[i].status = "pending" => jobs[i].attempts = jobs[i].interrupted
    /\ jobs[i].status = "givenUp" => jobs[i].interrupted = MaxAttempts

(* What somebody asked for and no handler has read yet is never forgotten: *)
(* some job of the table will still bring it about, through restarts, busy *)
(* stores and requests that come twice.  A request merged into jobs that   *)
(* are all at work is late, and nothing is promised to it.                 *)
WaitingHasJob ==
  \A k \in Keys : asked[k] = "waiting" => Active(k) \ working # {}

(* What was asked is taken up, or given up after too many restarts; only   *)
(* where every job of the key is one whose end could not be written does   *)
(* it have to wait for the next start of the worker.                       *)
EventuallyTakenUp ==
  \A k \in Keys : asked[k] = "waiting" ~>
                     asked[k] # "waiting" \/ \A i \in Active(k) : jobs[i].lost
=============================================================================
