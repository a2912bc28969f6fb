---------------------------- MODULE DeviceLease ----------------------------
(***************************************************************************)
(* The lease of one store (reconciler/cycle.py): the row's lock_owner and  *)
(* lock_expires_at, taken by whoever runs a cycle - threads of the worker, *)
(* the command line - renewed before every FTP action and every so often   *)
(* while a file is being sent, and released at the end.                    *)
(*                                                                         *)
(* Time is relative: lease.left is lock_expires_at - now (-1: in the past, *)
(* however long ago), since[p] the time since p renewed, pause[p] the time *)
(* since p was cleared to write.  A process is an owner string (host, pid, *)
(* thread): one that died comes back as another.                           *)
(***************************************************************************)
EXTENDS Integers, FiniteSets

CONSTANTS
  Owners,
  Nobody,
  TTL,         (* LOCK_TTL: 30 minutes                                        *)
  RenewEvery,  (* LEASE_RENEW_S: 30 seconds                                   *)
  MaxPause     (* the longest a process takes from a check to the FTP write   *)
               (* it cleared: hashing the local file, the FTP timeout ...     *)

ASSUME LeaseAssumption ==
       /\ Nobody \notin Owners
       /\ TTL \in Nat
       /\ RenewEvery \in Nat \ {0}
       /\ MaxPause \in Nat
       /\ RenewEvery + MaxPause <= TTL

VARIABLES
  lease,  (* owner (or Nobody) and the time left                              *)
  phase,  (* out; in: listing, planning or between actions; cleared: about to *)
          (* write; sent: a block went out; ending; dead                      *)
  since,  (* since the last renewal, up to RenewEvery (no matter beyond)      *)
  pause   (* since the go-ahead                                               *)

leaseVars == <<lease, phase, since, pause>>

Writing == {p \in Owners : phase[p] = "cleared"}

LeaseInit == /\ lease = [owner |-> Nobody, left |-> -1]
        /\ phase = [p \in Owners |-> "out"]
        /\ since = [p \in Owners |-> 0]
        /\ pause = [p \in Owners |-> 0]

-----------------------------------------------------------------------------
(* Mutants: an expired lease is not taken over; or it is, a moment early.   *)
AcquireNeverExpired(p) ==
  /\ phase[p] = "out"
  /\ lease.owner \in {Nobody, p}
  /\ lease' = [owner |-> p, left |-> TTL]
  /\ phase' = [phase EXCEPT ![p] = "in"]
  /\ UNCHANGED <<since, pause>>

AcquireLastMoment(p) ==
  /\ phase[p] = "out"
  /\ lease.owner \in {Nobody, p} \/ lease.left <= 1
  /\ lease' = [owner |-> p, left |-> TTL]
  /\ phase' = [phase EXCEPT ![p] = "in"]
  /\ UNCHANGED <<since, pause>>

(* acquire_lock: free, expired or already mine.  Otherwise the store is    *)
(* busy and the cycle does not start.                                      *)
Acquire(p) ==
  /\ phase[p] = "out"
  /\ lease.owner \in {Nobody, p} \/ lease.left < 0
  /\ lease' = [owner |-> p, left |-> TTL]
  /\ phase' = [phase EXCEPT ![p] = "in"]
  /\ UNCHANGED <<since, pause>>

Cleared(p) == /\ phase' = [phase EXCEPT ![p] = "cleared"]
              /\ pause' = [pause EXCEPT ![p] = 0]

(* keep_lease(now=True) and its periodic form: renew if the lease is still *)
(* mine, expired or not; otherwise LeaseLost ends the cycle.               *)
Extend(p) ==
  /\ lease.owner = p
  /\ lease' = [lease EXCEPT !.left = TTL]
  /\ since' = [since EXCEPT ![p] = 0]
  /\ Cleared(p)

Lose(p) ==
  /\ lease.owner # p
  /\ phase' = [phase EXCEPT ![p] = "ending"]
  /\ UNCHANGED <<lease, since, pause>>

(* Mutant: the file is sent without another look at the lease.             *)
ProgressUnchecked(p) ==
  /\ phase[p] = "sent"
  /\ Cleared(p)
  /\ UNCHANGED <<lease, since>>

(* Before every action of the plan.                                        *)
BeforeAction(p) == phase[p] = "in" /\ (Extend(p) \/ Lose(p))

(* An FTP write: a block of a file, after which progress is reported ...   *)
SendBlock(p) ==
  /\ phase[p] = "cleared"
  /\ phase' = [phase EXCEPT ![p] = "sent"]
  /\ UNCHANGED <<lease, since, pause>>

(* ... and the lease renewed if that is due ...                            *)
Progress(p) ==
  /\ phase[p] = "sent"
  /\ IF since[p] < RenewEvery
       THEN Cleared(p) /\ UNCHANGED <<lease, since>>
       ELSE Extend(p) \/ Lose(p)

(* ... or the write that ends an action: a rename, a deletion, a directory. *)
FinishAction(p) ==
  /\ phase[p] = "cleared"
  /\ phase' = [phase EXCEPT ![p] = "in"]
  /\ UNCHANGED <<lease, since, pause>>

(* An action failed, or the link dropped: no more writes in this cycle.    *)
Abort(p) ==
  /\ phase[p] \in {"cleared", "sent"}
  /\ phase' = [phase EXCEPT ![p] = "ending"]
  /\ UNCHANGED <<lease, since, pause>>

(* Mutant: the lease is freed whoever holds it.                            *)
ReleaseAny(p) ==
  /\ phase[p] \in {"in", "ending"}
  /\ phase' = [phase EXCEPT ![p] = "out"]
  /\ lease' = [owner |-> Nobody, left |-> -1]
  /\ UNCHANGED <<since, pause>>

(* release_lock, which frees the lease only if it is still mine.           *)
Release(p) ==
  /\ phase[p] \in {"in", "ending"}
  /\ phase' = [phase EXCEPT ![p] = "out"]
  /\ lease' = IF lease.owner = p THEN [owner |-> Nobody, left |-> -1] ELSE lease
  /\ UNCHANGED <<since, pause>>

(* The release failed (the database was locked): the lease stays behind.   *)
ReleaseFails(p) ==
  /\ phase[p] \in {"in", "ending"}
  /\ phase' = [phase EXCEPT ![p] = "out"]
  /\ UNCHANGED <<lease, since, pause>>

(* A process dies.  Bound: one process always survives.                    *)
Crash(p) ==
  /\ phase[p] # "dead"
  /\ \E q \in Owners \ {p} : phase[q] # "dead"
  /\ phase' = [phase EXCEPT ![p] = "dead"]
  /\ UNCHANGED <<lease, since, pause>>

-----------------------------------------------------------------------------
(* Time.  A cleared write happens (or fails) within MaxPause.              *)
Tick ==
  /\ \A p \in Writing : pause[p] < MaxPause
  /\ lease' = [lease EXCEPT !.left = IF @ < 0 THEN @ ELSE @ - 1]
  /\ since' = [p \in Owners |-> IF since[p] < RenewEvery THEN since[p] + 1 ELSE since[p]]
  /\ pause' = [p \in Owners |-> IF phase[p] = "cleared" THEN pause[p] + 1 ELSE pause[p]]
  /\ UNCHANGED phase

(* What a live process gets on with.                                       *)
CycleStep(p) == \/ BeforeAction(p)
           \/ SendBlock(p)
           \/ Progress(p)
           \/ FinishAction(p)
           \/ Abort(p)
           \/ Release(p)

LeaseNext == \/ \E p \in Owners : Acquire(p) \/ CycleStep(p) \/ ReleaseFails(p) \/ Crash(p)
        \/ Tick

LeaseSpec == LeaseInit /\ [][LeaseNext]_leaseVars

-----------------------------------------------------------------------------
Phases == {"out", "in", "cleared", "sent", "ending", "dead"}

LeaseTypeOK == /\ lease \in [owner : Owners \cup {Nobody}, left : -1 .. TTL]
          /\ phase \in [Owners -> Phases]
          /\ since \in [Owners -> 0 .. RenewEvery]
          /\ pause \in [Owners -> 0 .. MaxPause]

(* No two processes are about to write to the Pi at the same time: while   *)
(* one is cleared for its next block, rename or deletion, no other is      *)
(* (README.md:118).                                                        *)
AtMostOneWriter == \A p, q \in Writing : p = q

(* Whoever is about to write holds the lease, and it has not expired: what *)
(* the process checked before still holds when its write goes out.         *)
ClearedUnderLease ==
  \A p \in Writing : lease.owner = p /\ lease.left >= 0

(* The lease keeps the promise of OneWriter.                               *)
Promise == INSTANCE OneWriter WITH holder <- lease.owner, writers <- Writing

OneCycleWritesAtATime == Promise!Spec

(* A process that dies with the lease does not keep the store from being   *)
(* synchronised for ever: somebody else takes it over.                     *)
TakenOver == \A p \in Owners : (phase[p] = "dead" /\ lease.owner = p) ~> lease.owner # p
=============================================================================
