------------------------------- MODULE Backup -------------------------------
(***************************************************************************)
(* The database file, its backups and their restoration (backup.py, the    *)
(* backup commands of cli.py), beside the two services that have the file  *)
(* open and the heartbeat by which the command knows of one of them        *)
(* (status.py, worker.py).                                                 *)
(*                                                                         *)
(* Data.  What the database holds is the number of commits that made it.   *)
(* The file at the database's path is [gen, main, wal, beat]: a new file   *)
(* has a new gen; what the main file holds and what the write-ahead log    *)
(* beside it adds up to, or NoLog; how the last heartbeat looks.  A        *)
(* backup file is [holds, age]; age in days.  SQLite's own copy is one     *)
(* step; SQLite folds the log into the main file when the last connection  *)
(* closes, not when a process is killed.                                   *)
(***************************************************************************)
EXTENDS Integers, FiniteSets

CONSTANTS
  NoLog,
  Torn,         (* what no commit ever made: half a copy, or two files mixed  *)
  Retention,    (* RETENTION, in days                                         *)
  MaxCommits,   (* bounds: commits,                                           *)
  MaxBackups,   (*   backup files,                                            *)
  MaxRestores   (*   restores begun                                           *)

ASSUME BackupAssumption == {Retention, MaxCommits} \subseteq Nat

VARIABLES
  dbfile,     (* the file at the database's path                              *)
  running,    (* the phase of each service                                    *)
  has,        (* the gen of the file each service has open, 0 for none        *)
  commits,    (* how many there were                                          *)
  taking,     (* the backup being taken: what was copied, or NoLog            *)
  backups,    (* the backup files                                             *)
  restoring,  (* the restore under way                                        *)
  restores    (* what remains of the bound                                    *)

backupVars == <<dbfile, running, has, commits, taking, backups, restoring, restores>>

Services == {"web", "worker"}

Holds(file) == IF file.wal = NoLog THEN file.main ELSE file.wal

(* step: idle, checked (the worker is not alive), closed (confirmed, and   *)
(* the command's own connections closed), unlinked (no log any more),      *)
(* copied.  from: what the backup holds.  before, quiet, late: what the    *)
(* database held; no service ran since the check; the worker ran, unseen   *)
(* by the check.                                                           *)
NotRestoring == [step |-> "idle", from |-> NoLog, before |-> NoLog, quiet |-> FALSE, late |-> FALSE]

BackupInit ==
  /\ dbfile = [gen |-> 1, main |-> 0, wal |-> NoLog, beat |-> "none"]
  /\ running = [s \in Services |-> "down"]
  /\ has = [s \in Services |-> 0]
  /\ commits = 0
  /\ taking = NoLog
  /\ backups = {}
  /\ restoring = NotRestoring
  /\ restores = MaxRestores

-----------------------------------------------------------------------------
(* The services.  A worker beats from the end of its start until it is     *)
(* told to stop; what its pools still run goes on after that.              *)

Noticed(s) == restoring' = IF restoring.step = "idle" THEN restoring
                           ELSE [restoring EXCEPT !.quiet = FALSE, !.late = @ \/ s = "worker"]

Start(s) ==
  /\ running[s] = "down"
  /\ running' = [running EXCEPT ![s] = IF s = "web" THEN "up" ELSE "starting"]
  /\ has' = [has EXCEPT ![s] = dbfile.gen]
  /\ Noticed(s)
  /\ UNCHANGED <<dbfile, commits, taking, backups, restores>>

Beaten(how) == IF has["worker"] = dbfile.gen THEN [dbfile EXCEPT !.beat = how] ELSE dbfile

(* Every 30 seconds from now on, so the last beat is never two minutes old *)
(* while the worker is up.                                                 *)
FirstBeat ==
  /\ running["worker"] = "starting"
  /\ running' = [running EXCEPT !["worker"] = "up"]
  /\ dbfile' = Beaten("fresh")
  /\ UNCHANGED <<has, commits, taking, backups, restoring, restores>>

(* shutdown: the scheduler first, beats included.                          *)
Drain ==
  /\ running["worker"] = "up"
  /\ running' = [running EXCEPT !["worker"] = "draining"]
  /\ UNCHANGED <<dbfile, has, commits, taking, backups, restoring, restores>>

BeatAges ==
  /\ running["worker"] # "up" \/ has["worker"] # dbfile.gen
  /\ dbfile.beat = "fresh"
  /\ dbfile' = [dbfile EXCEPT !.beat = "stale"]
  /\ UNCHANGED <<running, has, commits, taking, backups, restoring, restores>>

(* A connection to file closes; the last one folds the log.                *)
Closed(file, others) ==
  IF \E s \in others : has[s] = file.gen THEN file
  ELSE [file EXCEPT !.main = Holds(file), !.wal = NoLog]

Stop(s) ==
  /\ running[s] \in {"up", "draining"}
  /\ s = "worker" => running[s] = "draining"
  /\ running' = [running EXCEPT ![s] = "down"]
  /\ has' = [has EXCEPT ![s] = 0]
  /\ LET file == IF s = "worker" THEN Beaten("stopped") ELSE dbfile
     IN dbfile' = IF has[s] # file.gen \/ restoring.step = "checked" THEN file
                  ELSE Closed(file, Services \ {s})
  /\ UNCHANGED <<commits, taking, backups, restoring, restores>>

Kill(s) ==
  /\ running[s] # "down"
  /\ running' = [running EXCEPT ![s] = "down"]
  /\ has' = [has EXCEPT ![s] = 0]
  /\ UNCHANGED <<dbfile, commits, taking, backups, restoring, restores>>

(* A commit goes to the log of the file the service has open.              *)
Commit(s) ==
  /\ running[s] # "down"
  /\ commits < MaxCommits
  /\ commits' = commits + 1
  /\ dbfile' = IF has[s] = dbfile.gen THEN [dbfile EXCEPT !.wal = commits'] ELSE dbfile
  /\ UNCHANGED <<running, has, taking, backups, restoring, restores>>

-----------------------------------------------------------------------------
(* Backups: the worker at night, or `flask backup now`.                    *)

(* source.backup(target), into a name that is not a backup's.              *)
CopyPages ==
  /\ taking = NoLog
  /\ Cardinality(backups) < MaxBackups
  /\ taking' = Holds(dbfile)
  /\ UNCHANGED <<dbfile, running, has, commits, backups, restoring, restores>>

(* The copy is whole: it gets its name, and the old backups go.  One that  *)
(* is not, or whose process dies, never has the name.                      *)
Publish ==
  /\ taking # NoLog
  /\ backups' = {b \in backups \cup {[holds |-> taking, age |-> 0]} : b.age <= Retention}
  /\ taking' = NoLog
  /\ UNCHANGED <<dbfile, running, has, commits, restoring, restores>>

DropCopy ==
  /\ taking # NoLog
  /\ taking' = NoLog
  /\ UNCHANGED <<dbfile, running, has, commits, backups, restoring, restores>>

(* A day passes, and the worker's housekeeping with it.                    *)
Day ==
  /\ backups # {}
  /\ backups' = {b \in {[c EXCEPT !.age = @ + 1] : c \in backups} :
                   running["worker"] = "up" => b.age <= Retention}
  /\ \A b \in backups' : b.age <= Retention + 1
  /\ UNCHANGED <<dbfile, running, has, commits, taking, restoring, restores>>

-----------------------------------------------------------------------------
(* `flask backup restore`.                                                 *)

(* The worker runs, but its beats do not say so: it has not beaten yet, it *)
(* was told to stop, or an earlier restore left it in a replaced file.     *)
Unseen == \/ running["worker"] \in {"starting", "draining"}
          \/ has["worker"] \notin {0, dbfile.gen}

(* Mutant: nobody asks whether the worker is alive.                        *)
CheckNothing(b) ==
  /\ restoring.step = "idle"
  /\ restores > 0
  /\ restores' = restores - 1
  /\ restoring' = [step |-> "checked", from |-> b.holds, before |-> Holds(dbfile),
                   quiet |-> \A s \in Services : running[s] = "down",
                   late |-> Unseen]
  /\ UNCHANGED <<dbfile, running, has, commits, taking, backups>>

CheckWorker(b) ==
  /\ restoring.step = "idle"
  /\ restores > 0
  /\ dbfile.beat # "fresh"
  /\ restores' = restores - 1
  /\ restoring' = [step |-> "checked", from |-> b.holds, before |-> Holds(dbfile),
                   quiet |-> \A s \in Services : running[s] = "down",
                   late |-> Unseen]
  /\ UNCHANGED <<dbfile, running, has, commits, taking, backups>>

(* Confirmed (or --yes); the command closes its connections.               *)
Confirm ==
  /\ restoring.step = "checked"
  /\ restoring' = [restoring EXCEPT !.step = "closed"]
  /\ dbfile' = Closed(dbfile, Services)
  /\ UNCHANGED <<running, has, commits, taking, backups, restores>>

(* A backup that is whole: the log beside the database is removed...       *)
Unlink ==
  /\ restoring.step = "closed"
  /\ restoring' = [restoring EXCEPT !.step = "unlinked"]
  /\ dbfile' = [dbfile EXCEPT !.wal = NoLog]
  /\ UNCHANGED <<running, has, commits, taking, backups, restores>>

(* Mutant: the backup is copied over the database, not beside it.          *)
CopyInPlace ==
  /\ restoring.step = "unlinked"
  /\ restoring' = [restoring EXCEPT !.step = "copied"]
  /\ dbfile' = [dbfile EXCEPT !.main = Torn]
  /\ UNCHANGED <<running, has, commits, taking, backups, restores>>

(* ... it is copied beside the database...                                 *)
CopyBackup ==
  /\ restoring.step = "unlinked"
  /\ restoring' = [restoring EXCEPT !.step = "copied"]
  /\ UNCHANGED <<dbfile, running, has, commits, taking, backups, restores>>

(* ... and takes its place.  A log that appeared since is now beside a     *)
(* file it does not belong to.                                             *)
Replace ==
  /\ restoring.step = "copied"
  /\ restoring' = NotRestoring
  /\ dbfile' = [gen |-> dbfile.gen + 1, main |-> restoring.from, beat |-> "stale",
                wal |-> IF dbfile.wal = NoLog THEN NoLog ELSE Torn]
  /\ UNCHANGED <<running, has, commits, taking, backups, restores>>

(* Not confirmed, a damaged backup, no room for the copy, or the command   *)
(* dies.                                                                   *)
GiveUp ==
  /\ restoring.step # "idle"
  /\ restoring' = NotRestoring
  /\ UNCHANGED <<dbfile, running, has, commits, taking, backups, restores>>

BackupNext ==
  \/ \E s \in Services : Start(s) \/ Stop(s) \/ Kill(s) \/ Commit(s)
  \/ FirstBeat \/ Drain \/ BeatAges
  \/ CopyPages \/ Publish \/ DropCopy \/ Day
  \/ \E b \in backups : CheckWorker(b)
  \/ Confirm \/ Unlink \/ CopyBackup \/ Replace \/ GiveUp

-----------------------------------------------------------------------------
(* Properties                                                              *)

Contents == 0 .. MaxCommits

BackupTypeOK ==
  /\ dbfile.main \in Contents \cup {Torn}
  /\ dbfile.wal \in Contents \cup {Torn, NoLog}
  /\ dbfile.beat \in {"none", "fresh", "stale", "stopped"}
  /\ \A s \in Services : /\ running[s] \in {"down", "starting", "up", "draining"}
                         /\ running[s] = "down" <=> has[s] = 0
                         /\ has[s] \in 0 .. dbfile.gen
  /\ \A b \in backups : b.age \in 0 .. Retention + 1
  /\ restoring.step \in {"idle", "checked", "closed", "unlinked", "copied"}

(* While no service runs, a restore - done, given up, failed or killed at  *)
(* any step - leaves what the backup holds or, unless it was done, what    *)
(* the database held, log included.  And the worker never works on in a    *)
(* file that was replaced, but for one the check could not see (README,    *)
(* "Backups e reposição": refused while the worker is active).             *)
RestoreFaithful ==
  [][restoring.step # "idle" /\ restoring'.step = "idle" =>
       /\ restoring.quiet =>
            Holds(dbfile') = IF dbfile'.gen = dbfile.gen THEN restoring.before ELSE restoring.from
       /\ dbfile'.gen # dbfile.gen /\ running["worker"] # "down" => restoring.late]_backupVars
=============================================================================
