----------------------------- MODULE Inventory -----------------------------
(***************************************************************************)
(* devices.yaml and the Device rows made from it: config.py validates the  *)
(* file, inventory.py writes it to the database, from `flask devices sync` *)
(* (also run when the web service starts) and from the worker's start.     *)
(* Cycles then write to the Pi their store's row names.                    *)
(*                                                                         *)
(* Data.  A file is [domain, devices, members]: the default domain, the    *)
(* entries in order, and the stores its one group lists.  An entry that    *)
(* fails a check of its own fields (a bad code, port, path...) is not      *)
(* valid.  A hostname is the sequence of its labels.  The columns of a row *)
(* are the store number, the host, enabled, in_config and whether the      *)
(* store is in the group; the video folder is FolderConfig's subject, the  *)
(* other columns change like enabled does.                                 *)
(***************************************************************************)
EXTENDS Integers, Sequences

CONSTANTS
  Codes,           (* the stores' codes, their identity in the file           *)
  InventoryFiles,  (* the files an administrator may write; the first one is  *)
  FirstFile,       (*   loaded when the model begins                          *)
  Absent,          (* no row, no domain, no host                              *)
  MaxYamlEdits,    (* bounds: edits of the file                               *)
  MaxStops         (*   and deaths of the worker for another reason           *)

VARIABLES
  yaml,     (* the file                                                       *)
  rows,     (* the Device row of each code, Absent or a record                *)
  loads,    (* what each loader is doing: [step, file, seen]                  *)
  up,       (* the worker has started                                         *)
  writing,  (* the host each store's running cycle writes to and whether the  *)
            (* store's row is still the one it began with, or Absent          *)
  raced,    (* the last load was computed from rows that had changed since    *)
  fresh,    (* since the file's last edit a load of it began while no other   *)
            (* was under way                                                  *)
  edits,    (* what remains of the bounds                                     *)
  stops

inventoryVars == <<yaml, rows, loads, up, writing, raced, fresh, edits, stops>>

Loaders == {"cli", "worker"}

NotLoading == [step |-> "idle", file |-> Absent, seen |-> Absent]

-----------------------------------------------------------------------------
(* Validation (parse_devices): problems are collected, and any of them     *)
(* refuses the whole file.                                                 *)

Host(f, e) ==
  IF Len(e.hostname) > 1 \/ f.domain = Absent
    THEN e.hostname ELSE Append(e.hostname, f.domain)

Entries(f) == {f.devices[i] : i \in DOMAIN f.devices}

StoresOf(f) == {e.store : e \in Entries(f)}

CodesOf(f) == {e.code : e \in Entries(f)}

(* Mutant: two entries may share a host.                                   *)
AcceptedByNumber(f) ==
  /\ f.devices # <<>>
  /\ \A i \in DOMAIN f.devices : f.devices[i].valid
  /\ \A i, j \in DOMAIN f.devices : i # j =>
       /\ f.devices[i].store # f.devices[j].store
       /\ f.devices[i].code # f.devices[j].code
       /\ f.devices[i].hostname # f.devices[j].hostname
  /\ f.members \subseteq StoresOf(f)

Accepted(f) ==
  /\ f.devices # <<>>
  /\ \A i \in DOMAIN f.devices : f.devices[i].valid
  /\ \A i, j \in DOMAIN f.devices : i # j =>
       /\ f.devices[i].store # f.devices[j].store
       /\ f.devices[i].code # f.devices[j].code
       /\ Host(f, f.devices[i]) # Host(f, f.devices[j])
  /\ f.members \subseteq StoresOf(f)

(* What a row may hold: store numbers and hosts come from the files.       *)
Rows ==
  [store : UNION {StoresOf(f) : f \in InventoryFiles},
   host : UNION {{Host(f, e) : e \in Entries(f)} : f \in InventoryFiles},
   enabled : BOOLEAN, inConfig : BOOLEAN, grouped : BOOLEAN]

ASSUME InventoryAssumption ==
       /\ FirstFile \in InventoryFiles
       /\ Accepted(FirstFile)
       /\ \A f \in InventoryFiles : \A e \in Entries(f) : e.enabled \in BOOLEAN
       /\ Absent \notin Rows

(* The values sync_devices gives to the row of entry e.                    *)
Values(f, e) ==
  [store |-> e.store, host |-> Host(f, e), enabled |-> e.enabled,
   inConfig |-> TRUE, grouped |-> e.store \in f.members]

-----------------------------------------------------------------------------
(* Writing (sync_devices): one transaction, whose statements fail or not   *)
(* one by one.                                                             *)

(* An UPDATE carries the columns that differ from what was read; the group *)
(* is looked up when it is needed.                                         *)
Upsert(now, seen, v, c) ==
  IF seen[c] = Absent THEN v
  ELSE [k \in DOMAIN v |->
          IF k # "grouped" /\ v[k] = seen[c][k] THEN now[c][k] ELSE v[k]]

(* The order of the statements.  Looking up the groups of a row that       *)
(* exists flushes its UPDATE, and after it the rows added before it; what  *)
(* is left is flushed at the end.                                          *)
Before(f, seen, j, i) ==
  LET n == Len(f.devices)
      exists(k) == k <= n /\ seen[f.devices[k].code] # Absent
      flush(k) == CHOOSE m \in k .. n + 1 :
                    (exists(m) \/ m = n + 1) /\ \A x \in k .. m - 1 : ~exists(x)
  IN \/ flush(j) < flush(i)
     \/ flush(j) = flush(i) /\ ~exists(i) /\ (exists(j) \/ j < i)

(* The number row c has when the statement of entry i runs.                *)
NumberThen(f, seen, now, c, i) ==
  LET done == {j \in DOMAIN f.devices : f.devices[j].code = c /\ Before(f, seen, j, i)}
  IN IF done # {} THEN Upsert(now, seen, Values(f, f.devices[CHOOSE j \in done : TRUE]), c).store
     ELSE IF now[c] = Absent THEN Absent ELSE now[c].store

(* An INSERT of a code that exists, or a statement that gives a row the    *)
(* number of another row - in the file or not - breaks a unique column.    *)
Clash(f, seen, now) ==
  \E i \in DOMAIN f.devices :
    LET e == f.devices[i]
    IN \/ seen[e.code] = Absent /\ now[e.code] # Absent
       \/ /\ seen[e.code] = Absent \/ seen[e.code].store # e.store
          /\ \E c \in Codes \ {e.code} : NumberThen(f, seen, now, c, i) = e.store

(* Mutant: a store that left the file keeps its row as it was.             *)
Kept(seen, now, c) == now[c]

(* A store that left the file keeps its row, out of config and disabled.   *)
Retired(seen, now, c) ==
  IF seen[c] = Absent \/ ~seen[c].inConfig THEN now[c]
  ELSE [now[c] EXCEPT !.inConfig = FALSE, !.grouped = FALSE,
                      !.enabled = IF seen[c].enabled THEN FALSE ELSE @]

(* The rows after a load of file f computed from the rows seen.            *)
Loaded(f, seen, now) ==
  [c \in Codes |->
     IF c \in CodesOf(f)
       THEN Upsert(now, seen, Values(f, CHOOSE e \in Entries(f) : e.code = c), c)
       ELSE Retired(seen, now, c)]

-----------------------------------------------------------------------------
(* Actions                                                                 *)

NoRows == [c \in Codes |-> Absent]

(* The first file was loaded, and the worker has started.                  *)
InventoryInit ==
  /\ yaml = FirstFile
  /\ rows = Loaded(FirstFile, NoRows, NoRows)
  /\ loads = [l \in Loaders |-> NotLoading]
  /\ up = TRUE
  /\ writing = [c \in Codes |-> Absent]
  /\ raced = FALSE
  /\ fresh = TRUE
  /\ edits = MaxYamlEdits
  /\ stops = MaxStops

EditFile(f) ==
  /\ edits > 0
  /\ f # yaml
  /\ yaml' = f
  /\ edits' = edits - 1
  /\ fresh' = FALSE
  /\ UNCHANGED <<rows, loads, up, writing, raced, stops>>

(* load_devices_file: a refused file ends `devices sync`, and the worker   *)
(* starts without it.                                                      *)
ReadFile(l) ==
  /\ loads[l].step = "idle"
  /\ l = "worker" => ~up
  /\ IF Accepted(yaml)
       THEN /\ loads' = [loads EXCEPT ![l] = [step |-> "rows", file |-> yaml, seen |-> Absent]]
            /\ fresh' = (fresh \/ \A m \in Loaders : loads[m].step = "idle")
            /\ UNCHANGED up
       ELSE /\ l = "worker"
            /\ up' = TRUE
            /\ UNCHANGED <<loads, fresh>>
  /\ UNCHANGED <<yaml, rows, writing, raced, edits, stops>>

(* The SELECT of all devices with which sync_devices begins.               *)
ReadRows(l) ==
  /\ loads[l].step = "rows"
  /\ loads' = [loads EXCEPT ![l].step = "write", ![l].seen = rows]
  /\ UNCHANGED <<yaml, rows, up, writing, raced, fresh, edits, stops>>

(* The first statement takes the database's write lock, so the statements  *)
(* and the commit are one step.  A failed one ends the process: `devices   *)
(* sync` with an error, the worker before it has started.                  *)
WriteRows(l) ==
  LET f == loads[l].file
      seen == loads[l].seen
  IN /\ loads[l].step = "write"
     /\ loads' = [loads EXCEPT ![l] = NotLoading]
     /\ IF Clash(f, seen, rows)
          THEN UNCHANGED <<rows, up, writing, raced>>
          ELSE /\ rows' = Loaded(f, seen, rows)
               /\ up' = (up \/ l = "worker")
               /\ writing' = [c \in Codes |->
                                IF writing[c] # Absent /\ rows'[c] # rows[c]
                                  THEN [writing[c] EXCEPT !.current = FALSE]
                                  ELSE writing[c]]
               /\ raced' = (seen # rows)
     /\ UNCHANGED <<yaml, fresh, edits, stops>>

WorkerStops ==
  /\ stops > 0
  /\ up
  /\ up' = FALSE
  /\ stops' = stops - 1
  /\ UNCHANGED <<yaml, rows, loads, writing, raced, fresh, edits>>

(* Mutant: write access is not asked for being in the file.                *)
BeginWritingAnyhow(c) ==
  /\ writing[c] = Absent
  /\ rows[c] # Absent
  /\ writing' = [writing EXCEPT ![c] = [host |-> rows[c].host, current |-> TRUE]]
  /\ UNCHANGED <<yaml, rows, loads, up, raced, fresh, edits, stops>>

(* A cycle with write access, of the worker or of `flask reconcile`: the   *)
(* row is read once, before connecting.                                    *)
BeginWriting(c) ==
  /\ writing[c] = Absent
  /\ rows[c] # Absent
  /\ rows[c].enabled
  /\ rows[c].inConfig
  /\ writing' = [writing EXCEPT ![c] = [host |-> rows[c].host, current |-> TRUE]]
  /\ UNCHANGED <<yaml, rows, loads, up, raced, fresh, edits, stops>>

EndWriting(c) ==
  /\ writing[c] # Absent
  /\ writing' = [writing EXCEPT ![c] = Absent]
  /\ UNCHANGED <<yaml, rows, loads, up, raced, fresh, edits, stops>>

(* A load that has begun ends.  The worker's begins again until it has     *)
(* started, since Docker restarts it (docker-compose.yml:25); nothing      *)
(* begins the other, or one of a worker that is up.                        *)
GoesOn(l) == ReadRows(l) \/ WriteRows(l)
Load(l) == ReadFile(l) \/ GoesOn(l)

InventoryNext ==
  \/ \E f \in InventoryFiles : EditFile(f)
  \/ \E l \in Loaders : Load(l)
  \/ WorkerStops
  \/ \E c \in Codes : BeginWriting(c) \/ EndWriting(c)

InventorySpec == InventoryInit /\ [][InventoryNext]_inventoryVars

-----------------------------------------------------------------------------
(* Properties                                                              *)

AllRows == [Codes -> Rows \cup {Absent}]

(* Types; what a load reads was accepted.                                  *)
InventoryTypeOK ==
  /\ yaml \in InventoryFiles
  /\ rows \in AllRows
  /\ loads \in [Loaders -> [step : {"idle", "rows", "write"}, file : InventoryFiles \cup {Absent},
                           seen : AllRows \cup {Absent}]]
  /\ \A l \in Loaders :
       /\ loads[l].step # "idle" => loads[l].file \in InventoryFiles /\ Accepted(loads[l].file)
       /\ loads[l].step = "write" => loads[l].seen \in AllRows
  /\ writing \in [Codes -> [host : {h.host : h \in Rows}, current : BOOLEAN] \cup {Absent}]
  /\ up \in BOOLEAN /\ raced \in BOOLEAN /\ fresh \in BOOLEAN

(* Two stores' cycles write to one Pi only when the row of one of them has *)
(* changed since it began, or when two loads overlapped: the uniqueness of *)
(* hosts in the file, what becomes of the rows that leave it and what a    *)
(* cycle checks before it begins add up.                                   *)
OneWriterPerPi ==
  \A c, d \in Codes :
    /\ c # d
    /\ writing[c] # Absent
    /\ writing[d] # Absent
    /\ writing[c].host = writing[d].host
    => raced \/ ~writing[c].current \/ ~writing[d].current

(* The rows say what the file says: its stores with its values, and every  *)
(* other store kept out of config, never written to.                       *)
Mirrors(f) ==
  \A c \in Codes :
    IF c \in CodesOf(f)
      THEN \E e \in Entries(f) : e.code = c /\ rows[c] = Values(f, e)
      ELSE rows[c] # Absent => ~rows[c].inConfig

(* No store number of the file is the number of another row, kept or not.  *)
NumbersFree(f) ==
  \A e \in Entries(f) : \A c \in Codes \ {e.code} :
    rows[c] # Absent => rows[c].store # e.store

(* Once the file stays as it is, if it is accepted and takes no number     *)
(* from another store, the worker is up, and one load of the file that     *)
(* began with no other under way is enough for the rows to end up as it    *)
(* says: the loads that begin after it, and the failures of either, undo   *)
(* nothing, and nothing of earlier files or overlapping loads is left.     *)
EventuallyLoaded ==
  <>[](Accepted(yaml) /\ NumbersFree(yaml) => up /\ (fresh => Mirrors(yaml)))

(* Documented: devices.yaml is the single source of the devices, loaded    *)
(* into the database at start: every file that passes validation, and is   *)
(* loaded with no other load under way, ends up there.                     *)
AcceptedIsLoaded == <>[](Accepted(yaml) /\ fresh => Mirrors(yaml))
=============================================================================
