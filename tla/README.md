# Formal model of LJ Signage

TLA+ modules, TLC runs and TLAPS proofs about the programme in this repository: a panel
that decides which videos twelve shop screens play, and a worker that brings each screen's
Raspberry Pi into line over FTP. The reference is always the code; `PROJECT.json` maps each
definition to the lines it models.

## 1. The system

| Part | Where | State it keeps | Operations | Talks to |
|---|---|---|---|---|
| Panel (two gunicorn processes, four threads each) | `blueprints/` | none of its own | edit the schedule and the library, ask for a synchronisation, for a discovery, for the deletion or adoption of a legacy file, choose the folder | database only |
| Worker (one process) | `worker.py` | two thread pools, counts of jobs in them, the set of stores with a scheduled cycle | poll and run jobs, start a cycle per store every few minutes, back up, heartbeat | database, FTP |
| Command line | `cli.py` | - | the same cycle, dry or not; discovery; `devices sync`; backup, restore | database, FTP |
| Job queue | `jobs.py` | `jobs` table: status, attempts, not_before, worker | enqueue, claim, finish, postpone, recover | web threads and worker, by transactions |
| Cycle of a store | `reconciler/cycle.py`, `state.py`, `executor.py` | `devices` (lease, folder, status), `device_files` (what was last seen, and asked) | lease, list, snapshot, plan, execute, list again | database, FTP |
| Planner | `reconciler/planner.py`, `naming.py` | none: a pure function | classify, plan | - |
| Pi | outside | video folder, hidden `.lj-staging` | plays the visible files in name order, for ever | FTP |
| Inventory, folder | `inventory.py`, `config.py`, `blueprints/devices.py` | `devices`, `groups` | load `devices.yaml`, adopt, confirm or clear the folder | database, FTP (read) |
| Discovery | `discovery.py` | the report in the store's row | search for the folder a Pi plays from | FTP (read) |
| Library | `blueprints/library.py`, `media/transcode.py` | `videos`, files on disk | upload, convert, retry, delete, adopt | job queue |
| Schedule | `blueprints/schedule.py` | `assignments` | create, edit, end, delete | database |
| Accounts | `auth.py`, `blueprints/auth.py` | `users`, session cookies | sign in and out, authorise, revoke | database |
| Backup | `backup.py` | backup files | take, publish, prune, restore | the database file itself |
| Times | `timeutil.py` | none | local times to UTC and back | - |
| Audit, status, summaries, pages | the rest | | | |

### What is hard about it

* **The plan stops anywhere.** A plan is a dozen FTP actions without a transaction. The
  screen shows whatever the folder holds after each of them, so "never black" is about every
  prefix of every plan, followed by a new plan made from what is there.
* **Many hands on one folder.** Worker threads, the command line, and people with an FTP
  client. The first two are kept apart by a lease that lasts 30 minutes and is renewed; the
  last are not kept apart at all, so names are checked before each rename.
* **Decisions on old data.** The plan uses a listing and requests that may have changed by
  the time an action runs; a job may be merged into one that has already read its input.
* **Restarts and retries.** Jobs, leases and half-sent files survive their process.
* **Arithmetic with edges.** Prefixes 1 to 999, a byte limit, a window of busy `.part` files,
  days of 23 and 25 hours.
* **Everything is one UPDATE of what changed.** SQLAlchemy reads outside a transaction and
  writes only the columns that differ from what was read, so two handlers that overlap mix.

### What makes each part correct

* *Numbering*: legal, strictly increasing, as few renames as possible.
* *Planner and cycle*: never black; nothing deleted unasked, nothing replaced; only whole
  files become visible; a synchronised store shows exactly what is due and keeps ready what
  is to come; one cycle settles; the byte limit is kept; what was cut short is resumed.
* *Lease*: one writer at a time, and a dead writer does not block a store for ever.
* *Queue*: a request is never forgotten; only interruptions count as attempts.
* *Folder*: a plan is executed in the folder it was made from; a deletion asked for in one
  folder is not carried out in another; a store that may not be written to is not; the panel
  and `devices.yaml` agree about who chooses the folder.
* *Library*: a conversion comes to an end; a ready video stays ready and has its file; what is
  scheduled exists; the original is there for another try (but see the unfinished deletions in
  *Findings*).
* *Inventory*: the rows end up as the file says; one store at most writes to a Pi.
* *Discovery*: a report names each folder once; when nothing was refused and the scan was not cut
  at its limit, all of them; a search whose link broke is never reported as found. Refused listings
  and scripts and a cut scan are left out of a "found" report without a note (`discovery.py:227`,
  `:263`).
* *Accounts*: access that was revoked does not come back by itself.
* *Backup*: a restore leaves the one content or the other, and the worker never goes on in a
  file that was replaced.
* *Times*: what was typed is what is stored; the calendar shows what is on air.

`PROJECT.json` lists the hazards one by one, at the line where each bites.

## 2. Modules

```
Lists <- Prefixes <- Planner <- Reconcile <- MCReconcile (schedule, legacy, capacity,
           ^                                    twins, stuck, starved)
           '- MCPrefixes -------.
Inventory                       |
Discovery, Backup, LocalTime   -+- MCParts (parts, renumbered)
Access                          |
DeviceLease ------- refines OneWriter
JobQueue      <- MCJobQueue (queue)                            <- JobQueueProofs
FolderConfig  <- MCFolderConfig (folder)                       <- FolderConfigProofs
VideoLibrary  <- MCVideoLibrary (library, library_stranded)    <- VideoLibraryProofs

Prefixes                                    <- PrefixesProofs
PrefixesProofs, Planner                     <- PlannerProofs
PlannerProofs                               <- SettlingProofs
SettlingProofs, Reconcile                   <- ReconcileProofs
PrefixesProofs, MCParts                     <- PartsProofs
```

`MCParts` puts side by side the parts that share no state with one another: the variable `part`
says which of them a behaviour is of, the others keep an initial value. Each part's names carry
the part's own (`LeaseInit`, `InventoryNext`), so that one module can extend them all.

**Lists** (Python's `sorted`, and list comprehensions with a condition). An order is a set of
pairs and a condition a set of positions, so that what these give can be proved of any list.

**Prefixes** (`assign_prefixes`, `_longest_non_decreasing`, `_fill`, `_nearby`). Pure
operators. A key at index `i` with prefix `p` can keep it when `p - i` ("slack") is within
bounds and does not decrease along the kept keys. `LongestNonDecreasing` is the code's
patience algorithm as a recursive function, its `tails` and `previous` being the code's lists.
`MCPrefixes` applies it to every numbering and order and compares with a reference
definition: the best any legal numbering could do.

**Planner** (`classify`, `plan`). Pure operators, in the order of the code: what is wanted
(`DesiredWants`, `KeepStaged`), names (`DesiredItems`), then the actions part by part (`Cleanup`, `MainPart`,
`Removals`, `Completed`). `Plan(inp)` is the very list of the code; each part takes what
earlier parts computed as parameters. A visible name is `[nnn, slug, sha]`, a hidden one
`[sha, part]`; one value stands for a content hash in its 64, 12 and 6 digit forms, so
collisions of shortened hashes are out of the model. Names the player cannot open are a set
of slugs. Notices, titles, durations and digests, which no action depends on, are left out,
and so are hidden files and strangers in staging, which the code never touches.

**Reconcile** (`_cycle`, `_execute`, `Executor`, `state.py`). Variables: `disk`, the Pi;
`wants`, the assignments of the store; `rows`, the legacy files as last seen with the
requests on them; `cycle`, the local state of the running cycle; `now`; `left`, what remains
of the bounds. Files carry a ghost field `data` with what their bytes really are, which a
listing does not show. `LibraryAssumption` gives the columns of `models.py` their types and
says what the constants leave out: one content has one size, a slug of the app's can be opened
by the player, and no more contents are scheduled than there are prefixes. `FilesAssumption` says
of the files that people put in the folder that none has both a video's name and its size: such a
file is the app's as far as the code can tell.

| Code | Action |
|---|---|
| `read_remote_state` | `ReadRemoteState` |
| `store_snapshot`, `plan`, commit | `SnapshotAndPlan` (one transaction) |
| `Executor._upload` | `StartUpload` (STOR truncates and sends), then `FinishUpload` or `UploadShort` |
| `_ensure_absent` + rename | `MoveIn`, `MoveWithin`, `MoveOut` |
| `_confirm_legacy_delete`, DELE | `ConfirmLegacyDelete`, `DeleteVisible` |
| other DELE | `DeleteVisible`, `DeleteHidden` |
| listing and plan after execution | `CheckAfter` |
| an action that fails, the session usable | `ActionRefused`, or the `Stop` branch of each action |
| link down, lease lost, process dead | `CycleLost` |
| schedule pages; request and cancel pages | `EditSchedule`; `RequestDelete` |
| a person with an FTP client | `CopyByHand`, `DeleteByHand` |

The check that a name is free and the rename that follows are one step: between the two
FTP commands lies a round trip, and a person hitting it with that very name is out of the
model. The last look before a legacy deletion and its DELE are two steps, with everybody free
to act in between.

**DeviceLease** (`acquire_lock`, `renew_lock`, `release_lock`, `keep_lease`). The row's owner
and the time it has left, and for each process where it is in its cycle. The Pi itself does
not appear: a process is *cleared* from the renewal (or the check that none is due) to
the FTP write that follows. `OneWriter` is the abstract promise; `holder <- lease.owner`,
`writers <- Writing` is the mapping.

**JobQueue** (`jobs.py`, `Worker.dispatch`, `_run_job`, `shutdown`). A key is what `enqueue`
compares. `asked` and `lost` are history variables: whether somebody asked for a key since a handler of
it last read its input; whether the job's end was not written (`EndNotWritten`: the commit fails, and
`_run_job`'s own attempt to record the failure too, so that the thread is free and the row goes on
saying that the job runs, until the next worker starts). `Begin` / `Work` / `Finish` are the thread picking the job up, the
handler reading (a cycle reads the schedule when it plans), the end.

**FolderConfig** (`sync_devices`, `forget_folder`, `confirm_path`, `clear_path`,
`_adopt_configured_path`, and `_cycle` / `_execute` as far as they read the store). `device`
is the row of the store, `row` what is known of one legacy file, `pi` the folders, `cycle`
what the running cycle has in hand.

| Code | Action |
|---|---|
| `can_write = ...`, opening the session | `Begin` |
| commit, then reading `video_path` afresh | `Connect` |
| `_adopt_configured_path`: folder found, or not | `AdoptConfigured`, `NotFound` |
| listing, `store_snapshot`, `plan` | `SnapshotAndPlan` |
| commit, then `Executor(client, device.video_path)` | `OpenFolder` |
| actions of the plan | `Write`, `DeleteLegacy` (with its last look) |
| listing and snapshot after the plan | `ListAgain`, `SnapshotAfter` |
| folder pages; request and cancel pages | `ConfirmPath`, `ClearPath`; `RequestDelete` |
| `flask devices sync`, for this store | `SyncRemoved`, `SyncListed` |

What matters here is *when* the cycle reads the row. SQLAlchemy forgets what it read at each
commit, and the cycle commits before each wait for the Pi; so the folder of the listing, the
folder of the plan and the folder of the last look are three reads. An UPDATE holds only the
columns whose value changed with respect to what was read: `AdoptConfigured` writes the source
only if it was not `config` when the search began. The three fields `planned`, `moved` and
`synced` are history: they say what somebody else has done meanwhile. Each panel handler is one
step; a path of `devices.yaml` and the FTP path found for it are one value; any folder may be
among the candidates of the panel.

**VideoLibrary** (`upload`, `retry`, `delete`, `_apply_form`, `handle_adopt`,
`handle_transcode`, `process_video`). `video` is the row of each video, `rows` the legacy rows,
`disk` the originals and the converted files, and which of them deletions removed that have not
committed, `job` the latest job of each key, `conv` the conversion under way, `schedule` the
assignments, `requests` what the panel has checked and not yet committed.

| Code | Action |
|---|---|
| `upload` | `Upload` (the INSERT takes the write lock before the file is saved); `UploadFails` |
| `retry`, `delete`, `_apply_form`: reading and refusing | `CheckRetry`, `CheckDelete`, `CheckSchedule` |
| the unlinks of `delete`, before its commit | `RemoveOriginal`, `RemoveMedia` |
| their writes and commit | `CommitRetry`, `CommitDelete`, `CommitSchedule` |
| the busy timeout ends before the commit, or the web service dies | `RequestFails` |
| `end_now` or the time; `delete` of an assignment | `EndAssignment`, `DeleteAssignment` |
| `adopt`; `handle_adopt` | `RequestAdopt`; `BeginAdopt`, `FinishAdopt`, `AdoptFails`, `AdoptCrashes` |
| `forget_folder`, a listing | `ForgetRow`, `ListRow` |
| claim, `handle_transcode` up to `process_video` | `Begin` |
| probe; ffmpeg, validation, `os.replace`, unlink of the old file; commit | `StartEncoding`; `Place`; `Record` |
| `MediaError`; any other exception | `ConversionFails`; `Crashes` |
| the worker dies, `recover_stale` | `Restart` |

SQLite runs SELECTs outside a transaction until the first write, so two requests about one video
can both pass their checks before either commits; the panel has eight threads. A deletion removes
the files first and the row afterwards (`library.py:206-214`), so between the two, and for good if
the commit fails, the row names files that are gone: `disk.removed` says which, and is history, read
by the properties alone. One deletion is under way at a time (a bound). A claim and the
first commit of its handler are one step, as are the placing of the new file and the unlinking
of the old one, because nothing of the model tells what lies between apart.

**Inventory** (`parse_devices`, `sync_devices`, and the cycles as far as they write to a row's
host). `yaml` is the file, `rows` the rows by code, `loads` what the command line and the worker
are loading, `writing` the hosts that running cycles write to.

| Code | Action |
|---|---|
| `devices.yaml`, edited by hand | `EditFile` |
| `load_devices_file`, `parse_devices` | `ReadFile` (`Accepted`; a refused file ends `devices sync`, and the worker starts without it) |
| the `select` of `sync_devices` | `ReadRows` |
| its UPDATEs and INSERTs, one by one, and the commit | `WriteRows` (`Clash`: a UNIQUE column is hit on the way, and the loader dies) |
| the worker stops for another reason | `WorkerStops` |
| a cycle begins, ends | `BeginWriting`, `EndWriting` |

`fresh` is history: since the last edit a load of the file began while no other was under way.
`sync_devices` causes a flush in the middle of its loop (a query by group name), so the order of its
statements is part of the model (`Before`): a number that passes from one row to another passes, or
does not, depending on which row comes first.

**Discovery** (`discover`, `list_dir`, `canonical_dir`). `search` is the search under way, one FTP
command or listing a step: `ValidateConfigured`, `ListLogin`, `ListBelow`, `ReadScript`, `Inspect`,
`Scan`, each of which the server may refuse; `LinkLost` and `SearchDies` end it. `Listing` says what
`list_dir` makes of five kinds of server, and is compared, in `ReportComplete`, with the tree itself.
`DiscoveryAssumption` says what a Pi is (a tree: whatever is in it is in a folder of it) and which
servers the code counts on (`Serves`): one that takes `-a` for the name of a file answers a plain LIST,
and one that never shows hidden files has no script under a hidden name.

**Backup** (`run_backup`, `prune`, `restore`, `backup_restore`, and the heartbeat). The file at the
database's path has a generation, a main part and a write-ahead log; each service has some generation
open. A restore is `CheckWorker`, `Confirm`, `Unlink`, `CopyBackup`, `Replace`, with anything in
between, or `GiveUp`. A worker beats every 30 seconds between `FirstBeat` and `Drain`, so its beat is
taken never to be two minutes old meanwhile; SQLite folds the log when the last connection closes.

**LocalTime** (`local_to_utc`, `to_local`, `_apply_form`, `end_now`, the calendar). `zone` has its
changes, `period` is what is stored, `typed` what the form said. `Offset` and `NaiveOffset` are
zoneinfo's rules, external. `Create`, `Resave` (open the form and save it as it is shown), `EndNow`.
`LocalTimeAssumption` says what a zone is, and `MidnightsAssumption` that its changes jump over no
midnight and no whole day: true of Lisbon and the Azores today, not of every zone there has been.

**Access** (`load_user`, `admin_required`, `_complete_login`, `authorize`, `revoke`). A handler reads
(`LoginReads`, `AuthorizeReads`, `RevokeReads`, `Page`) and commits later (`Login`, `Authorize`,
`Revoke`, `Finish`), others in between; `Restart` gives the service other administrators.

## 3. Runs

| Run | Question | Instance |
|---|---|---|
| parts | the parts without shared state, each below | |
| - numbering | are numbers legal, increasing, and renames fewest? | 4 videos, prefixes 1..6, step 2, any numbering (equal prefixes too), two reorderings |
| - lease | one writer, as promised, and takeover? | 3 processes, TTL 3, renewal 2, pause 1: exactly the assumption's limit |
| - inventory | is one load begun alone enough for the rows to end up as the file says, and does one store at most write to a Pi? | 12 files (Pis, numbers, codes exchanged, passed on, gone; 4 to refuse), 2 edits, 2 loaders, 1 other death of the worker |
| - discovery | does a report name each folder once and, if nothing was refused or cut, all of them? | 6 Pis behind 5 servers, any refusal, a lost link, a dead worker |
| - backup | does a restore leave one content or the other? | 2 commits, 1 backup file, 2 restores, both services |
| - time | is what is typed stored, what is on air listed? | 4 zones (no change, forward, back, both in 3 days), every minute typed, 2 saves or ends more |
| - access | does what is revoked stay revoked? | 2 people, 2 requests at a time, 1 restart with any administrators |
| schedule | what is shown, kept ready, settled, never black, and finally shown? | 4 videos (two with one content), 5 assignments with a fallback, time 0..3, 2 edits, 1 failure |
| legacy | is anything deleted unasked, replaced, or the screen left black? | a playable and an unplayable legacy film, 3 files to copy by hand, 2 requests or cancellations, 1 failure |
| capacity | is the limit kept, and only what does not fit left out? | 4 videos of 2, 3, 2 and 2 bytes (two with one content), a legacy film of 4, a limit of 9, 3 edits, 1 request, 1 failure |
| queue | are attempts right, and is every request taken up? | 2 keys, 2 web threads, 2 jobs, 3 starts of the worker, 2 attempts, 1 busy store, 1 end that cannot be written |
| folder | is a request, a permission or a plan ever used on the wrong folder? | 3 folders (films of two alike, the third of the same size), 4 changes, 1 failure |
| library | does a ready video keep its file, an assignment its video, a conversion its end? | 2 videos, 1 legacy file, 1 assignment, 2 requests at a time, 2 attempts, 1 deletion at a time, 2 events (adoptions, rows forgotten, failures of conversions, uploads and requests, restarts) |
| twins, stuck, starved, renumbered, library_stranded | see *Findings* | the instance above, or a smaller one, with the one thing changed |

*Why the bounds are enough.* A plan is computed from one listing, so what matters is the
variety of listings reached; two edits and one failure already put a store in every
combination of (visible, staged, half-sent, missing) for each video, with a change of
schedule before, during and after. Time 0..3 lets an assignment start, end and have its
lookahead, and a `.part` be busy, idle and stale (both windows are one tick, so that all
three happen). Prefixes are the real 1..999 with step 10 in the cycle runs; gaps that fill
up belong to the numbering, where six numbers hold four videos. In the lease, `TTL = RenewEvery +
MaxPause` is the tightest the assumption allows. The lease's times do not scale
(30 min against 30 s): the proofs below cover all values. The files of the inventory are one
of each kind of edit that `sync_devices` tells apart, and two edits put any one after any other; a
third loader would only repeat the second. The Pis have each a feature that `discover` has code for
(chroot, a link, `$HOME`, a relative path, two scripts that disagree, too many folders), and each
meets each server. The time zones have hours of four seconds and days of sixteen, so that both changes
and their days fit. In *folder*, four changes are what
the longest story needs (give a folder, confirm another or load another, and back) with a
request in between; cycles are not bounded, and the proofs cover any number of changes.

In *library*, two events are what each story needs (two restarts give a job up; two adoptions
meet on one original; a failure and two retries that overlap make a ready video be converted
again; a deletion that fails and a conversion that follows it), and two requests about one video
are what a race takes. One encoding is enough, since the dangerous case is the new file having the
name of the old. The proofs cover any number of events, videos and encodings.

*Fairness.* `Reconcile`: `[]<><<CycleStep>>_vars` (the scheduler starts a cycle every
few minutes and a cycle gets on; a step of it is always enabled, so this is weak fairness)
and weak fairness of time. Failures and edits are bounded, which is the assumption "when they
stop". `DeviceLease`, in `MCParts`: time passes, every live process starts cycles and gets on with
the one it is in; nobody need release or survive. `Inventory`, in `MCParts`: a load that has
begun ends, and the worker's begins again until the worker is up, because Docker restarts it
(`docker-compose.yml:25`). Nobody need run `devices sync`, and a worker that is up loads nothing: whether
an edit is ever loaded is not assumed but asked (`fresh`). `JobQueue`: the service manager restarts the worker, `dispatch` polls, handlers end
(FTP and ffmpeg have timeouts); strong fairness only for `Begin`, because the pools are first come,
first served while scheduled cycles may take the free thread in between. `FolderConfig`: the worker
begins cycles and a cycle gets on. `VideoLibrary`: a conversion gets on (the watchdog of `transcode`
kills an ffmpeg that is silent), and strong fairness of `Begin` for each video, because the media
pool has one thread and `claim` takes the oldest job. Nobody need ask anything, commit a request or
retry.

*Deadlock* is checked everywhere but in *parts* and *renumbered*, whose reorderings, searches and
forms are bounded, and in *library* and *library_stranded*, which may come to rest with every video
deleted.

### The properties

* `NeverBlack` - once something playable is in the folder, no step leaves it without, unless
  a person has changed the folder since the listing.
* `OnlyWholeVideos` - what the app takes for its own copy, by name and size, has the bytes.
* `LegacyOnlyOnRequest`, `NothingReplaced` - action properties on every file that goes or stays.
* `SyncedShowsSchedule`, `SyncedKeepsReady` - when the cycle reports "nothing to do", the disk
  (not the listing) equals what the *schedule alone* says, by content and order.
* `OneCycleSettles` - a cycle that was not disturbed leaves an empty plan.
* `WithinCapacity`, `SyncedOmitsOnlyWhatDoesNotFit` - the limit, both ways.
* `EventuallyShowsSchedule`, `TakenOver`, `EventuallyTakenUp` - liveness.
* `AtMostOneWriter`, `ClearedUnderLease`, `OneCycleWritesAtATime` - the lease.
* `OnlyInterruptionsCount`, `WaitingHasJob` - the queue.
* `SourceFollowsFile`, `LegacyOnlyInCurrentFolder`, `WritesPermitted`, `PlanStaysUnlessMoved`,
  `RowsFollowFolder` - the folder: who chooses it, what may be deleted or written there, where
  a plan runs, and (once nobody changes it) whose files the panel shows.
* `StrictlyIncreasing`, `FewestRenames` - the numbering, against the best any numbering could do, and
  the room that the prefixes kept leave for the others.
* `OneWriterPerPi` - what the file, the rows and a cycle's first look check add up to; the exceptions
  named are loads that overlap and rows that change meanwhile.
* `EventuallyLoaded` - once the file stays as it is, the worker comes up, and a single load of it that
  began with no other under way is enough: what older or overlapping loads left is mended, and no load
  that starts later, or fails, undoes it. It says nothing of loads that all overlapped: see *Findings*.
* `ReportComplete`, `RestoreFaithful`, `RevocationSticks` - action properties of discovery, backup and
  accounts. `RestoreFaithful` names the workers the check of the heartbeat cannot see.
* `PeriodAsTyped`, `CalendarShowsOnAir` - times, against the clock read instant by instant.
* `ReadyHasFile`, `ReadyStays`, `OriginalKept`, `ScheduledExists`, `EventuallyConverted` - the library.
  They name the cases in which the code does not keep them: a deletion of that very video that removed
  the file and has not committed, or never will; a retry that commits after another has succeeded; a
  legacy row adopted twice; a schedule and a deletion that overlap; a crash or a job given up.

`PROJECT.json` names, for each property of each passing run, a plausible bug of the code
(an operator beside the definition it would replace) that makes TLC find it violated.

## 4. Findings

1. *twins* - the same file uploaded twice under one title, the second one scheduled: visible
   files belong to the first library video only, so every cycle undoes the last one.
2. *stuck* - with `max_bytes`, a pending legacy deletion that is withheld still makes the
   planner believe nothing will be playing, so a due video that fits is not sent and the store
   is reported as up to date. Without the request it is sent.
3. *starved* - with `max_bytes`, an upload that was cut short leaves a `.part` that counts as space
   in use, beside the video whose place it will take (`planner.py:612`), and that nothing deletes while
   the video is wanted (`planner.py:590`): a due video that fits is never sent, in no later cycle, and
   the store is reported as up to date. TLC's counterexample ends in such cycles repeating for ever.
4. *renumbered* - a valid `devices.yaml` that gives a store the number another row has (two stores
   exchange numbers, one takes the number of a store listed after it, or a new code gets that of a
   store that left) hits the UNIQUE column in the middle of `sync_devices`: nothing is loaded, and the
   worker, which only expects a `ConfigError`, dies at each start.
5. *library_stranded* - a conversion that crashes (any exception but a `MediaError`), or whose job
   was given up after three interruptions, leaves its video in `processing`: the page says that
   the conversion is under way, and *retry* refuses it because it has not "failed".

Also noted, without a run of their own: another folder confirmed while a cycle lists the first makes
the plan made from the first run in the second (`cycle.py:391`; `PlanStaysUnlessMoved` names exactly
that case; own names carry a hash, renames look before they land, and requests go with the folder, so
nothing foreign is lost, but the plan's guarantees are about a folder it has not seen); a job whose end
cannot be written stays *running* until the worker restarts, and requests for its key are merged into
it meanwhile; opening and saving a form whose time lies in the second pass of a repeated hour moves it
an hour earlier; an authorisation and a revocation that overlap leave whichever commits last, and a
revocation that read the editor as already revoked writes nothing; an assignment ended before it began
is stored a second long and, with both times in one minute, cannot be saved again from the form; after two loads that
overlap (one of an older file, or of older rows, whose commit makes the other one's INSERT fail) rows
stay mixed, or a retired row in its group, until the next load, which is the next start of a service or
the next `devices sync`; a deletion whose commit fails (the 30 seconds of the busy timeout end while an
upload holds the write lock), or whose process dies after the unlinks (`library.py:206-214`), leaves
the video in the library, ready, without its files, as everybody sees it while the commit waits: it can
still be scheduled, the transfer then finds that its local file is missing (`executor.py:156`), and
only another deletion gets rid of it; `backup restore` cannot see a worker that is starting or
finishing its jobs; "Aplicar agora" during a synchronisation that has read the
schedule is merged into it and does nothing, until the next scheduled cycle; `devices.yaml` that
gets another folder while a cycle searches for the one it had is overtaken by the cycle, which
writes the old one, and the new one is not adopted until the file changes again; a request that
schedules a video while another deletes it leaves an assignment without a video, and the stores
without what it would show; a legacy file adopted twice (from two pages, or because its row was
forgotten and the new row got the old number) writes over the original of the first video, and
deleting either removes it for both; a video deleted during its conversion leaves a converted
file that nothing removes; a cancellation between the last look before a legacy
deletion and its DELE comes too late, though the panel says "já não vai ser apagado"; two
simultaneous requests can insert two jobs of one key (harmless, thanks to the lease); a host
that sleeps in the middle of a file lets its lease expire by the wall clock while the monotonic
clock says that no renewal is due, so that two processes may write until the next one; a cycle
under way goes on writing to a store that was just taken out of `devices.yaml`, although
`inventory.py:109` says "a device out of the file is never written to" (`WritesPermitted` names
that cycle). `OneCycleSettles` is not asked of *capacity*, where half-sent copies take part in
what fits.

## 5. Proofs

TLC agrees with all of these on the instances above; TLAPS proves them for all constants
that satisfy the modules' assumptions.

**PrefixesProofs**, from `PrefixAssumption`. `NumbersRise`: `assign_prefixes` gives every video a
number in 1..MaxPrefix and the numbers rise along the schedule, from any prefixes on the Pi. The
gap around a video is as wide in prefixes as in positions (`p - i` never falls among the kept), so
`Filled` has room (`FilledRises`); two videos in different gaps have a kept one between them. That
the kept ones do so (`KeptRises`) is the loop invariant of the patience algorithm: after each
position, the pile of length `k` ends a subsequence of length `k`, traced by `previous`, and the ends of
the piles do not fall. The induction is by the least number without the property, which is
first-order: the induction theorems of the library take an operator as a parameter and cannot be used.

`MostAreKept`: no numbering keeps more of the present prefixes than this one. Items a numbering keeps
rise in prefix as in position, so their slack `p - i` does not fall and lies in 0..MaxPrefix-n: they
are among those `longest_nondecreasing` is given, and not falling (`CouldKeep`, `Rising`). An item goes to a
later pile than every earlier one it may follow, so a set that does not fall has at most one item in each pile
(`StaysPiled`), and the chain traced back has exactly one (`LongestIsLongest`, `KeptStay`).

**PlannerProofs**, from `InputOK` (what the tables and a listing can hold). `PlansAreSafe` says of
every plan, whatever the schedule, the folder and the limit: each action is of the form its kind
has (`WellFormed`); no file is taken from the video folder twice (`TakesApart`); before each action
that takes one away, something playable is there that nothing before has taken, or that an action
before has put there (`Guarded`); the staging folder is made before it is needed. The proof follows the
order of the code: what a listing is sorted into (`ClassifyIsOK`), what is due once each
(`DesiredIsASchedule`), a name for each that is free or its own (`PlacedItemsOK`); then the plan as four
blocks - quiet actions, further copies, moves, removals - that take different files. Each block has its own
reason why something is left: a further copy leaves the first (`FirstCopyStays`), a move leaves what
it moved, and a removal is only planned if an item on time or a playable legacy film remains
(`OnTimeStays`, `SomethingRemains`); what comes late is appended and takes nothing.

`NothingLeftToDo` is the converse: if the plan is *empty* and something is to play, the app's files in the
folder are exactly the wanted contents, once each and in the schedule's order, and the staging folder
holds exactly what is to be kept ready. An empty plan has no copy to add, move or remove (`EmptyPlan`), so
each wanted video already has the name the numbering gives it (`ItemsRise`, from `NumbersRise`) and no
other copy (`FirstOnes`, `NothingRemoved`); whatever the app recognises is then on the list of names, which
is sorted by prefix, and so by schedule (`NamesAscend`, `ShowsInOrder`); what is needed in staging is what
is kept, and nothing staged is left over (`StagedIsKept`). It needs that there is no byte limit (with one, a
plan may be empty because nothing fits: *stuck*, *starved*) and what `Plain` says: no twins (*twins*), no
unfinished fresh upload in staging, and no file of somebody else's under a name with a video's title and
hash, which can leave that video without a free name.

`WhatFitsIsSent` says what an empty plan means with a limit: if something goes on playing (`GoesOn`), the app's
files are what is due *and there*, once each and in order, and no other due video fits beside all that
is on the Pi. Some videos may be late (`EmptyPlan` names them): each was tried before the removals or after
them, and a plan with nothing in it measured it against the bytes listed (`NothingMore`, `EmptyThroughout`).
If nothing due is there and every playable legacy film was asked to go, nothing would be playing and what
fits is not sent, as *stuck* shows.

`PlansFit` is about the byte limit: counted as the planner counts, from the bytes listed, no action of a plan
made with a limit passes it, or what was there at first if that was more. What is sent in time fits
together on top of what clearing leaves (`FittingFits`, `RoomUploads`); between there and the late uploads
nothing grows (`RoomOn`); what comes late, or is staged ahead, was measured against all actions before it
(`OneFits`); and the staging folder, inserted afterwards, moves the counts by a place and
no more (`StagingDirHasRoom`). That only the first actions clear the staging folder (`ClearsUpTo`) is what
the execution needs below.

**SettlingProofs** carries a plan out. `PlansSettle` is the planner's half of "a cycle leaves nothing to do" (SPEC 6.6). A plan without a limit is
*orderly* (`PlanInOrder`): no action takes from the video folder what an earlier one put there, or puts into
staging what an earlier one took, so what the folders hold at its end is a matter of sets - the names it takes and the names it
puts. With titles of one's own every item gets the name its number says (`ItemsGiven`), so at the end
the titled names are exactly those of the items (`OnlyItemsShown`), or, when nothing could go on playing, those
that were there (`NothingShown`); staging holds what is to be kept ready, but for what may still be
growing (`StagingSettles`). The next draft then has the same numbers: the first copies are there under rising
prefixes, which `assign_prefixes` keeps (`NumbersStay`, in **PrefixesProofs**: the longest chain of a rising list is
the list), so there is nothing to show, drop, rename, remove, stage or clear (`RootSettled`, `NothingLeft`).

**ReconcileProofs**, from the three assumptions of `Reconcile`. `CycleInvariant` is the inductive
invariant of the cycle against everybody else. `DiskOK`: a file of the app's is a whole video under a
name of its own, and what is staged whole is whole. `ListedOK`: between a listing and its plan the
listing still tells the truth, or somebody touched the folder, and even then the app's files of
the listing are there. `TodoOK` is why `NeverBlack` needs more than itself: a plan made some steps ago
must still be safe for *what is left of it*, on the disk as it is now. It says so of the remaining actions,
with the guard of `PlansAreSafe` read from the present disk; `TodoTail` is the step that does one action and
moves the guard on, and a hand in the folder sets `touched`, which gives it up. Results:
`NothingIsReplaced` (it does not depend on what a plan contains: the executor looks at each target
first), `OnlyWholeVideosAreSeen`, `LegacyGoesOnlyOnRequest`, `TheScreenIsNeverBlack`, `CycleTypeCorrect`.

What a store that reports *up to date* shows follows from a second invariant, `UpToDate`: as long as nobody
has touched the folder, it is still as it was listed when the plan made from that listing was empty
(`StoresUpToDate`). With `NothingLeftToDo` this gives `SyncedStoresShowTheSchedule` and
`SyncedStoresKeepReady`: the two properties of *schedule*, for every library, schedule, edit and fault.
Their hypotheses are the constants' `MaxBytes = None` and `NoTwins`, which *stuck*, *starved* and *twins*
show to be needed, and, of the state, `NothingLooksAlike`. They also rest on the table's
check that an assignment ends after it starts (`models.py:223`), part of `LibraryAssumption`.
With `WhatFitsIsSent` it gives `SyncedStoresOmitOnlyWhatDoesNotFit`, which needs no word about the
limit: with `NoTwins` and `NothingLooksAlike`, what it leaves out while something goes on playing does
not fit. The proof found that the property said too much: a due content that is on the Pi under another
title only is a file to be removed, not one that goes on playing, so the planner may then leave out what
fits. The property says so now, and *capacity* has such a copy.

`TheLimitIsKept` carries `PlansFit` through the execution, where the folder is no longer what the plan was made
from. Its invariant `WithRoom` counts on from the present: with the changes the rest of the plan expects, the
bytes on the Pi now never pass the limit (`Spends`), and what it takes away is there, of the size listed
(`Stands`). `DoneWithRoom` does one action and `StoppedWithRoom` gives the rest up. An upload is the hard
step: its `.part` is on the disk besides what the plan counts, so the invariant sets it aside (`Aside`) until
it is whole, when it is exactly what the plan counted; and since a plan clears staging before it sends,
nothing still to be deleted can be the file that a new `.part` replaces (`ClearedBefore`). Bytes are
counted as a set, one element per byte of each file, so that sums over files are cardinalities.

`OneCycleLeavesNothingToDo` joins the two: the folder at the end of a plan, and the plan made of it. `CarriedOut`
is its invariant: while a plan runs of which nothing failed, in a folder nobody touched, the folder *as it is*
with the *rest* of the plan make what the listing and the *whole* plan make (`RootAfter`, `StagingAfter`), what is
not the app's is as listed, a half-sent copy is as listed or still to be removed, and the rows show the
listing. One action keeps it because the plan is orderly (`FirstDone`, `DoneCarried`); an upload's `.part` is on the
disk meanwhile and goes with the action. At the end nothing is left of the plan, and `PlansSettle` applies. It takes
a cycle without faults and hands, as the property does, and of the constants and the listing: no limit,
`NoTwins` (which *twins* shows to be needed) and `ListedPlain`, that no listed file of somebody else's has a
video's title and hash. Without that last one it is false where numbers are few: with `MaxPrefix = 3` and
`Step = 1`, `001-Watch` and `002-Ring` of other sizes in the folder, and Watch before Ring in the schedule,
the first plan finds Watch's name taken and leaves it out, and shows Ring as 003; the next one shows Watch as 002.

**PartsProofs** proves the parts that share no state.
*Numbering*: `NumberedInOrder`, for any number of reorderings, from `NumbersRise`; `FewestRenames`, from
`MostAreKept`.
*Lease*, from `LeaseAssumption`, whose substance is `RenewEvery + MaxPause <= TTL`:
a process writes within `MaxPause` of being cleared. This is a promise of the environment (FTP
timeout, hashing of the local file, a host that does not sleep); without it two may write.
The invariant adds what `AtMostOneWriter` lacks to be inductive: a process that is cleared
holds the lease, and the time left is at least `TTL - since - pause` - the renewal is recent
and the pause short, so the lease cannot have been taken. Results: `LeaseTypeCorrect`,
`WritesUnderLease`, `NeverTwoWriters` and `LeaseKeepsPromise`, the refinement of `OneWriter`:
each step maps to one of its steps or to none.
*Accounts*, from `AccessAssumption`. What `RevocationSticks` lacks is `AskedByAdmin`: a request to
authorise somebody belongs to somebody who is an administrator now, since administrators only change
with a restart, which loses every request. Results: `AccessTypeCorrect`, `RevocationsStick`.
*Inventory*, from `InventoryAssumption` (the first file is accepted, `enabled` is a Boolean).
`OneWriterPerPi` is about two cycles that began at different times; the invariant that carries it has
three parts: `HostsApart`, rows in config have different hosts unless the last load was raced;
`WritesToItsRow`, a cycle whose row has not changed writes to that row's host; and `SeenRowsStay`, a row
that a load has read is still there, without which an UPDATE would write to nothing. `LoadedApart` is
the step that matters: a load computed from the rows as they are leaves in config only stores of the
file, each with its host in it. Results: `InventoryTypeCorrect`, `OneWriterPerHost`.
*Backups*, from `BackupAssumption` (the bounds are numbers). `RestoreFaithful` speaks of the end of a restore; what it needs on the way:
whoever runs has the file open that was there when it started, and a worker that is up in the file that is
there has beaten lately (`ServicesOK`); a restore that nothing ran beside finds the database as its check did,
without a log once the command's own connections are closed, and a worker beside a restore is one that the
check could not see (`RestoreOK`). Result: `RestoresAreFaithful`.
*Times*, from `LocalTimeAssumption`, where a change is two readings of the clock, the later and the earlier of
the two it jumps between. Against a reading `n`, each change has happened for certain at every instant that shows
`n`, or at none, or `n` lies between its two readings - and that only one change can do (`OneChange`), being
farther apart than they jump. The three cases (`FewerHappened`, `AsManyHappened`, `MoreHappened`) give the
offset at any instant that shows `n`, hence the first one (`FirstInstant`) and when there are two
(`ShownTwice`); the form is then followed field by field (`FormsSaved`). For the calendar, a midnight parts
the instants of one day from those of the next (`MidnightParts`), which is false of a zone that changes
across midnight, hence `MidnightsAssumption`. Results: `TimesAreAsTyped`, `CalendarIsRight`. Both are stated
for `Instants = Int`: the set of instants is only a bound of the run.
*Search*, from `DiscoveryAssumption`. The invariant `Searched` says, for each step, what is known so far against
what the tree says: each script of a folder already listed is known (`SearchedBelow`); each folder that
scripts name is a candidate or named by one still to be read (`SearchedScripts`); each right folder is
a candidate or still to be listed (`Inspected`); each folder with videos was found or lies below one still to
be scanned, and below one of them only (`ScannedTo`). All of it but "only" is void once something was refused.
A listing by any server shows what counts (`ListingIs`); the scripts' values become candidates once each
(`WithNewIs`). A scan takes one folder off those ahead and puts nothing back (`ScansOn`), so a
scan that stops at `MaxScanned` with folders left had more than `MaxScanned` to do. Result: `ReportsAreComplete`.
*All of them*: `PartsTypeCorrect`, that the parts side by side keep to their types.

**JobQueueProofs**, from `JobQueueAssumption` (positive slots and attempts).
`Counted` relates, in each place a job can be, its attempts to the workers that went away with
it or could not write its end: equal in the queue, one more in a pool; without the case of jobs left *running* by a dead
worker, `Recovered` would break it. `NothingInHand` says that a worker that is down holds no
jobs. Results: `QueueTypeCorrect`, `InterruptionsCount`, and `NothingForgotten`, by following,
through each action, the job that serves a waiting key.

**FolderConfigProofs**, from `FolderAssumption` (distinct names, a film in every folder). All
the safety properties of *folder* follow from one invariant, `CycleInv`: what the cycle has
read still holds, or a change has been noted. `Permitted` says so of the permission, `InPlace`
of the folder, `AdoptsUnderConfig` of the source (a search only starts while the file gives the
folder), and `RowInPlace` that a row present while a plan runs belongs to a store whose folder
is still the plan's, since every change of folder forgets the rows. The properties alone are not
inductive: a permission, say, is used three steps after it was read. Results:
`FolderTypeCorrect`, `NeverLockedOut`, `FilmsAreSafe`, `PermissionHolds`, `PlansStay`.

**VideoLibraryProofs**, from `LibraryAssumption` (videos and legacy files are different things, a job
may be tried once). `LibraryInv` adds three things to the properties: `ConvInv`, that the conversion
under way is of a video in progress whose job runs, and that once the new file is in place the row
still names the old one unless the video was deleted; `JobInv`, that a job that waits is of a video in
progress (so that beginning it takes nothing back) and one that runs is the conversion under way;
`RequestInv`, that what a request has read still holds or that it was crossed: a schedule not crossed
has its video and no deletion beside it, a deletion's video is only in assignments that were crossed,
and a retry has read *failed*. An unlink touches only files of the deletion's own video, and what it
removed of a row that is still there is in `disk.removed` (`RemoveOriginalInv`, `RemoveMediaInv`); a
request that advances or disappears leaves the promises of the others as they were
(`SameRequestsInv`, `FewerRequests`). So `ReadyVideosHaveFiles` says that the unfinished deletion of a
ready video is the only way in which its file can be missing. Results: `LibraryTypeCorrect`, `ReadyVideosHaveFiles`,
`ReadyVideosStay`, `ScheduledVideosExist`.

Its second part is about the originals. Who may empty or remove an original: the download of a legacy
file, and a deletion that has read its name. `OneHolder` says that a legacy file not downloaded a second
time is the original of one video at most, that a request which has read it is about that video, and
that while it is being downloaded nobody holds it; `RequestsName`, that a request names its own video's
upload or a legacy file. So a deletion removes only its own video's original, committed or not, and a
download empties nobody's. Result: `OriginalsAreKept`.

The type invariants of the lease, the queue and the folder are proved and therefore not run.

*Only model-checked*: liveness, which is out of the prover's reach (`RowsFollowFolder`, `TakenOver` and what
is named `Eventually...`). Every safety property of a passing run is stated by a theorem; those about an
up-to-date store and about one cycle under the hypotheses given with them.

## 6. Not modelled

The audit trail, status, summaries and pages are records and read-only views of state the other modules
hold. Formatting, titles, notes and durations are left out of every module. Of the FTP client, the
parsing of listing lines and dates and the sockets; of ffmpeg, what it makes of a file; of sign-in, what
Google answers. `config.py`'s checks of one entry's own fields are one flag, and the other settings are
constants. `purge_finished` and the removal of old temporary files touch nothing that is still in use.
Migrations are generated. Reading the store (dry run, `enabled: false`) is the cycle without `Execute`.

## 7. What could come next

Everything the first plan named is modelled, and proofs exist for every component. Left, in the order of what
they would add:

1. **SafeCarousel**: an abstract folder (never empty, files come whole and leave on a reason) refined by
   `Reconcile`.
2. Two cycles of one store with an expired lease, on one disk.
