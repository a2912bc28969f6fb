------------------------------- MODULE Planner -------------------------------
(***************************************************************************)
(* The reconciliation planner (reconciler/planner.py): a pure function     *)
(* from the schedule, the library and a listing of the Pi's video folder   *)
(* to an ordered list of FTP actions.                                      *)
(*                                                                         *)
(* Data.  A name in the video folder is a record [nnn, slug, sha]: a       *)
(* prefix, what follows it, and the content hash it carries; sha = None    *)
(* for a name the app could not have produced.  Slugs are numbers in name  *)
(* order, and a legacy name has a slug of its own.  A name in the staging  *)
(* folder is [sha, part].  One sha stands for the 64, 12 and 6 digit forms *)
(* of a hash: prefix collisions between two contents are left out.         *)
(* Notices, titles and durations are left out too: no action depends on    *)
(* them.                                                                   *)
(***************************************************************************)
EXTENDS Prefixes

CONSTANTS Lookahead,      (* how early a video is staged (48 h)                *)
          PartMaxAge,     (* a .part older than this is deleted (24 h)         *)
          PartBusyWindow, (* a .part younger than this may be growing (10 min) *)
          Unplayable,     (* slugs of legacy names the player cannot open      *)
          None

ASSUME PlannerAssumption ==
       /\ Lookahead \in Nat
       /\ PartMaxAge \in Nat
       /\ PartBusyWindow \in Nat
       /\ PartBusyWindow <= PartMaxAge

-----------------------------------------------------------------------------
(* Names and actions.                                                      *)

ActiveName(prefix, v) == [nnn |-> prefix, slug |-> v.slug, sha |-> v.sha]
Staged(sha)           == [sha |-> sha, part |-> FALSE]
Part(sha)             == [sha |-> sha, part |-> TRUE]

Act(kind, video, src, dst) ==
  [kind |-> kind, video |-> video, src |-> src, dst |-> dst]

MkdirStaging     == Act("mkdir_staging", None, None, None)
Upload(v)        == Act("upload", v, None, Staged(v.sha))
Activate(item)   == Act("activate", item.video, Staged(item.video.sha), item.name)
Reorder(v, n, m) == Act("reorder", v, n, m)
Deactivate(v, n) == Act("deactivate", v, n, Staged(v.sha))
DeleteActive(n)  == Act("delete_active", None, n, None)
DeleteLegacy(n)  == Act("delete_legacy", None, n, None)
DeleteStaged(s)  == Act("delete_staged", None, Staged(s), None)
DeletePart(s)    == Act("delete_part", None, Part(s), None)

RootDeletes    == {"delete_active", "delete_legacy"}
StagingDeletes == {"delete_staged", "delete_part"}

-----------------------------------------------------------------------------
(* Orders.                                                                 *)

(* Position, then start, then id.                                          *)
OrderBefore(a, b) ==
  \/ a.position < b.position
  \/ a.position = b.position /\ a.start < b.start
  \/ a.position = b.position /\ a.start = b.start /\ a.id < b.id

UpcomingBefore(a, b) ==
  \/ a.start < b.start
  \/ a.start = b.start /\ OrderBefore(a, b)

(* Name order: prefix, then the rest of the name.                          *)
NameBefore(n, m) ==
  \/ n.nnn < m.nnn
  \/ n.nnn = m.nnn /\ n.slug < m.slug
  \/ n.nnn = m.nnn /\ n.slug = m.slug /\ n.sha < m.sha

InOrder(wants)    == Sorted(wants, {p \in wants \X wants : OrderBefore(p[1], p[2])})
InTime(wants)     == Sorted(wants, {p \in wants \X wants : UpcomingBefore(p[1], p[2])})
ByName(names)     == Sorted(names, {p \in names \X names : p[1] # p[2] /\ NameBefore(p[1], p[2])})
Mapped(f(_), s)   == [i \in DOMAIN s |-> f(s[i])]

(* The first want of each content: two videos with one content share a     *)
(* staging path, and play once.                                            *)
DistinctContent(wants) ==
  Picked(wants, {i \in DOMAIN wants :
                   \A j \in 1 .. i - 1 : wants[j].video.sha # wants[i].video.sha})

IsActive(w, now) == w.start <= now /\ (w.end = None \/ now < w.end)

ValidWant(w) == w.video.size > 0 /\ (w.end = None \/ w.end > w.start)

-----------------------------------------------------------------------------
(* Mutant: a legacy file counts as playable whatever its name.             *)
ClassifyAnyName(remote, library) ==
  LET app   == {n \in DOMAIN remote.root :
                  \E v \in library : /\ v.slug = n.slug /\ v.sha = n.sha
                                     /\ v.size = remote.root[n].size}
      whole == {s \in DOMAIN remote.staging : ~ s.part}
      owned(v) == {n \in app : v.slug = n.slug /\ v.sha = n.sha}
  IN  [managed  |-> [id \in {v.id : v \in {u \in library : owned(u) # {}}} |->
                       ByName(owned(CHOOSE v \in library : v.id = id))],
       legacy   |-> DOMAIN remote.root \ app,
       playable |-> DOMAIN remote.root \ app,
       staged   |-> {s.sha : s \in whole},
       corrupt  |-> {},
       orphan   |-> {},
       parts    |-> {s \in DOMAIN remote.staging : s.part}]

(***************************************************************************)
(* What each remote entry is.  A visible name of the app's shape belongs   *)
(* to the first library video of that slug and content whose size is the   *)
(* entry's; with an owner but another size it is a legacy file that does   *)
(* not count as playable.                                                  *)
(***************************************************************************)
Classify(remote, library) ==
  LET owners(n)   == {v \in library : v.slug = n.slug /\ v.sha = n.sha}
      matching(n) == {v \in owners(n) : /\ ~ remote.root[n].isDir
                                        /\ v.size = remote.root[n].size}
      owner(n)    == CHOOSE v \in matching(n) : \A w \in matching(n) : v.id <= w.id
      app         == {n \in DOMAIN remote.root : matching(n) # {}}
      legacy      == DOMAIN remote.root \ app
      whole       == {s \in DOMAIN remote.staging : ~ s.part}
      known(s)    == {v \in library : v.sha = s.sha}
      complete(s) == \E v \in known(s) : v.size = remote.staging[s].size
  IN  [managed  |-> [id \in {owner(n).id : n \in app} |->
                       ByName({n \in app : owner(n).id = id})],
       legacy   |-> legacy,
       playable |-> {n \in legacy : /\ ~ remote.root[n].isDir
                                    /\ remote.root[n].size # 0
                                    /\ n.slug \notin Unplayable
                                    /\ owners(n) = {}},
       staged   |-> {s.sha : s \in {t \in whole : complete(t)}},
       corrupt  |-> {s.sha : s \in {t \in whole : known(t) # {} /\ ~ complete(t)}},
       orphan   |-> {s.sha : s \in {t \in whole : known(t) = {}}},
       parts    |-> {s \in DOMAIN remote.staging : s.part}]

-----------------------------------------------------------------------------
(* What should play now, in order: the regular wants, or the fallbacks if  *)
(* there are none; and what to keep ready in staging: the fallbacks, then  *)
(* what starts within the lookahead, each content once.                    *)

(* Mutant: fallbacks play along with the campaigns.                        *)
DesiredAll(wants, now) ==
  DistinctContent(InOrder({w \in wants : ValidWant(w) /\ IsActive(w, now)}))

DesiredWants(wants, now) ==
  LET active  == {w \in wants : ValidWant(w) /\ IsActive(w, now)}
      regular == {w \in active : ~ w.fallback}
  IN  DistinctContent(InOrder(IF regular # {} THEN regular ELSE active))

(* Mutant: one tick late, and no fallback.                                 *)
KeepUpcoming(wants, now) ==
  DistinctContent(InTime({w \in wants : /\ ValidWant(w)
                                       /\ now < w.start /\ w.start < now + Lookahead}))

KeepStaged(wants, now) ==
  LET valid     == {w \in wants : ValidWant(w)}
      fallbacks == {w \in valid : w.fallback /\ IsActive(w, now)}
      upcoming  == {w \in valid : now < w.start /\ w.start <= now + Lookahead}
      playing   == {w.video.sha : w \in ToSet(DesiredWants(wants, now))}
      waiting   == InOrder(fallbacks) \o InTime(upcoming)
  IN  DistinctContent(Picked(waiting, {i \in DOMAIN waiting :
                                         waiting[i].video.sha \notin playing}))

(* Mutant: any .part counts, however old.                                  *)
AnyPart(remote, now) == {s.sha : s \in {p \in DOMAIN remote.staging : p.part}}

(* Contents whose .part was written to a moment ago.                       *)
BusyContents(remote, now) ==
  {s.sha : s \in {p \in DOMAIN remote.staging :
                    /\ p.part
                    /\ now - remote.staging[p].mtime \in 0 .. (PartBusyWindow - 1)}}

(* A video with no visible and no complete staged copy on the Pi.          *)
Missing(v, c) == v.id \notin DOMAIN c.managed /\ v.sha \notin c.staged

CurrentName(v, c) ==
  IF v.id \in DOMAIN c.managed THEN Head(c.managed[v.id]) ELSE None

(***************************************************************************)
(* Target names, keeping current prefixes where possible.  A name that is  *)
(* taken on the Pi by anything but the video itself moves to the closest   *)
(* free prefix in the same place; a video with no free name keeps its      *)
(* current one, or is left out this time.  A video whose .part may still   *)
(* be growing is left out as well.                                         *)
(***************************************************************************)
PlaceNext(items, i, wants, c, prefixes, occupied, busy) ==
  LET v        == wants[i].video
      current  == CurrentName(v, c)
      wanted   == prefixes[v.id]
      clash(n) == \/ \E k \in DOMAIN items : items[k].name = n
                  \/ n \in occupied /\ n # current
      low      == IF items = <<>> THEN 0 ELSE Last(items).name.nnn
      high     == IF i = Len(wants) THEN MaxPrefix + 1 ELSE prefixes[wants[i + 1].video.id]
      free     == {p \in Nearby(wanted, low, high) : ~ clash(ActiveName(p, v))}
      name     == IF ~ clash(ActiveName(wanted, v)) THEN ActiveName(wanted, v)
                  ELSE IF free # {} THEN ActiveName(Closest(free, wanted), v)
                  ELSE current
      waits    == current = None /\ v.sha \in busy /\ Missing(v, c)
  IN  IF waits \/ name = None THEN items ELSE Append(items, [video |-> v, name |-> name])

PlacedItems(wants, c, prefixes, occupied, busy) ==
  LET placed[i \in 0 .. Len(wants)] ==
        IF i = 0 THEN <<>>
                 ELSE PlaceNext(placed[i - 1], i, wants, c, prefixes, occupied, busy)
  IN  placed[Len(wants)]

DesiredItems(wants, remote, c, now, extra) ==
  LET ids     == [i \in DOMAIN wants |-> wants[i].video.id]
      current == [id \in ToSet(ids) \cap DOMAIN c.managed |-> Head(c.managed[id]).nnn]
  IN  PlacedItems(wants, c, AssignPrefixes(ids, current),
                  DOMAIN remote.root \ extra, BusyContents(remote, now))

-----------------------------------------------------------------------------
(* Bytes on the Pi, and after a list of actions (renames move no bytes).   *)

(* Each byte of the files, told by its file and its place in it.           *)
BytesIn(files) == UNION {{n} \X (1 .. files[n].size) : n \in DOMAIN files}

RootBytes(files) ==
  Cardinality(BytesIn(Restrict(files, {n \in DOMAIN files : ~ files[n].isDir})))

BytesOf(remote) == RootBytes(remote.root) + Cardinality(BytesIn(remote.staging))

Delta(remote, a) ==
  CASE a.kind = "upload"           -> a.video.size
    [] a.kind \in RootDeletes      -> - RootBytes(Restrict(remote.root, {a.src}))
    [] a.kind \in StagingDeletes   -> - remote.staging[a.src].size
    [] OTHER                       -> 0

(* Mutant: the visible files are counted twice.                            *)
UsageCountedTwice(remote, actions) ==
  LET used[k \in 0 .. Len(actions)] ==
        IF k = 0 THEN BytesOf(remote) + RootBytes(remote.root)
                 ELSE used[k - 1] + Delta(remote, actions[k])
  IN  used[Len(actions)]

Usage(remote, actions) ==
  LET used[k \in 0 .. Len(actions)] ==
        IF k = 0 THEN BytesOf(remote) ELSE used[k - 1] + Delta(remote, actions[k])
  IN  used[Len(actions)]

SizeOf(videos) ==
  LET total[k \in 0 .. Len(videos)] == IF k = 0 THEN 0 ELSE total[k - 1] + videos[k].size
  IN  total[Len(videos)]

(* Mutant: what is on the Pi already is forgotten.                         *)
FittingAlone(videos, base, maxBytes) ==
  LET fits(k) == SizeOf(SubSeq(videos, 1, k)) <= maxBytes
  IN  IF maxBytes = None
        THEN videos
        ELSE SubSeq(videos, 1, Max({0} \cup {k \in DOMAIN videos : fits(k)}))

(* The longest prefix of the videos that fits beside what is there.        *)
Fitting(videos, base, maxBytes) ==
  LET fits(k) == base + SizeOf(SubSeq(videos, 1, k)) <= maxBytes
  IN  IF maxBytes = None
        THEN videos
        ELSE SubSeq(videos, 1, Max({0} \cup {k \in DOMAIN videos : fits(k)}))

(* The staging folder is created just before the first action that needs it. *)
WithStagingDir(actions, exists) ==
  LET needing == {i \in DOMAIN actions : actions[i].kind \in {"upload", "deactivate"}}
  IN  IF exists \/ needing = {} THEN actions ELSE InsertAt(actions, Min(needing), MkdirStaging)

-----------------------------------------------------------------------------
(* Which copies of which videos the removals take, by video, then by name. *)
Copies(c, ids) ==
  LET of == UNION {{[id |-> id, k |-> k] : k \in DOMAIN c.managed[id]} : id \in ids}
  IN  Sorted(of, {p \in of \X of : \/ p[1].id < p[2].id
                                   \/ p[1].id = p[2].id /\ p[1].k < p[2].k})

AskedFor(remote, c, requests) ==
  Mapped(DeleteLegacy, ByName({n \in c.legacy \cap requests : ~ remote.root[n].isDir}))

(* Mutant: what leaves the screen is deleted, even if it is to be ready.   *)
RemovalsOnly(remote, library, c, requests, placed, keep, staged) ==
  LET drop(copy) == DeleteActive(c.managed[copy.id][copy.k])
  IN  Mapped(drop, Copies(c, DOMAIN c.managed \ placed)) \o AskedFor(remote, c, requests)

(***************************************************************************)
(* Removals of app files that should not play and of legacy files whose    *)
(* deletion was asked for.  The first copy of a video to be kept ready     *)
(* goes to staging unless a copy is there already; the rest is deleted.    *)
(***************************************************************************)
Removals(remote, library, c, requests, placed, keep, staged) ==
  LET video(id)    == CHOOSE v \in library : v.id = id
      keeps(v)     == (\E i \in DOMAIN keep : keep[i].video = v) /\ v.sha \notin staged
      retire(copy) == LET n == c.managed[copy.id][copy.k]
                      IN  IF copy.k = 1 /\ keeps(video(copy.id))
                            THEN Deactivate(video(copy.id), n) ELSE DeleteActive(n)
  IN  Mapped(retire, Copies(c, DOMAIN c.managed \ placed)) \o AskedFor(remote, c, requests)

(***************************************************************************)
(* What a plan is made from.  inp is a record with                         *)
(*   now, remote = [root, staging, stagingExists], wants, library,         *)
(*   requests (legacy names to delete) and maxBytes (None: no limit).      *)
(* A draft adds what the remote entries are, what should play and what to  *)
(* keep ready, the further copies of what plays, and the target names.     *)
(***************************************************************************)
DraftOf(inp, c, wants, extra) ==
  [inp   |-> inp, c |-> c, wants |-> wants, extra |-> extra,
   keep  |-> KeepStaged(inp.wants, inp.now),
   items |-> DesiredItems(wants, inp.remote, c, inp.now, extra)]

FurtherCopies(c, desired) ==
  UNION {ToSet(Tail(c.managed[id])) : id \in desired \cap DOMAIN c.managed}

Placed(d) == {d.items[i].video.id : i \in DOMAIN d.items}

(* Contents that stay in staging: to be kept ready, about to enter, or     *)
(* left without a name this time.                                          *)
Needed(d) ==
  {d.keep[i].video.sha : i \in DOMAIN d.keep}
    \cup {item.video.sha : item \in {i \in ToSet(d.items) : i.video.id \notin DOMAIN d.c.managed}}
    \cup {w.video.sha : w \in {u \in ToSet(d.wants) : u.video.id \notin Placed(d)}}

(* The items that satisfy a condition, in order.                           *)
ItemsWith(d, Cond(_)) == Picked(d.items, {i \in DOMAIN d.items : Cond(d.items[i])})

Required(d) ==
  LET missing(item) == Missing(item.video, d.c)
      video(item)   == item.video
  IN  Mapped(video, ItemsWith(d, missing))

Cleanup(d, required) ==
  LET staging == d.inp.remote.staging
      overdue == {p \in d.c.parts : /\ d.inp.now - staging[p].mtime > PartMaxAge
                                    /\ \A i \in DOMAIN required : required[i].sha # p.sha}
  IN  Mapped(DeleteStaged, Ascending(d.c.corrupt) \o Ascending(d.c.staged \ Needed(d))
                             \o Ascending(d.c.orphan))
        \o Mapped(DeletePart, Ascending({p.sha : p \in overdue}))

(***************************************************************************)
(* The main part of a plan: clear staging, send what fits, show it, drop   *)
(* further copies, then move names.  late: the videos that do not fit      *)
(* before the removals; ready is what staging holds afterwards.            *)
(***************************************************************************)
MainPart(d, cleanup, inTime, late) ==
  LET current(item) == CurrentName(item.video, d.c)
      reorder(item) == Reorder(item.video, current(item), item.name)
      enters(item)  == item.video \notin late /\ current(item) = None
      moves(item)   == current(item) \notin {None, item.name}
      entering      == ItemsWith(d, enters)
  IN  [actions |-> cleanup
                     \o Mapped(Upload, inTime)
                     \o Mapped(Activate, entering)
                     \o Mapped(DeleteActive, ByName(d.extra))
                     \o Mapped(reorder, ItemsWith(d, moves)),
       ready   |-> ((d.c.staged \cap Needed(d)) \cup {v.sha : v \in ToSet(inTime)})
                     \ {item.video.sha : item \in ToSet(entering)}]

Fits(d, actions, v) ==
  d.inp.maxBytes = None \/ Usage(d.inp.remote, actions) + v.size <= d.inp.maxBytes

(***************************************************************************)
(* After the main part: the removals, unless they would leave nothing      *)
(* playable (remains counts what is), then what had to wait for the space, *)
(* then what to stage ahead.                                               *)
(***************************************************************************)
WithStagedAhead(d, kept, actions) ==
  LET busy == BusyContents(d.inp.remote, d.inp.now)
      stageAhead(acts, w) ==
        IF /\ Missing(w.video, d.c)
           /\ w.video.sha \notin kept \cup busy
           /\ Fits(d, acts, w.video)
          THEN Append(acts, Upload(w.video)) ELSE acts
      after[k \in 0 .. Len(d.keep)] ==
        IF k = 0 THEN actions ELSE stageAhead(after[k - 1], d.keep[k])
  IN  after[Len(d.keep)]

WithLate(d, later, remains, actions) ==
  LET enter(acts, item) ==
        IF remains > 0 /\ Fits(d, acts, item.video)
          THEN acts \o <<Upload(item.video), Activate(item)>> ELSE acts
      after[k \in 0 .. Len(later)] ==
        IF k = 0 THEN actions ELSE enter(after[k - 1], later[k])
  IN  after[Len(later)]

Completed(d, late, main, wished) ==
  LET isLate(item)   == item.video \in late
      isOnTime(item) == item.video \notin late
      onTime    == ItemsWith(d, isOnTime)
      later     == ItemsWith(d, isLate)
      playing   == d.c.playable \ {a.src : a \in ToSet(wished)}
      remains   == Len(onTime) + Cardinality(playing)
      removals  == IF remains = 0 THEN <<>> ELSE wished
      moved     == {a \in ToSet(removals) : a.kind = "deactivate"}
      withLate  == WithLate(d, later, remains, main.actions \o removals)
  IN  WithStagingDir(
        WithStagedAhead(d, main.ready \cup {a.dst.sha : a \in moved}, withLate),
        d.inp.remote.stagingExists)

PlanUploading(d, cleanup, required, inTime) ==
  LET late == ToSet(required) \ ToSet(inTime)
      finish(main) ==
        Completed(d, late, main, Removals(d.inp.remote, d.inp.library, d.c, d.inp.requests,
                                          Placed(d), d.keep, main.ready))
  IN  finish(MainPart(d, cleanup, inTime, late))

(* The plan: its actions in execution order.                               *)
Plan(inp) ==
  LET clean(d, required, cleanup) ==
        PlanUploading(d, cleanup, required,
                      Fitting(required, Usage(inp.remote, cleanup), inp.maxBytes))
      send(d, required) == clean(d, required, Cleanup(d, required))
      draft(d)          == send(d, Required(d))
      copies(c, wants)  == FurtherCopies(c, {wants[i].video.id : i \in DOMAIN wants})
      sort(c, wants)    == draft(DraftOf(inp, c, wants, copies(c, wants)))
  IN  sort(Classify(inp.remote, inp.library), DesiredWants(inp.wants, inp.now))
=============================================================================
