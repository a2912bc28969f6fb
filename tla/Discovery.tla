----------------------------- MODULE Discovery -----------------------------
(***************************************************************************)
(* The read-only search for the folder a Pi plays its videos from          *)
(* (discovery.py), one FTP command or listing (ftp/client.py) at a time:   *)
(* the path of devices.yaml if there is one, else what VIDEOPATH says in   *)
(* the scripts of the login folder and of the folders in it, else the      *)
(* folders with videos up to two levels down.  The worker's job and        *)
(* `flask discover` keep the report in the store's row, for an             *)
(* administrator to confirm.                                               *)
(*                                                                         *)
(* Data.  A path is a sequence of labels.  A Pi, as its FTP server shows   *)
(* it, is [login, home, nodes, to, says, big, path]: the folder of the     *)
(* session; login_home in devices.yaml; the [path, kind] of everything in  *)
(* it; where its links lead; the values VIDEOPATH gets in each script; the *)
(* scripts over 64 KB; video_path in devices.yaml, or Nothing.  A value is *)
(* [kind, path]: absolute, relative, under $HOME, or with a variable that  *)
(* cannot be expanded.  What the notes and the evidence say is left out,   *)
(* and so is the order of the candidates.                                  *)
(***************************************************************************)
EXTENDS Integers, Sequences, FiniteSets

CONSTANTS
  Pis,             (* the Pis to search                                       *)
  Dialects,        (* the servers: what MLSD, LIST -a and LIST do             *)
  HiddenNames,     (* the names that begin with a dot                         *)
  Nothing,
  MaxScanned,      (* MAX_DIRS_SCANNED                                        *)
  MaxSearches      (* bound: searches                                         *)

(* A tree: whatever is in it is in a folder of it.  Labels are strings.    *)
IsPi(p) ==
  /\ IsFiniteSet(p.nodes)
  /\ p.nodes \subseteq [path : Seq(STRING) \ {<<>>}, kind : STRING]
  /\ \A n \in p.nodes : \A k \in 1 .. Len(n.path) - 1 :
       [path |-> SubSeq(n.path, 1, k), kind |-> "dir"] \in p.nodes
  /\ p.login \in Seq(STRING)
  /\ p.login # <<>> => [path |-> p.login, kind |-> "dir"] \in p.nodes
  /\ \A n \in p.nodes : n.kind = "script" /\ n.path \notin p.big
       => Len(p.says[n.path]) \in Nat /\ DOMAIN p.says[n.path] = 1 .. Len(p.says[n.path])
  /\ \A entries \in SUBSET p.nodes : entries # Nothing

(* A server that takes -a for a name can list without it; one that never   *)
(* shows hidden files has no script among them.                            *)
Serves(d, p) ==
  /\ d.all = "literal" /\ d.mlsd # "ok" => d.plain = "ok"
  /\ d.all # "ok" /\ d.mlsd # "ok" =>
       \A n \in p.nodes : n.kind = "script" => n.path[Len(n.path)] \notin HiddenNames

ASSUME DiscoveryAssumption ==
  /\ MaxScanned \in Nat
  /\ \A p \in Pis : IsPi(p) /\ \A d \in Dialects : Serves(d, p)

VARIABLES
  pi,         (* the Pi                                                       *)
  server,     (* and its server                                               *)
  search,     (* the search under way                                         *)
  report,     (* device.discovery: [status, found]                            *)
  refused,    (* something was refused during the search                      *)
  searches    (* what remains of the bound                                    *)

discoveryVars == <<pi, server, search, report, refused, searches>>

-----------------------------------------------------------------------------
(* The Pi.                                                                 *)

Above(path) == SubSeq(path, 1, Len(path) - 1)

Name(path) == path[Len(path)]

Under(home, path) == Len(path) >= Len(home) /\ SubSeq(path, 1, Len(home)) = home

IsHidden(n) == Name(n.path) \in HiddenNames

IsFolder(path) == path = <<>> \/ [path |-> path, kind |-> "dir"] \in pi.nodes

Within(path) == {n \in pi.nodes : n.path # <<>> /\ Above(n.path) = path}

(* Mutant: the empty answer of a server that takes -a for a name is taken  *)
(* for an empty folder.                                                    *)
ListingOnce(path) ==
  CASE server.mlsd = "ok" \/ server.all = "ok" -> Within(path)
    [] server.all = "literal" -> {}
    [] OTHER -> IF server.plain = "ok" THEN {n \in Within(path) : ~IsHidden(n)} ELSE Nothing

(* list_dir: MLSD if the server has it and does not refuse; else LIST -a,  *)
(* which some servers refuse, or take for the name of a file and answer    *)
(* with nothing; then LIST too, and the longer answer counts.              *)
Listing(path) ==
  LET visible == {n \in Within(path) : ~IsHidden(n)}
      all == CASE server.all = "ok" -> Within(path)
               [] server.all = "literal" -> {}
               [] OTHER -> Nothing
      plain == IF all \in {Nothing, {}} /\ server.plain = "ok" THEN visible ELSE Nothing
  IN CASE server.mlsd = "ok" -> Within(path)
       [] server.mlsd # "ok" /\ plain # Nothing -> plain
       [] OTHER -> all

(* canonical_dir: CWD, then what PWD answers: a link is followed.          *)
Canonical(path) ==
  IF IsFolder(path) THEN path
  ELSE IF path \in DOMAIN pi.to THEN pi.to[path] ELSE Nothing

(* expand_videopath and _Resolver: an absolute path is tried as it is,     *)
(* then, as the server may show the home folder as its root, under the     *)
(* login folder.                                                           *)
Resolved(value) ==
  LET path == IF value.kind = "home" THEN pi.home \o value.path ELSE value.path
  IN CASE value.kind = "variable" -> Nothing
       [] value.kind = "relative" -> Canonical(pi.login \o path)
       [] OTHER ->
            IF Canonical(path) # Nothing \/ ~Under(pi.home, path) THEN Canonical(path)
            ELSE Canonical(pi.login \o SubSeq(path, Len(pi.home) + 1, Len(path)))

VideosIn(entries) == Cardinality({n \in entries : n.kind = "video" /\ ~IsHidden(n)})

(* The folders a search enters: not the links, not the hidden ones.        *)
FoldersIn(entries) == {n.path : n \in {m \in entries : m.kind = "dir" /\ ~IsHidden(m)}}

ScriptsIn(entries) == {n.path : n \in {m \in entries : m.kind = "script"}}

-----------------------------------------------------------------------------
(* The search.  todo: the folders still to list, of the current step;      *)
(* scripts: those still to read; found: the candidates so far; visited:    *)
(* how many folders were scanned.                                          *)

NotSearching == [step |-> "idle", todo |-> {}, scripts |-> {}, found |-> <<>>, visited |-> 0]

NoReport == [status |-> "none", found |-> <<>>]

DiscoveryInit ==
  /\ pi \in Pis
  /\ server \in Dialects
  /\ search = NotSearching
  /\ report = NoReport
  /\ refused = FALSE
  /\ searches = MaxSearches

Status(found) == CASE Len(found) = 0 -> "not_found"
                   [] Len(found) = 1 -> "found"
                   [] OTHER -> "ambiguous"

(* The search goes on with s, or reports what it found.                    *)
GoOn(s) == search' = s /\ UNCHANGED report

Conclude(found) ==
  /\ search' = NotSearching
  /\ report' = [status |-> Status(found), found |-> found]

(* A command is answered or refused, as the server or the folder will.     *)
Answered == UNCHANGED refused

Refusal == refused' = TRUE

StartSearch ==
  /\ search.step = "idle"
  /\ searches > 0
  /\ searches' = searches - 1
  /\ search' = [NotSearching EXCEPT !.step = IF pi.path = Nothing THEN "login" ELSE "config"]
  /\ refused' = FALSE
  /\ UNCHANGED <<pi, server, report>>

(* The path of devices.yaml is used if it is a folder; how many videos it  *)
(* has is told if it can be listed.                                        *)
ValidateConfigured ==
  /\ search.step = "config"
  /\ IF Resolved(pi.path) = Nothing
       THEN /\ search' = NotSearching
            /\ report' = [status |-> "error", found |-> <<>>]
       ELSE GoOn([search EXCEPT !.step = "inspect", !.todo = {Resolved(pi.path)}])
  /\ Answered
  /\ UNCHANGED <<pi, server, searches>>

(* After the scripts: the folders they name, or a scan.                    *)
AfterScripts(s) ==
  IF s.scripts # {} THEN [s EXCEPT !.step = "read"]
  ELSE IF s.found # <<>>
    THEN [s EXCEPT !.step = "inspect", !.todo = {s.found[i].path : i \in DOMAIN s.found},
                   !.found = <<>>]
    ELSE [s EXCEPT !.step = "scan", !.todo = {[path |-> pi.login, depth |-> 0]}]

(* The scripts of the login folder, then those of the folders in it; a     *)
(* folder that cannot be listed is passed over.                            *)
ListLogin ==
  /\ search.step = "login"
  /\ LET entries == Listing(pi.login)
         listed == [search EXCEPT !.step = "below", !.todo = FoldersIn(entries),
                                  !.scripts = ScriptsIn(entries)]
     IN \/ /\ entries # Nothing
           /\ GoOn(IF listed.todo = {} THEN AfterScripts(listed) ELSE listed)
           /\ Answered
        \/ /\ GoOn(AfterScripts(search))
           /\ Refusal
  /\ UNCHANGED <<pi, server, searches>>

ListBelow(f) ==
  /\ search.step = "below"
  /\ f \in search.todo
  /\ LET entries == Listing(f)
         rest == [search EXCEPT !.todo = @ \ {f}]
         next(s) == IF s.todo = {} THEN AfterScripts(s) ELSE s
     IN \/ /\ entries # Nothing
           /\ GoOn(next([rest EXCEPT !.scripts = @ \cup ScriptsIn(entries)]))
           /\ Answered
        \/ /\ GoOn(next(rest))
           /\ Refusal
  /\ UNCHANGED <<pi, server, searches>>

(* Mutant: each assignment makes a candidate.                              *)
WithEach(found, paths) ==
  found \o [i \in DOMAIN paths |-> [path |-> paths[i], videos |-> 0]]

(* One candidate for each folder the scripts name, however they spell it.  *)
WithNew(found, paths) ==
  LET known(i) == \/ paths[i] = Nothing
                  \/ \E j \in DOMAIN found : found[j].path = paths[i]
                  \/ \E j \in 1 .. i - 1 : paths[j] = paths[i]
      new == {i \in DOMAIN paths : ~known(i)}
      nth(k) == CHOOSE i \in new : Cardinality({j \in new : j <= i}) = k
  IN found \o [k \in 1 .. Cardinality(new) |-> [path |-> paths[nth(k)], videos |-> 0]]

(* RETR of a script and CWD to each folder it names.                       *)
ReadScript(f) ==
  /\ search.step = "read"
  /\ f \in search.scripts
  /\ LET rest == [search EXCEPT !.scripts = @ \ {f}]
         paths == IF f \in pi.big THEN <<>>
                  ELSE [i \in DOMAIN pi.says[f] |-> Resolved(pi.says[f][i])]
     IN \/ GoOn(AfterScripts([rest EXCEPT !.found = WithNew(@, paths)])) /\ Answered
        \/ GoOn(AfterScripts(rest)) /\ Refusal
  /\ UNCHANGED <<pi, server, searches>>

(* How many videos a candidate has; one that cannot be listed stays.       *)
Inspect(f) ==
  /\ search.step = "inspect"
  /\ f \in search.todo
  /\ LET entries == Listing(f)
         found(n) == Append(search.found, [path |-> f, videos |-> n])
         next(fs) == IF search.todo = {f} THEN Conclude(fs)
                     ELSE GoOn([search EXCEPT !.todo = @ \ {f}, !.found = fs])
     IN \/ entries # Nothing /\ next(found(VideosIn(entries))) /\ Answered
        \/ next(found(0)) /\ Refusal
  /\ UNCHANGED <<pi, server, searches>>

(* Mutant: folders are entered one level too deep.                         *)
EnteredDeeper(at, entries) ==
  IF at.depth < 3 THEN {[path |-> f, depth |-> at.depth + 1] : f \in FoldersIn(entries)} ELSE {}

Entered(at, entries) ==
  IF at.depth < 2 THEN {[path |-> f, depth |-> at.depth + 1] : f \in FoldersIn(entries)} ELSE {}

(* The scan: the nearest folders first, and at most MaxScanned of them.    *)
Scan(at) ==
  /\ search.step = "scan"
  /\ at \in search.todo
  /\ \A other \in search.todo : at.depth <= other.depth
  /\ LET entries == Listing(at.path)
         found == IF VideosIn(entries) = 0 THEN search.found
                  ELSE Append(search.found, [path |-> at.path, videos |-> VideosIn(entries)])
         next(todo, fs) ==
           IF todo = {} \/ search.visited + 1 = MaxScanned THEN Conclude(fs)
           ELSE GoOn([search EXCEPT !.todo = todo, !.found = fs, !.visited = @ + 1])
     IN \/ /\ entries # Nothing
           /\ next((search.todo \ {at}) \cup Entered(at, entries), found)
           /\ Answered
        \/ /\ next(search.todo \ {at}, search.found)
           /\ Refusal
  /\ UNCHANGED <<pi, server, searches>>

(* The link breaks, or an answer does not come in time: whatever was found *)
(* by then is dropped, and the report says so.                             *)
LinkLost ==
  /\ search.step # "idle"
  /\ search' = NotSearching
  /\ report' = [status |-> "error", found |-> <<>>]
  /\ UNCHANGED <<pi, server, refused, searches>>

(* The worker dies in the middle: the last report stands, and the job is   *)
(* taken up again from the beginning.                                      *)
SearchDies ==
  /\ search.step # "idle"
  /\ search' = NotSearching
  /\ UNCHANGED <<pi, server, report, refused, searches>>

SearchStep ==
  \/ ValidateConfigured
  \/ ListLogin
  \/ \E f \in search.todo : ListBelow(f) \/ Inspect(f) \/ Scan(f)
  \/ \E f \in search.scripts : ReadScript(f)

DiscoveryNext == StartSearch \/ SearchStep \/ LinkLost \/ SearchDies

-----------------------------------------------------------------------------
(* Properties                                                              *)

DiscoveryTypeOK ==
  /\ search.step \in {"idle", "config", "login", "below", "read", "inspect", "scan"}
  /\ report.status \in {"none", "found", "ambiguous", "not_found", "error"}
  /\ refused \in BOOLEAN

(* What the search is for, told by the tree alone (SPEC 7).                *)
FoldersBelow(path, depth) ==
  {f \in {path} \cup {n.path : n \in pi.nodes} :
     /\ IsFolder(f)
     /\ Under(path, f)
     /\ Len(f) - Len(path) <= depth
     /\ \A k \in Len(path) + 1 .. Len(f) : f[k] \notin HiddenNames}

Named ==
  {Resolved(v) : v \in UNION {{pi.says[s][i] : i \in DOMAIN pi.says[s]} :
      s \in {n.path : n \in {m \in pi.nodes : /\ m.kind = "script" /\ m.path \notin pi.big
                                             /\ Above(m.path) \in FoldersBelow(pi.login, 1)}}}}
    \ {Nothing}

Holding == {f \in FoldersBelow(pi.login, 2) : VideosIn(Within(f)) > 0}

Right ==
  IF pi.path # Nothing THEN {Resolved(pi.path)} \ {Nothing}
  ELSE IF Named # {} THEN Named ELSE Holding

(* A report that is not an error is that of a whole search: each folder in *)
(* it exists, is there once, and has the videos it is said to have; and if *)
(* nothing was refused and the scan was not cut short, they are all the    *)
(* folders that may be the one, whatever listing the server knows - so     *)
(* "found" is said of the only one.                                        *)
ReportComplete ==
  [][LET found == report'.found
         paths == {found[i].path : i \in DOMAIN found}
         cut == Cardinality(FoldersBelow(pi.login, 2)) > MaxScanned
     IN (report' # report /\ report'.status # "error") =>
          /\ Cardinality(paths) = Len(found)
          /\ paths \subseteq Right \cup Holding
          /\ report'.status = Status(found)
          /\ \A i \in DOMAIN found :
               found[i].videos = VideosIn(Within(found[i].path)) \/ refused'
          /\ ~refused' /\ ~cut => paths = Right]_discoveryVars
=============================================================================
