---------------------------- MODULE PartsProofs ----------------------------
(***************************************************************************)
(* What the small parts of the panel promise, for any constants: the       *)
(* numbering of the visible videos, renumbered for ever; the accounts, for *)
(* any people, any number of requests at once and any restarts; the        *)
(* inventory, for any files and any processes that load them; the lease of *)
(* a store, for any number of worker and command-line processes and any    *)
(* lease times; the database, for any restores beside any services; local  *)
(* time, for any zone; and the search, for any Pi and any server.          *)
(***************************************************************************)
EXTENDS MCParts, PrefixesProofs

-----------------------------------------------------------------------------
(* Numbering                                                               *)

PrefixesSpec == PrefixesInit /\ [][PrefixesNext]_prefixesVars

(* Each video plays once, and what is on the Pi are numbers.               *)
Numbered ==
  /\ order \in Seq(Keys)
  /\ \A i, j \in 1 .. Len(order) : order[i] = order[j] => i = j
  /\ \A k \in DOMAIN current : current[k] \in Int

LEMMA NumberedInitially == PrefixesInit => Numbered /\ StrictlyIncreasing
<1> SUFFICES ASSUME PrefixesInit PROVE Numbered /\ StrictlyIncreasing
  OBVIOUS
<1>1. order = <<>> /\ Len(order) = 0 /\ DOMAIN order = {} /\ order \in Seq(Keys)
  BY DEF PrefixesInit
<1>2. PICK S \in SUBSET Keys : current \in [S -> 1 .. MaxPrefix]
  BY DEF PrefixesInit
<1>3. QED BY <1>1, <1>2 DEF Numbered, StrictlyIncreasing

LEMMA Renumbered ==
  ASSUME Numbered, NEW new \in Orders, Renumber(new)
  PROVE  Numbered' /\ StrictlyIncreasing'
<1>1. PICK n \in 1 .. Cardinality(Keys) : new \in [1 .. n -> Keys]
  BY DEF Orders
<1>2. Cardinality(Keys) \in Nat /\ MaxPrefix \in Nat
  BY KeysAssumption, PrefixAssumption, FS_CardinalityType
<1>3. new \in Seq(Keys) /\ Len(new) = n /\ DOMAIN new = 1 .. n /\ n <= MaxPrefix
  BY <1>1, <1>2, KeysAssumption
<1>4. \A i, j \in 1 .. Len(new) : new[i] = new[j] => i = j
  BY <1>3 DEF Orders
<1>5. order' = new /\ current' = AssignPrefixes(new, current)
  BY DEF Renumber
<1>6. \A i \in 1 .. Len(new) :
        /\ current'[new[i]] \in 1 .. MaxPrefix
        /\ \A j \in 1 .. Len(new) : i < j => current'[new[i]] < current'[new[j]]
  BY <1>3, <1>4, <1>5, NumbersRise DEF Numbered
<1>7. DOMAIN current' = ToSet(new)
  BY <1>5 DEF AssignPrefixes
<1>8. \A k \in DOMAIN current' : current'[k] \in Int
  BY <1>3, <1>6, <1>7 DEF ToSet
<1>9. StrictlyIncreasing'
  BY <1>3, <1>5, <1>6 DEF StrictlyIncreasing
<1>10. QED BY <1>3, <1>4, <1>5, <1>8, <1>9 DEF Numbered

(* However often and however the schedule is reordered, the numbers are    *)
(* prefixes and rise along it (planner.assign_prefixes).                   *)
THEOREM NumberedInOrder == PrefixesSpec => []StrictlyIncreasing
<1>1. ASSUME Numbered /\ StrictlyIncreasing, [PrefixesNext]_prefixesVars
      PROVE  Numbered' /\ StrictlyIncreasing'
  <2>1. CASE PrefixesNext
    BY <1>1, <2>1, Renumbered DEF PrefixesNext
  <2>2. CASE UNCHANGED prefixesVars
    BY <1>1, <2>2 DEF prefixesVars, Numbered, StrictlyIncreasing
  <2>3. QED BY <1>1, <2>1, <2>2
<1>2. QED BY <1>1, NumberedInitially, PTL DEF PrefixesSpec

(* However often the schedule is reordered, no renumbering renames more of *)
(* the videos on the Pi than it must (assign_prefixes): no legal numbering *)
(* keeps more, and what is kept leaves room for the rest.                  *)
THEOREM RenamesAreFewest == PrefixesSpec => FewestRenames
<1> DEFINE Best ==
      /\ KeptRise(order', current, LongestNonDecreasing(Candidates(order', current)))
      /\ \A f \in Legal[Len(order')] :
           KeptBy(f, order', current)
             <= KeptBy([i \in DOMAIN order' |-> current'[order'[i]]], order', current)
<1>1. ASSUME Numbered, NEW new \in Orders, Renumber(new) PROVE Best
  <2>1. PICK n \in 1 .. Cardinality(Keys) : new \in [1 .. n -> Keys]
    BY DEF Orders
  <2>2. Cardinality(Keys) \in Nat
    BY KeysAssumption, FS_CardinalityType
  <2>3. new \in Seq(Keys) /\ Len(new) = n /\ DOMAIN new = 1 .. n /\ n \in 0 .. Cardinality(Keys)
    BY <2>1, <2>2
  <2>4. \A i, j \in 1 .. Len(new) : new[i] = new[j] => i = j
    BY <2>3 DEF Orders
  <2>5. \A i \in 1 .. Len(new) : new[i] \in DOMAIN current => current[new[i]] \in Int
    BY <1>1 DEF Numbered
  <2>6. order' = new /\ current' = AssignPrefixes(new, current)
    BY <1>1 DEF Renumber
  <2>7. KeptRise(new, current, LongestNonDecreasing(Candidates(new, current)))
    BY <2>3, <2>5, KeptRises DEF CouldKeep
  <2>8. ASSUME NEW f \in Legal[n]
        PROVE  KeptBy(f, new, current)
                 <= KeptBy([i \in DOMAIN new |-> AssignPrefixes(new, current)[new[i]]], new, current)
    <3>1. f \in [1 .. n -> 1 .. MaxPrefix] /\ \A i \in 1 .. n - 1 : f[i] < f[i + 1]
      BY <2>3 DEF Legal
    <3>2. Cardinality(KeptPlaces(new, current, f))
            <= Cardinality(KeptPlaces(new, current, Assigned(new, current)))
      <4>1. f \in [1 .. Len(new) -> 1 .. MaxPrefix]
        BY <2>3, <3>1
      <4>2. \A i \in 1 .. Len(new) - 1 : f[i] < f[i + 1]
        BY <2>3, <3>1
      <4>3. new \in Seq(Keys)
        BY <2>3
      <4>4. QED BY <2>4, <2>5, <4>1, <4>2, <4>3, MostAreKept, Zenon
    <3>3. \A g : KeptBy(g, new, current) = Cardinality(KeptPlaces(new, current, g))
      BY <2>3 DEF KeptBy, KeptPlaces
    <3>4. Assigned(new, current) = [i \in DOMAIN new |-> AssignPrefixes(new, current)[new[i]]]
      BY <2>3 DEF Assigned
    <3>5. QED BY <3>2, <3>3, <3>4
  <2>9. QED BY <2>3, <2>6, <2>7, <2>8
<1>2. ASSUME Numbered, [PrefixesNext]_prefixesVars PROVE [Best]_prefixesVars
  <2> HIDE DEF Best
  <2>1. CASE PrefixesNext
    BY <1>1, <1>2, <2>1 DEF PrefixesNext
  <2>2. QED BY <1>2, <2>1
<1>3. PrefixesSpec => []Numbered
  <2>1. ASSUME Numbered, [PrefixesNext]_prefixesVars PROVE Numbered'
    <3>1. CASE PrefixesNext
      BY <2>1, <3>1, Renumbered DEF PrefixesNext
    <3>2. CASE UNCHANGED prefixesVars
      BY <2>1, <3>2 DEF prefixesVars, Numbered
    <3>3. QED BY <2>1, <3>1, <3>2
  <2>2. QED BY <2>1, NumberedInitially, PTL DEF PrefixesSpec
<1>4. QED
  <2> HIDE DEF Best
  <2>1. PrefixesSpec => [][Best]_prefixesVars
    BY <1>2, <1>3, PTL DEF PrefixesSpec
  <2>2. FewestRenames <=> [][Best]_prefixesVars
    BY DEF FewestRenames, Best
  <2>3. QED BY <2>1, <2>2

-----------------------------------------------------------------------------
(* Accounts                                                                *)

(* A request to authorise somebody is an administrator's until it ends:    *)
(* the administrators change only when every request is lost.              *)
AskedByAdmin ==
  \A slot \in Slots : Handles(slot, "authorize") => requests[slot].by \in admins

AccessInv == AccessTypeOK /\ AskedByAdmin

(* A slot that handles something handles a request.                        *)
LEMMA HandledIsRequest ==
  ASSUME AccessTypeOK, NEW slot \in Slots, requests[slot] # Free
  PROVE  requests[slot] \in Request
BY DEF AccessTypeOK

(* A commit writes a boolean, and in one row only.                         *)
LEMMA WrittenRow ==
  ASSUME AccessTypeOK, NEW r \in Request, NEW value \in BOOLEAN, Written(r, value)
  PROVE  /\ users' \in [People -> BOOLEAN \cup {NoRow}]
         /\ \A p \in People : users'[p] # users[p] => p = r.target /\ users'[p] = value
BY DEF AccessTypeOK, Written, Request

LEMMA AccessInitially == AccessInit => AccessInv
BY AccessAssumption DEF AccessInit, AccessInv, AccessTypeOK, AskedByAdmin, Handles

(* The value a sign-in writes: that of the row it read, or of a new row.   *)
LEMMA LoginWrites ==
  ASSUME NEW r \in Request
  PROVE  (IF r.seen = NoRow THEN FALSE ELSE r.seen) \in BOOLEAN
BY DEF Request

LEMMA BeginKeeps ==
  ASSUME AccessInv, NEW slot \in Slots, NEW op \in {"login", "page", "authorize", "revoke"},
         NEW by \in People, NEW target \in People, Begin(slot, op, by, target),
         op = "authorize" => by \in admins
  PROVE  AccessInv'
<1>1. [op |-> op, by |-> by, target |-> target, seen |-> users[target]] \in Request
  BY DEF AccessInv, AccessTypeOK, Request
<1>2. AccessTypeOK'
  BY <1>1 DEF AccessInv, AccessTypeOK, Begin
<1>3. AskedByAdmin'
  BY DEF AccessInv, AccessTypeOK, AskedByAdmin, Handles, Begin
<1> QED BY <1>2, <1>3 DEF AccessInv

LEMMA EndKeeps ==
  ASSUME AccessInv, NEW slot \in Slots, End(slot), UNCHANGED <<admins, restarts>>,
         users' \in [People -> BOOLEAN \cup {NoRow}], cookies' \in SUBSET People
  PROVE  AccessInv'
<1>1. AccessTypeOK'
  BY DEF AccessInv, AccessTypeOK, End
<1>2. AskedByAdmin'
  BY DEF AccessInv, AccessTypeOK, AskedByAdmin, Handles, End
<1> QED BY <1>1, <1>2 DEF AccessInv

LEMMA AccessKept == AccessInv /\ [AccessNext]_accessVars => AccessInv'
<1> SUFFICES ASSUME AccessInv, [AccessNext]_accessVars PROVE AccessInv'
  OBVIOUS
<1> AccessTypeOK
  BY DEF AccessInv
<1>1. ASSUME NEW slot \in Slots, NEW p \in People, LoginReads(slot, p) \/ Page(slot, p)
      PROVE  AccessInv'
  BY <1>1, BeginKeeps DEF LoginReads, Page
<1>2. ASSUME NEW slot \in Slots, NEW by \in People, NEW p \in People,
             AuthorizeReads(slot, by, p) \/ RevokeReads(slot, by, p)
      PROVE  AccessInv'
  BY <1>2, BeginKeeps DEF AuthorizeReads, RevokeReads, AdminRequired
<1>3. ASSUME NEW slot \in Slots, Login(slot)
      PROVE  AccessInv'
  <2> DEFINE r == requests[slot]
  <2>1. r \in Request
    BY <1>3, HandledIsRequest DEF Login, Handles
  <2>2. users' \in [People -> BOOLEAN \cup {NoRow}]
    BY <1>3, <2>1, LoginWrites, WrittenRow DEF Login
  <2>3. cookies' \in SUBSET People
    BY <1>3, <2>1 DEF Login, AccessTypeOK, Request
  <2> QED BY <1>3, <2>2, <2>3, EndKeeps DEF Login
<1>4. ASSUME NEW slot \in Slots, Authorize(slot) \/ Revoke(slot)
      PROVE  AccessInv'
  <2>1. requests[slot] \in Request
    BY <1>4, HandledIsRequest DEF Authorize, Revoke, Handles
  <2>2. users' \in [People -> BOOLEAN \cup {NoRow}]
    BY <1>4, <2>1, WrittenRow DEF Authorize, Revoke
  <2> QED BY <1>4, <2>2, EndKeeps DEF Authorize, Revoke, AccessTypeOK
<1>5. ASSUME NEW slot \in Slots, Finish(slot)
      PROVE  AccessInv'
  BY <1>5, EndKeeps DEF Finish, AccessTypeOK
<1>6. ASSUME NEW p \in People, Logout(p)
      PROVE  AccessInv'
  BY <1>6 DEF Logout, AccessInv, AccessTypeOK, AskedByAdmin, Handles
<1>7. ASSUME NEW emails \in SUBSET People, Restart(emails)
      PROVE  AccessInv'
  BY <1>7, AccessAssumption DEF Restart, AccessInv, AccessTypeOK, AskedByAdmin, Handles
<1>8. CASE UNCHANGED accessVars
  BY <1>8 DEF accessVars, AccessInv, AccessTypeOK, AskedByAdmin, Handles
<1> QED BY <1>1, <1>2, <1>3, <1>4, <1>5, <1>6, <1>7, <1>8 DEF AccessNext

LEMMA AccessInvariant == AccessSpec => []AccessInv
BY AccessInitially, AccessKept, PTL DEF AccessSpec

(* The administrators, rows, cookies and requests keep their shape,        *)
(* whatever requests overlap.                                              *)
THEOREM AccessTypeCorrect == AccessSpec => []AccessTypeOK
<1>1. AccessInv => AccessTypeOK
  BY DEF AccessInv
<1> QED BY <1>1, AccessInvariant, PTL

-----------------------------------------------------------------------------
(* One step, seen from somebody p who has no access before it.             *)
Regains(p) ==
  p \notin admins' /\ users'[p] = TRUE =>
    \E slot \in Slots : /\ Handles(slot, "authorize")
                        /\ requests[slot].target = p
                        /\ requests[slot].by \in admins
                        /\ requests'[slot] = Free

BeginsNothing(p) ==
  \A slot \in Slots : requests[slot] = Free /\ requests'[slot] # Free => requests'[slot].by # p

(* A request begins in the name of somebody who has access.                *)
LEMMA BegunByOther ==
  ASSUME AccessInv, NEW p \in People, ~IsActive(p),
         NEW slot \in Slots, NEW op, NEW by \in People, NEW target \in People,
         Begin(slot, op, by, target), IsActive(by)
  PROVE  Regains(p) /\ BeginsNothing(p)
<1>1. by # p /\ users[p] # TRUE
  BY DEF IsActive
<1>2. Regains(p)
  BY <1>1 DEF Begin, Regains
<1>3. BeginsNothing(p)
  BY <1>1 DEF Begin, BeginsNothing, AccessInv, AccessTypeOK
<1> QED BY <1>2, <1>3

(* A request that ends begins none.                                        *)
LEMMA EndBeginsNothing ==
  ASSUME AccessInv, NEW slot \in Slots, End(slot), NEW p \in People
  PROVE  BeginsNothing(p)
BY DEF End, BeginsNothing, AccessInv, AccessTypeOK

LEMMA RevokedStays ==
  ASSUME AccessInv, [AccessNext]_accessVars, NEW p \in People, ~IsActive(p)
  PROVE  Regains(p) /\ BeginsNothing(p)
<1> AccessTypeOK
  BY DEF AccessInv
<1> users[p] # TRUE
  BY DEF IsActive
<1>1. ASSUME NEW slot \in Slots, NEW q \in People, LoginReads(slot, q) \/ Page(slot, q)
      PROVE  Regains(p) /\ BeginsNothing(p)
  BY <1>1, BegunByOther DEF LoginReads, Page, LoadUser
<1>2. ASSUME NEW slot \in Slots, NEW by \in People, NEW q \in People,
             AuthorizeReads(slot, by, q) \/ RevokeReads(slot, by, q)
      PROVE  Regains(p) /\ BeginsNothing(p)
  BY <1>2, BegunByOther DEF AuthorizeReads, RevokeReads, AdminRequired, LoadUser
<1>3. ASSUME NEW slot \in Slots, Login(slot)
      PROVE  Regains(p) /\ BeginsNothing(p)
  <2> DEFINE r == requests[slot]
  <2>1. r \in Request
    BY <1>3, HandledIsRequest DEF Login, Handles
  <2>2. CASE r.seen = NoRow
    <3>1. Written(r, FALSE)
      BY <1>3, <2>2 DEF Login
    <3>2. users'[p] # TRUE
      BY <2>1, <3>1, WrittenRow
    <3> QED BY <1>3, <3>2, EndBeginsNothing DEF Login, Regains
  <2>3. CASE r.seen # NoRow
    <3>1. users' = users
      BY <1>3, <2>3 DEF Login, Written
    <3> QED BY <1>3, <3>1, EndBeginsNothing DEF Login, Regains
  <2> QED BY <2>2, <2>3
<1>4. ASSUME NEW slot \in Slots, Authorize(slot)
      PROVE  Regains(p) /\ BeginsNothing(p)
  <2>1. requests[slot] \in Request
    BY <1>4, HandledIsRequest DEF Authorize, Handles
  <2>2. users'[p] = TRUE => p = requests[slot].target
    BY <1>4, <2>1, WrittenRow DEF Authorize
  <2>3. requests[slot].by \in admins
    BY <1>4 DEF Authorize, AccessInv, AskedByAdmin
  <2>4. requests'[slot] = Free
    BY <1>4 DEF Authorize, End, AccessTypeOK
  <2>5. Regains(p)
    BY <1>4, <2>2, <2>3, <2>4 DEF Authorize, Regains
  <2> QED BY <1>4, <2>5, EndBeginsNothing DEF Authorize
<1>5. ASSUME NEW slot \in Slots, Revoke(slot)
      PROVE  Regains(p) /\ BeginsNothing(p)
  <2>1. requests[slot] \in Request
    BY <1>5, HandledIsRequest DEF Revoke, Handles
  <2>2. users'[p] # TRUE
    BY <1>5, <2>1, WrittenRow DEF Revoke
  <2> QED BY <1>5, <2>2, EndBeginsNothing DEF Revoke, Regains
<1>6. ASSUME NEW slot \in Slots, Finish(slot)
      PROVE  Regains(p) /\ BeginsNothing(p)
  BY <1>6, EndBeginsNothing DEF Finish, Regains
<1>7. ASSUME NEW q \in People, Logout(q)
      PROVE  Regains(p) /\ BeginsNothing(p)
  BY <1>7 DEF Logout, Regains, BeginsNothing
<1>8. ASSUME NEW emails \in SUBSET People, Restart(emails)
      PROVE  Regains(p) /\ BeginsNothing(p)
  BY <1>8 DEF Restart, Regains, BeginsNothing
<1>9. CASE UNCHANGED accessVars
  BY <1>9 DEF accessVars, Regains, BeginsNothing
<1> QED BY <1>1, <1>2, <1>3, <1>4, <1>5, <1>6, <1>7, <1>8, <1>9 DEF AccessNext

(* auth.py: "revoking an editor takes effect at once".  However sign-ins,  *)
(* pages, authorisations and revocations overlap, one who has no access    *)
(* gets it only from the settings or from an administrator's request to    *)
(* authorise him, and until then nothing is begun in his name.             *)
THEOREM RevocationsStick == AccessSpec => RevocationSticks
<1> DEFINE AnyStep == \A p \in People : ~IsActive(p) => Regains(p) /\ BeginsNothing(p)
<1>1. AccessInv /\ [AccessNext]_accessVars => AnyStep
  BY RevokedStays
<1>2. AnyStep => [\A p \in People : ~IsActive(p) =>
       /\ p \notin admins' /\ users'[p] = TRUE =>
            \E slot \in Slots : /\ Handles(slot, "authorize")
                                /\ requests[slot].target = p
                                /\ requests[slot].by \in admins
                                /\ requests'[slot] = Free
       /\ \A slot \in Slots : requests[slot] = Free /\ requests'[slot] # Free =>
            requests'[slot].by # p]_accessVars
  BY DEF Regains, BeginsNothing
<1> QED BY <1>1, <1>2, AccessInvariant, PTL DEF AccessSpec, RevocationSticks

-----------------------------------------------------------------------------
(* Inventory                                                               *)

(* Two rows in config have two hosts, unless the last load was computed    *)
(* from rows that had changed.                                             *)
HostsApart ==
  ~raced => \A c, d \in Codes :
              /\ c # d
              /\ rows[c] # Absent /\ rows[c].inConfig
              /\ rows[d] # Absent /\ rows[d].inConfig
              => rows[c].host # rows[d].host

(* A cycle whose row has not changed writes to the host of its row, which  *)
(* is in config.                                                           *)
WritesToItsRow ==
  \A c \in Codes :
    writing[c] # Absent /\ writing[c].current
      => rows[c] # Absent /\ rows[c].inConfig /\ rows[c].host = writing[c].host

(* A row that a load has seen is still there: nothing deletes a row.       *)
SeenRowsStay ==
  \A l \in Loaders : loads[l].step = "write" =>
    \A c \in Codes : loads[l].seen[c] # Absent => rows[c] # Absent

InventoryInv == InventoryTypeOK /\ HostsApart /\ WritesToItsRow /\ SeenRowsStay

-----------------------------------------------------------------------------
(* The rows a load writes                                                  *)

(* The values a file gives to a row are those of a row.                    *)
LEMMA ValuesAreARow ==
  ASSUME NEW f \in InventoryFiles, NEW e \in Entries(f)
  PROVE  /\ Values(f, e) \in Rows
         /\ Values(f, e) # Absent
         /\ Values(f, e).host = Host(f, e)
         /\ Values(f, e).inConfig = TRUE
<1>1. e.store \in UNION {StoresOf(g) : g \in InventoryFiles}
  BY DEF StoresOf
<1>2. Host(f, e) \in UNION {{Host(g, x) : x \in Entries(g)} : g \in InventoryFiles}
  OBVIOUS
<1>3. e.enabled \in BOOLEAN
  BY InventoryAssumption
<1>4. (e.store \in f.members) \in BOOLEAN
  OBVIOUS
<1>5. Values(f, e) \in Rows
  BY <1>1, <1>2, <1>3, <1>4 DEF Values, Rows
<1>6. Values(f, e) # Absent
  BY <1>5, InventoryAssumption
<1>7. Values(f, e).host = Host(f, e) /\ Values(f, e).inConfig = TRUE
  BY DEF Values
<1> QED
  BY <1>5, <1>6, <1>7

(* A row is read and written column by column.                             *)
LEMMA RowColumns ==
  ASSUME NEW r \in Rows
  PROVE  /\ r # Absent
         /\ DOMAIN r = {"store", "host", "enabled", "inConfig", "grouped"}
         /\ r = [k \in DOMAIN r |-> r[k]]
BY InventoryAssumption DEF Rows

(* Writing the columns that differ from those seen leaves a row, if the    *)
(* rows seen are there.                                                    *)
LEMMA UpsertIsARow ==
  ASSUME NEW now \in AllRows, NEW seen \in AllRows, NEW v \in Rows, NEW c \in Codes,
         seen[c] # Absent => now[c] # Absent
  PROVE  Upsert(now, seen, v, c) \in Rows
<1>1. CASE seen[c] = Absent
  BY <1>1 DEF Upsert
<1>2. CASE seen[c] # Absent
  <2>1. now[c] \in Rows
    BY <1>2 DEF AllRows
  <2> DEFINE written(k) == IF k # "grouped" /\ v[k] = seen[c][k] THEN now[c][k] ELSE v[k]
  <2>2. Upsert(now, seen, v, c) = [k \in {"store", "host", "enabled", "inConfig", "grouped"} |-> written(k)]
    BY <1>2, RowColumns DEF Upsert
  <2>3. /\ written("store") \in UNION {StoresOf(f) : f \in InventoryFiles}
        /\ written("host") \in UNION {{Host(f, e) : e \in Entries(f)} : f \in InventoryFiles}
        /\ written("enabled") \in BOOLEAN
        /\ written("inConfig") \in BOOLEAN
        /\ written("grouped") \in BOOLEAN
    BY <2>1 DEF Rows
  <2> HIDE DEF written
  <2>4. [k \in {"store", "host", "enabled", "inConfig", "grouped"} |-> written(k)]
          = [store |-> written("store"), host |-> written("host"), enabled |-> written("enabled"),
             inConfig |-> written("inConfig"), grouped |-> written("grouped")]
    OBVIOUS
  <2> QED
    BY <2>2, <2>3, <2>4 DEF Rows
<1> QED
  BY <1>1, <1>2

(* Computed from the rows as they are, it leaves the values of the file.   *)
LEMMA UpsertNow ==
  ASSUME NEW now \in AllRows, NEW v \in Rows, NEW c \in Codes
  PROVE  Upsert(now, now, v, c) = v
<1>1. CASE now[c] = Absent
  BY <1>1 DEF Upsert
<1>2. CASE now[c] # Absent
  <2>1. Upsert(now, now, v, c) = [k \in DOMAIN v |-> v[k]]
    BY <1>2 DEF Upsert
  <2> QED
    BY <2>1, RowColumns
<1> QED
  BY <1>1, <1>2

(* A store out of the file keeps a row if it had one, and is out of config *)
(* when the rows had not changed.                                          *)
LEMMA RetiredIsARow ==
  ASSUME NEW now \in AllRows, NEW seen \in AllRows, NEW c \in Codes,
         seen[c] # Absent => now[c] # Absent
  PROVE  /\ Retired(seen, now, c) \in Rows \cup {Absent}
         /\ now[c] # Absent => Retired(seen, now, c) # Absent
         /\ seen = now /\ Retired(seen, now, c) # Absent => ~Retired(seen, now, c).inConfig
<1>1. CASE seen[c] = Absent \/ ~seen[c].inConfig
  <2>1. Retired(seen, now, c) = now[c]
    BY <1>1 DEF Retired
  <2> QED
    BY <1>1, <2>1 DEF AllRows
<1>2. CASE seen[c] # Absent /\ seen[c].inConfig
  <2>1. now[c] \in Rows
    BY <1>2 DEF AllRows
  <2> DEFINE kept == IF seen[c].enabled THEN FALSE ELSE now[c].enabled
             row == [store |-> now[c].store, host |-> now[c].host, enabled |-> kept,
                     inConfig |-> FALSE, grouped |-> FALSE]
  <2>2. kept \in BOOLEAN
    BY <2>1 DEF Rows
  <2>3. Retired(seen, now, c) = row
    BY <1>2, <2>1 DEF Retired, Rows
  <2>4. row \in Rows /\ ~row.inConfig
    BY <2>1, <2>2 DEF Rows
  <2> HIDE DEF row
  <2> QED
    BY <2>3, <2>4, RowColumns
<1> QED
  BY <1>1, <1>2

(* A load leaves a row for every store of the file and for every store     *)
(* that had one.                                                           *)
LEMMA LoadedRows ==
  ASSUME NEW f \in InventoryFiles, NEW now \in AllRows, NEW seen \in AllRows,
         \A c \in Codes : seen[c] # Absent => now[c] # Absent
  PROVE  /\ Loaded(f, seen, now) \in AllRows
         /\ \A c \in Codes : now[c] # Absent => Loaded(f, seen, now)[c] # Absent
<1> DEFINE entry(c) == CHOOSE e \in Entries(f) : e.code = c
<1>1. ASSUME NEW c \in Codes
      PROVE  /\ Loaded(f, seen, now)[c] \in Rows \cup {Absent}
             /\ now[c] # Absent => Loaded(f, seen, now)[c] # Absent
  <2>1. CASE c \in CodesOf(f)
    <3>1. entry(c) \in Entries(f)
      BY <2>1 DEF CodesOf
    <3>2. Loaded(f, seen, now)[c] = Upsert(now, seen, Values(f, entry(c)), c)
      BY <2>1 DEF Loaded
    <3> HIDE DEF entry
    <3>3. Values(f, entry(c)) \in Rows
      BY <3>1, ValuesAreARow
    <3>4. Upsert(now, seen, Values(f, entry(c)), c) \in Rows
      BY <3>3, UpsertIsARow
    <3> QED
      BY <3>2, <3>4, RowColumns
  <2>2. CASE c \notin CodesOf(f)
    <3>1. Loaded(f, seen, now)[c] = Retired(seen, now, c)
      BY <2>2 DEF Loaded
    <3> QED
      BY <3>1, RetiredIsARow
  <2> QED
    BY <2>1, <2>2
<1>2. Loaded(f, seen, now) = [c \in Codes |-> Loaded(f, seen, now)[c]]
  BY DEF Loaded
<1> QED
  BY <1>1, <1>2 DEF AllRows

(* Computed from the rows as they are, it leaves in config only the stores *)
(* of the file, each with the host of one of its entries.                  *)
LEMMA LoadedHosts ==
  ASSUME NEW f \in InventoryFiles, NEW now \in AllRows, NEW c \in Codes,
         Loaded(f, now, now)[c] # Absent, Loaded(f, now, now)[c].inConfig
  PROVE  \E e \in Entries(f) : e.code = c /\ Loaded(f, now, now)[c].host = Host(f, e)
<1> DEFINE entry == CHOOSE e \in Entries(f) : e.code = c
<1>1. CASE c \in CodesOf(f)
  <2>1. entry \in Entries(f) /\ entry.code = c
    BY <1>1 DEF CodesOf
  <2>2. Loaded(f, now, now)[c] = Upsert(now, now, Values(f, entry), c)
    BY <1>1 DEF Loaded
  <2> HIDE DEF entry
  <2>3. Values(f, entry) \in Rows /\ Values(f, entry).host = Host(f, entry)
    BY <2>1, ValuesAreARow
  <2>4. Loaded(f, now, now)[c] = Values(f, entry)
    BY <2>2, <2>3, UpsertNow
  <2> QED
    BY <2>1, <2>3, <2>4
<1>2. CASE c \notin CodesOf(f)
  <2>1. Loaded(f, now, now)[c] = Retired(now, now, c)
    BY <1>2 DEF Loaded
  <2> QED
    BY <2>1, RetiredIsARow
<1> QED
  BY <1>1, <1>2

(* Entries of two codes in an accepted file have two hosts.                *)
LEMMA AcceptedHosts ==
  ASSUME NEW f \in InventoryFiles, Accepted(f),
         NEW d \in Entries(f), NEW e \in Entries(f), d.code # e.code
  PROVE  Host(f, d) # Host(f, e)
<1>1. PICK i \in DOMAIN f.devices : d = f.devices[i]
  BY DEF Entries
<1>2. PICK j \in DOMAIN f.devices : e = f.devices[j]
  BY DEF Entries
<1>3. i # j
  BY <1>1, <1>2
<1> QED
  BY <1>1, <1>2, <1>3 DEF Accepted

(* So a load of an accepted file, not raced, leaves the hosts apart.       *)
LEMMA LoadedApart ==
  ASSUME NEW f \in InventoryFiles, Accepted(f), NEW now \in AllRows,
         NEW c \in Codes, NEW d \in Codes, c # d,
         Loaded(f, now, now)[c] # Absent, Loaded(f, now, now)[c].inConfig,
         Loaded(f, now, now)[d] # Absent, Loaded(f, now, now)[d].inConfig
  PROVE  Loaded(f, now, now)[c].host # Loaded(f, now, now)[d].host
<1>1. PICK x \in Entries(f) : x.code = c /\ Loaded(f, now, now)[c].host = Host(f, x)
  BY LoadedHosts
<1>2. PICK y \in Entries(f) : y.code = d /\ Loaded(f, now, now)[d].host = Host(f, y)
  BY LoadedHosts
<1> QED
  BY <1>1, <1>2, AcceptedHosts

-----------------------------------------------------------------------------
(* The inductive invariant                                                 *)

LEMMA InitInventoryInv == InventoryInit => InventoryInv
<1> SUFFICES ASSUME InventoryInit PROVE InventoryInv
  OBVIOUS
<1>1. NoRows \in AllRows /\ \A c \in Codes : NoRows[c] = Absent
  BY DEF NoRows, AllRows
<1>2. FirstFile \in InventoryFiles /\ Accepted(FirstFile)
  BY InventoryAssumption
<1>3. rows = Loaded(FirstFile, NoRows, NoRows)
  BY DEF InventoryInit
<1>4. rows \in AllRows
  BY <1>1, <1>2, <1>3, LoadedRows
<1>5. loads = [l \in Loaders |-> [step |-> "idle", file |-> Absent, seen |-> Absent]]
  BY DEF InventoryInit, NotLoading
<1>6. /\ writing = [c \in Codes |-> Absent]
      /\ up = TRUE /\ raced = FALSE /\ fresh = TRUE
      /\ yaml = FirstFile
  BY DEF InventoryInit
<1>7. InventoryTypeOK
  BY <1>2, <1>4, <1>5, <1>6 DEF InventoryTypeOK
<1>8. HostsApart
  BY <1>1, <1>2, <1>3, LoadedApart DEF HostsApart
<1>9. WritesToItsRow /\ SeenRowsStay
  BY <1>5, <1>6 DEF WritesToItsRow, SeenRowsStay
<1> QED
  BY <1>7, <1>8, <1>9 DEF InventoryInv

(* Reading the file and the rows; the rows read are those there are.       *)
LEMMA ReadsKeepInventoryInv ==
  ASSUME InventoryInv, NEW l \in Loaders, ReadFile(l) \/ ReadRows(l)
  PROVE  InventoryInv'
<1> USE DEF InventoryInv
<1>1. CASE ReadFile(l)
  <2>1. CASE Accepted(yaml)
    <3> DEFINE load == [step |-> "rows", file |-> yaml, seen |-> Absent]
    <3>1. /\ loads' = [loads EXCEPT ![l] = load]
          /\ fresh' \in BOOLEAN
          /\ UNCHANGED <<yaml, rows, up, writing, raced>>
      BY <1>1, <2>1 DEF ReadFile, InventoryTypeOK
    <3>2. InventoryTypeOK'
      BY <2>1, <3>1 DEF InventoryTypeOK
    <3>3. SeenRowsStay'
      BY <3>1 DEF SeenRowsStay, InventoryTypeOK
    <3> QED
      BY <3>1, <3>2, <3>3 DEF HostsApart, WritesToItsRow
  <2>2. CASE ~Accepted(yaml)
    <3>1. up' = TRUE /\ UNCHANGED <<yaml, rows, loads, writing, raced, fresh>>
      BY <1>1, <2>2 DEF ReadFile
    <3> QED
      BY <3>1 DEF InventoryTypeOK, HostsApart, WritesToItsRow, SeenRowsStay
  <2> QED
    BY <2>1, <2>2
<1>2. CASE ReadRows(l)
  <2> DEFINE load == [step |-> "write", file |-> loads[l].file, seen |-> rows]
  <2>1. /\ loads[l].step = "rows"
        /\ loads' = [loads EXCEPT ![l].step = "write", ![l].seen = rows]
        /\ UNCHANGED <<yaml, rows, up, writing, raced, fresh>>
    BY <1>2 DEF ReadRows
  <2>2. loads' = [loads EXCEPT ![l] = load]
    <3>1. /\ loads \in [Loaders -> [step : {"idle", "rows", "write"}, file : InventoryFiles \cup {Absent},
                                   seen : AllRows \cup {Absent}]]
          /\ loads[l] \in [step : {"idle", "rows", "write"}, file : InventoryFiles \cup {Absent},
                           seen : AllRows \cup {Absent}]
      BY DEF InventoryTypeOK
    <3>2. [[loads[l] EXCEPT !.step = "write"] EXCEPT !.seen = rows] = load
      <4> DEFINE r == loads[l]
      <4>1. DOMAIN r = {"step", "file", "seen"} /\ r = [k \in DOMAIN r |-> r[k]]
        BY <3>1
      <4> HIDE DEF r
      <4>2. [r EXCEPT !.step = "write"] = [step |-> "write", file |-> r.file, seen |-> r.seen]
        BY <4>1
      <4>3. [[step |-> "write", file |-> r.file, seen |-> r.seen] EXCEPT !.seen = rows]
              = [step |-> "write", file |-> r.file, seen |-> rows]
        OBVIOUS
      <4>4. [[r EXCEPT !.step = "write"] EXCEPT !.seen = rows]
              = [step |-> "write", file |-> r.file, seen |-> rows]
        BY <4>2, <4>3, Zenon
      <4> QED
        BY <4>4 DEF r
    <3>3. loads' = [loads EXCEPT ![l] = [[loads[l] EXCEPT !.step = "write"] EXCEPT !.seen = rows]]
      BY <2>1, <3>1
    <3> QED
      BY <3>2, <3>3
  <2>3. InventoryTypeOK'
    BY <2>1, <2>2, ZenonT(40) DEF InventoryTypeOK
  <2>4. SeenRowsStay'
    BY <2>1, <2>2 DEF SeenRowsStay, InventoryTypeOK
  <2> QED
    BY <2>1, <2>3, <2>4 DEF HostsApart, WritesToItsRow
<1> QED
  BY <1>1, <1>2

(* A load marks the cycles whose rows it changes, and no other.            *)
LEMMA WriteRowsKeepsInventoryInv ==
  ASSUME InventoryInv, NEW l \in Loaders, WriteRows(l)
  PROVE  InventoryInv'
<1> DEFINE f == loads[l].file
           seen == loads[l].seen
<1> USE DEF InventoryInv
<1>1. /\ f \in InventoryFiles /\ Accepted(f)
      /\ seen \in AllRows /\ rows \in AllRows
      /\ \A c \in Codes : seen[c] # Absent => rows[c] # Absent
  BY DEF WriteRows, InventoryTypeOK, SeenRowsStay
<1>2. loads' = [loads EXCEPT ![l] = [step |-> "idle", file |-> Absent, seen |-> Absent]]
  BY DEF WriteRows, NotLoading
<1>3. yaml' = yaml /\ fresh' = fresh
  BY DEF WriteRows
<1>4. CASE Clash(f, seen, rows)
  <2>1. UNCHANGED <<rows, up, writing, raced>>
    BY <1>4 DEF WriteRows
  <2>2. InventoryTypeOK'
    BY <1>2, <1>3, <2>1 DEF InventoryTypeOK
  <2>3. SeenRowsStay'
    BY <1>2, <2>1 DEF InventoryTypeOK, SeenRowsStay
  <2> QED
    BY <2>1, <2>2, <2>3 DEF HostsApart, WritesToItsRow
<1>5. CASE ~Clash(f, seen, rows)
  <2>1. /\ rows' = Loaded(f, seen, rows)
        /\ up' = (up \/ l = "worker")
        /\ raced' = (seen # rows)
    BY <1>5 DEF WriteRows
  <2>2. writing' = [c \in Codes |-> IF writing[c] # Absent /\ rows'[c] # rows[c]
                                     THEN [writing[c] EXCEPT !.current = FALSE]
                                     ELSE writing[c]]
    BY <1>5 DEF WriteRows
  <2>3. rows' \in AllRows /\ \A c \in Codes : rows[c] # Absent => rows'[c] # Absent
    BY <1>1, <2>1, LoadedRows
  <2>4. ASSUME NEW c \in Codes
        PROVE  /\ writing'[c] \in [host : {h.host : h \in Rows}, current : BOOLEAN] \cup {Absent}
               /\ writing'[c] # Absent /\ writing'[c].current
                    => /\ writing[c] # Absent /\ writing[c].current
                       /\ rows'[c] = rows[c] /\ writing'[c].host = writing[c].host
    <3>1. writing[c] \in [host : {h.host : h \in Rows}, current : BOOLEAN] \cup {Absent}
      BY DEF InventoryTypeOK
    <3>2. CASE writing[c] # Absent /\ rows'[c] # rows[c]
      <4>1. writing'[c] = [host |-> writing[c].host, current |-> FALSE]
        BY <2>2, <3>1, <3>2
      <4> QED
        BY <3>1, <3>2, <4>1
    <3>3. CASE ~(writing[c] # Absent /\ rows'[c] # rows[c])
      <4>1. writing'[c] = writing[c]
        BY <2>2, <3>3
      <4> QED
        BY <3>1, <3>3, <4>1
    <3> QED
      BY <3>2, <3>3
  <2>5. writing' \in [Codes -> [host : {h.host : h \in Rows}, current : BOOLEAN] \cup {Absent}]
    BY <2>2, <2>4
  <2>6. (up \/ l = "worker") \in BOOLEAN /\ (seen # rows) \in BOOLEAN
    OBVIOUS
  <2>7. InventoryTypeOK'
    <3>1. up' \in BOOLEAN /\ raced' \in BOOLEAN
      BY <2>1, <2>6
    <3>2. /\ loads' \in [Loaders -> [step : {"idle", "rows", "write"}, file : InventoryFiles \cup {Absent},
                                    seen : AllRows \cup {Absent}]]
          /\ \A k \in Loaders :
               /\ loads'[k].step # "idle" => loads'[k].file \in InventoryFiles /\ Accepted(loads'[k].file)
               /\ loads'[k].step = "write" => loads'[k].seen \in AllRows
      BY <1>2 DEF InventoryTypeOK
    <3> QED
      BY <1>3, <2>3, <2>5, <3>1, <3>2 DEF InventoryTypeOK
  <2>8. HostsApart'
    <3>1. ASSUME ~raced' PROVE seen = rows
      BY <2>1, <3>1
    <3> QED
      BY <1>1, <2>1, <3>1, LoadedApart DEF HostsApart
  <2>9. WritesToItsRow'
    BY <2>4 DEF WritesToItsRow
  <2>10. SeenRowsStay'
    BY <1>2, <2>3 DEF SeenRowsStay, InventoryTypeOK
  <2> QED
    BY <2>7, <2>8, <2>9, <2>10
<1> QED
  BY <1>4, <1>5

(* A cycle begins with its row, and ends.                                  *)
LEMMA CyclesKeepInventoryInv ==
  ASSUME InventoryInv, NEW c \in Codes, BeginWriting(c) \/ EndWriting(c)
  PROVE  InventoryInv'
<1> USE DEF InventoryInv
<1>1. CASE BeginWriting(c)
  <2> DEFINE cycle == [host |-> rows[c].host, current |-> TRUE]
  <2>1. /\ rows[c] # Absent /\ rows[c].inConfig
        /\ writing' = [writing EXCEPT ![c] = cycle]
        /\ UNCHANGED <<yaml, rows, loads, up, raced, fresh>>
    BY <1>1 DEF BeginWriting
  <2>2. rows[c] \in Rows
    BY <2>1 DEF InventoryTypeOK, AllRows
  <2>3. cycle \in [host : {h.host : h \in Rows}, current : BOOLEAN]
    BY <2>2
  <2>4. cycle.host = rows[c].host
    OBVIOUS
  <2> HIDE DEF cycle
  <2>5. InventoryTypeOK'
    BY <2>1, <2>3 DEF InventoryTypeOK
  <2>6. WritesToItsRow'
    BY <2>1, <2>4 DEF WritesToItsRow, InventoryTypeOK
  <2> QED
    BY <2>1, <2>5, <2>6 DEF HostsApart, SeenRowsStay
<1>2. CASE EndWriting(c)
  <2>1. writing' = [writing EXCEPT ![c] = Absent] /\ UNCHANGED <<yaml, rows, loads, up, raced, fresh>>
    BY <1>2 DEF EndWriting
  <2>2. InventoryTypeOK'
    BY <2>1 DEF InventoryTypeOK
  <2>3. WritesToItsRow'
    BY <2>1 DEF WritesToItsRow, InventoryTypeOK
  <2> QED
    BY <2>1, <2>2, <2>3 DEF HostsApart, SeenRowsStay
<1> QED
  BY <1>1, <1>2

LEMMA NextInventoryInv == InventoryInv /\ [InventoryNext]_inventoryVars => InventoryInv'
<1> SUFFICES ASSUME InventoryInv, [InventoryNext]_inventoryVars PROVE InventoryInv'
  OBVIOUS
<1>1. ASSUME NEW f \in InventoryFiles, EditFile(f) PROVE InventoryInv'
  BY <1>1 DEF EditFile, InventoryInv, InventoryTypeOK, HostsApart, WritesToItsRow, SeenRowsStay
<1>2. ASSUME NEW l \in Loaders, Load(l) PROVE InventoryInv'
  BY <1>2, ReadsKeepInventoryInv, WriteRowsKeepsInventoryInv DEF Load, GoesOn
<1>3. CASE WorkerStops
  BY <1>3 DEF WorkerStops, InventoryInv, InventoryTypeOK, HostsApart, WritesToItsRow, SeenRowsStay
<1>4. ASSUME NEW c \in Codes, BeginWriting(c) \/ EndWriting(c) PROVE InventoryInv'
  BY <1>4, CyclesKeepInventoryInv
<1>5. CASE UNCHANGED inventoryVars
  BY <1>5 DEF inventoryVars, InventoryInv, InventoryTypeOK, HostsApart, WritesToItsRow, SeenRowsStay
<1> QED
  BY <1>1, <1>2, <1>3, <1>4, <1>5 DEF InventoryNext

THEOREM InventoryInvariance == InventorySpec => []InventoryInv
<1>1. InventoryInit => InventoryInv
  BY InitInventoryInv
<1>2. InventoryInv /\ [InventoryNext]_inventoryVars => InventoryInv'
  BY NextInventoryInv
<1> QED
  BY <1>1, <1>2, PTL DEF InventorySpec

-----------------------------------------------------------------------------
(* Theorems                                                                *)

(* Types: whatever loads overlap, sync_devices leaves rows made of the     *)
(* store numbers and hosts of the files, and works from accepted files.    *)
THEOREM InventoryTypeCorrect == InventorySpec => []InventoryTypeOK
<1>1. InventoryInv => InventoryTypeOK
  BY DEF InventoryInv
<1> QED
  BY <1>1, InventoryInvariance, PTL

(* No two stores' cycles write to one Pi, unless the row of one of them    *)
(* changed since it began or two loads overlapped: what parse_devices      *)
(* refuses, what sync_devices does to the rows that leave the file and     *)
(* what write access asks for are enough, whatever the files.              *)
THEOREM OneWriterPerHost == InventorySpec => []OneWriterPerPi
<1>1. InventoryInv => OneWriterPerPi
  <2> SUFFICES ASSUME InventoryInv, ~raced,
                      NEW c \in Codes, NEW d \in Codes, c # d,
                      writing[c] # Absent, writing[d] # Absent,
                      writing[c].host = writing[d].host,
                      writing[c].current, writing[d].current
               PROVE  FALSE
    BY DEF OneWriterPerPi
  <2>1. rows[c] # Absent /\ rows[c].inConfig /\ rows[c].host = writing[c].host
    BY DEF InventoryInv, WritesToItsRow
  <2>2. rows[d] # Absent /\ rows[d].inConfig /\ rows[d].host = writing[d].host
    BY DEF InventoryInv, WritesToItsRow
  <2> QED
    BY <2>1, <2>2 DEF InventoryInv, HostsApart
<1> QED
  BY <1>1, InventoryInvariance, PTL

-----------------------------------------------------------------------------
(* Lease                                                                   *)

(* A process in the middle of an action that renewed recently holds the    *)
(* lease, with what that renewal gave it less the time that passed.        *)
Fresh ==
  \A p \in Owners :
    (phase[p] \in {"cleared", "sent"} /\ since[p] < RenewEvery) =>
      lease.owner = p /\ lease.left >= TTL - since[p]

(* A process cleared to write holds the lease for at least as long as it   *)
(* may still pause.                                                        *)
Covered ==
  \A p \in Owners :
    phase[p] = "cleared" => lease.owner = p /\ lease.left >= MaxPause - pause[p]

LeaseInv == LeaseTypeOK /\ Fresh /\ Covered

-----------------------------------------------------------------------------
(* The initial state.                                                      *)
LEMMA LeaseInitInv == LeaseInit => LeaseInv
  BY LeaseAssumption DEF LeaseInit, LeaseInv, LeaseTypeOK, Phases, Fresh, Covered

(* Each kind of step.                                                      *)
LEMMA AcquireInv ==
  ASSUME LeaseInv, NEW p \in Owners, Acquire(p)
  PROVE  LeaseInv'
  BY LeaseAssumption DEF Acquire, LeaseInv, LeaseTypeOK, Phases, Fresh, Covered

LEMMA ExtendInv ==
  ASSUME LeaseInv, NEW p \in Owners, phase[p] \in {"in", "sent"}, Extend(p)
  PROVE  LeaseInv'
  BY LeaseAssumption DEF Extend, Cleared, LeaseInv, LeaseTypeOK, Phases, Fresh, Covered

LEMMA LoseInv ==
  ASSUME LeaseInv, NEW p \in Owners, Lose(p)
  PROVE  LeaseInv'
  BY LeaseAssumption DEF Lose, LeaseInv, LeaseTypeOK, Phases, Fresh, Covered

LEMMA StepInv ==
  ASSUME LeaseInv, NEW p \in Owners, CycleStep(p)
  PROVE  LeaseInv'
<1>1. CASE BeforeAction(p)
  BY <1>1, ExtendInv, LoseInv DEF BeforeAction
<1>2. CASE SendBlock(p)
  BY <1>2, LeaseAssumption DEF SendBlock, LeaseInv, LeaseTypeOK, Phases, Fresh, Covered
<1>3. CASE Progress(p)
  <2>1. CASE since[p] < RenewEvery
    BY <1>3, <2>1, LeaseAssumption
       DEF Progress, Cleared, LeaseInv, LeaseTypeOK, Phases, Fresh, Covered
  <2>2. CASE ~ (since[p] < RenewEvery)
    BY <1>3, <2>2, ExtendInv, LoseInv DEF Progress
  <2>3. QED BY <2>1, <2>2
<1>4. CASE FinishAction(p)
  BY <1>4, LeaseAssumption DEF FinishAction, LeaseInv, LeaseTypeOK, Phases, Fresh, Covered
<1>5. CASE Abort(p)
  BY <1>5, LeaseAssumption DEF Abort, LeaseInv, LeaseTypeOK, Phases, Fresh, Covered
<1>6. CASE Release(p)
  BY <1>6, LeaseAssumption DEF Release, LeaseInv, LeaseTypeOK, Phases, Fresh, Covered
<1>7. QED BY <1>1, <1>2, <1>3, <1>4, <1>5, <1>6 DEF CycleStep

LEMMA TickInv ==
  ASSUME LeaseInv, Tick
  PROVE  LeaseInv'
<1>1. LeaseTypeOK'
  BY LeaseAssumption DEF Tick, Writing, LeaseInv, LeaseTypeOK, Phases
<1>2. Fresh'
  BY LeaseAssumption DEF Tick, LeaseInv, LeaseTypeOK, Phases, Fresh
<1>3. Covered'
  BY LeaseAssumption DEF Tick, Writing, LeaseInv, LeaseTypeOK, Phases, Covered
<1>4. QED BY <1>1, <1>2, <1>3 DEF LeaseInv

LEMMA NextInv == LeaseInv /\ [LeaseNext]_leaseVars => LeaseInv'
<1> SUFFICES ASSUME LeaseInv, [LeaseNext]_leaseVars PROVE LeaseInv'
  OBVIOUS
<1>1. ASSUME NEW p \in Owners, Acquire(p) PROVE LeaseInv'
  BY <1>1, AcquireInv
<1>2. ASSUME NEW p \in Owners, CycleStep(p) PROVE LeaseInv'
  BY <1>2, StepInv
<1>3. ASSUME NEW p \in Owners, ReleaseFails(p) PROVE LeaseInv'
  BY <1>3, LeaseAssumption DEF ReleaseFails, LeaseInv, LeaseTypeOK, Phases, Fresh, Covered
<1>4. ASSUME NEW p \in Owners, Crash(p) PROVE LeaseInv'
  BY <1>4, LeaseAssumption DEF Crash, LeaseInv, LeaseTypeOK, Phases, Fresh, Covered
<1>5. CASE Tick
  BY <1>5, TickInv
<1>6. CASE UNCHANGED leaseVars
  BY <1>6 DEF leaseVars, LeaseInv, LeaseTypeOK, Fresh, Covered
<1>7. QED BY <1>1, <1>2, <1>3, <1>4, <1>5, <1>6 DEF LeaseNext

THEOREM LeaseInvariant == LeaseSpec => []LeaseInv
  BY LeaseInitInv, NextInv, PTL DEF LeaseSpec

-----------------------------------------------------------------------------
(* Every state of the lease is well formed.                                *)
THEOREM LeaseTypeCorrect == LeaseSpec => []LeaseTypeOK
<1>1. LeaseInv => LeaseTypeOK
  BY DEF LeaseInv
<1>2. QED BY <1>1, LeaseInvariant, PTL

(* What a process cleared to write checked is still so when it writes: it  *)
(* holds the lease and the lease has not run out.                          *)
LEMMA CoveredIsUnderLease == LeaseInv => ClearedUnderLease
  BY LeaseAssumption DEF LeaseInv, LeaseTypeOK, Covered, ClearedUnderLease, Writing

THEOREM WritesUnderLease == LeaseSpec => []ClearedUnderLease
  BY CoveredIsUnderLease, LeaseInvariant, PTL

(* Two processes are never about to write to one Pi at the same time.      *)
THEOREM NeverTwoWriters == LeaseSpec => []AtMostOneWriter
<1>1. LeaseInv => AtMostOneWriter
  BY CoveredIsUnderLease DEF ClearedUnderLease, AtMostOneWriter, Writing
<1>2. QED BY <1>1, LeaseInvariant, PTL

-----------------------------------------------------------------------------
(***************************************************************************)
(* Refinement.  Under the mapping of DeviceLease!Promise the holder is the *)
(* lease's owner and the writers are the cleared processes.  Whoever is    *)
(* cleared is the holder, so a step of p that changes the lease finds      *)
(* either nobody cleared or p alone.                                       *)
(***************************************************************************)
LEMMA OnlyHolderCleared ==
  ASSUME LeaseInv
  PROVE  \A q \in Owners : phase[q] = "cleared" => lease.owner = q /\ lease.left >= 0
  BY CoveredIsUnderLease DEF ClearedUnderLease, Writing

(* Taking the lease opens a cycle, with nobody about to write.             *)
LEMMA AcquireOpens ==
  ASSUME LeaseInv, NEW p \in Owners, Acquire(p)
  PROVE  Promise!Open(p)
<1>1. Writing = {}
  BY OnlyHolderCleared, LeaseAssumption DEF Acquire, Writing, LeaseInv, LeaseTypeOK
<1>2. Writing' = {}
  BY <1>1, LeaseAssumption DEF Acquire, Writing, LeaseInv, LeaseTypeOK
<1>3. lease'.owner = p
  BY DEF Acquire
<1>4. QED BY <1>1, <1>2, <1>3 DEF Promise!Open

(* A renewal, before an action or between two blocks, lets p write.        *)
LEMMA ExtendBegins ==
  ASSUME LeaseInv, NEW p \in Owners, phase[p] # "cleared", Extend(p)
  PROVE  Promise!BeginWrite(p)
<1>1. Writing = {}
  BY OnlyHolderCleared DEF Extend, Writing
<1>2. Writing' = {p}
  BY <1>1 DEF Extend, Cleared, Writing, LeaseInv, LeaseTypeOK
<1>3. lease.owner = p /\ lease'.owner = p
  BY DEF Extend, LeaseInv, LeaseTypeOK
<1>4. QED BY <1>1, <1>2, <1>3 DEF Promise!BeginWrite

(* A process that leaves "cleared" has written, or will not.               *)
LEMMA LeavingEnds ==
  ASSUME LeaseInv, NEW p \in Owners, phase[p] = "cleared", UNCHANGED lease,
         NEW s \in Phases \ {"cleared"}, phase' = [phase EXCEPT ![p] = s]
  PROVE  Promise!EndWrite(p)
<1>1. Writing = {p}
  BY OnlyHolderCleared DEF Writing
<1>2. Writing' = {}
  BY <1>1 DEF Writing, LeaseInv, LeaseTypeOK
<1>3. QED BY <1>1, <1>2 DEF Promise!EndWrite

(* A step of a process that was not cleared, and is not afterwards, is     *)
(* invisible unless it changes the lease's owner.                          *)
LEMMA OthersStutter ==
  ASSUME LeaseInv, NEW p \in Owners, phase[p] # "cleared", UNCHANGED lease,
         NEW s \in Phases \ {"cleared"}, phase' = [phase EXCEPT ![p] = s]
  PROVE  UNCHANGED Promise!vars
  BY DEF Promise!vars, Writing, LeaseInv, LeaseTypeOK

LEMMA StepImplements ==
  ASSUME LeaseInv, NEW p \in Owners, CycleStep(p)
  PROVE  [Promise!Next]_(Promise!vars)
<1>1. CASE BeforeAction(p)
  <2>1. CASE Extend(p)
    BY <1>1, <2>1, ExtendBegins DEF BeforeAction, Promise!Next
  <2>2. CASE Lose(p)
    BY <1>1, <2>2, OthersStutter DEF BeforeAction, Lose, Phases
  <2>3. QED BY <1>1, <2>1, <2>2 DEF BeforeAction
<1>2. CASE SendBlock(p)
  BY <1>2, LeavingEnds DEF SendBlock, Phases, Promise!Next
<1>3. CASE Progress(p)
  <2>1. CASE since[p] < RenewEvery
    <3>1. lease.owner = p
      BY <1>3, <2>1 DEF Progress, LeaseInv, Fresh
    <3>2. Writing = {}
      BY <1>3, <3>1, OnlyHolderCleared DEF Progress, Writing
    <3>3. Writing' = {p}
      BY <1>3, <2>1, <3>2 DEF Progress, Cleared, Writing, LeaseInv, LeaseTypeOK
    <3>4. UNCHANGED lease
      BY <1>3, <2>1 DEF Progress
    <3>5. QED BY <3>1, <3>2, <3>3, <3>4 DEF Promise!BeginWrite, Promise!Next
  <2>2. CASE ~ (since[p] < RenewEvery) /\ Extend(p)
    BY <1>3, <2>2, ExtendBegins DEF Progress, Promise!Next
  <2>3. CASE ~ (since[p] < RenewEvery) /\ Lose(p)
    BY <1>3, <2>3, OthersStutter DEF Progress, Lose, Phases
  <2>4. QED BY <1>3, <2>1, <2>2, <2>3 DEF Progress
<1>4. CASE FinishAction(p)
  BY <1>4, LeavingEnds DEF FinishAction, Phases, Promise!Next
<1>5. CASE Abort(p)
  <2>1. CASE phase[p] = "cleared"
    BY <1>5, <2>1, LeavingEnds DEF Abort, Phases, Promise!Next
  <2>2. CASE phase[p] # "cleared"
    BY <1>5, <2>2, OthersStutter DEF Abort, Phases
  <2>3. QED BY <2>1, <2>2
<1>6. CASE Release(p)
  <2>1. CASE lease.owner = p
    <3>1. Writing = {}
      BY <1>6, <2>1, OnlyHolderCleared DEF Release, Writing
    <3>2. Writing' = {}
      BY <1>6, <3>1 DEF Release, Writing, LeaseInv, LeaseTypeOK
    <3>3. lease'.owner = Nobody
      BY <1>6, <2>1 DEF Release
    <3>4. QED BY <3>1, <3>2, <3>3 DEF Promise!Close, Promise!Next
  <2>2. CASE lease.owner # p
    BY <1>6, <2>2, OthersStutter DEF Release, Phases
  <2>3. QED BY <2>1, <2>2
<1>7. QED BY <1>1, <1>2, <1>3, <1>4, <1>5, <1>6 DEF CycleStep

LEMMA NextImplements ==
  LeaseInv /\ [LeaseNext]_leaseVars => [Promise!Next]_(Promise!vars)
<1> SUFFICES ASSUME LeaseInv, [LeaseNext]_leaseVars
             PROVE  [Promise!Next]_(Promise!vars)
  OBVIOUS
<1>1. ASSUME NEW p \in Owners, Acquire(p) PROVE Promise!Next
  BY <1>1, AcquireOpens DEF Promise!Next
<1>2. ASSUME NEW p \in Owners, CycleStep(p) PROVE [Promise!Next]_(Promise!vars)
  BY <1>2, StepImplements
<1>3. ASSUME NEW p \in Owners, ReleaseFails(p) PROVE UNCHANGED Promise!vars
  BY <1>3, OthersStutter DEF ReleaseFails, Phases
<1>4. ASSUME NEW p \in Owners, Crash(p) PROVE [Promise!Next]_(Promise!vars)
  <2>1. CASE phase[p] = "cleared"
    BY <1>4, <2>1, LeavingEnds DEF Crash, Phases, Promise!Next
  <2>2. CASE phase[p] # "cleared"
    BY <1>4, <2>2, OthersStutter DEF Crash, Phases
  <2>3. QED BY <2>1, <2>2
<1>5. CASE Tick
  BY <1>5 DEF Tick, Promise!vars, Writing, LeaseInv, LeaseTypeOK
<1>6. CASE UNCHANGED leaseVars
  BY <1>6 DEF leaseVars, Promise!vars, Writing
<1>7. QED BY <1>1, <1>2, <1>3, <1>4, <1>5, <1>6 DEF LeaseNext

(* The lease keeps its promise: the writes of two cycles never interleave, *)
(* and only the holder writes.                                             *)
THEOREM LeaseKeepsPromise == LeaseSpec => OneCycleWritesAtATime
<1>1. LeaseInit => Promise!Init
  BY DEF LeaseInit, Promise!Init, Writing
<1>2. QED
  BY <1>1, NextImplements, LeaseInvariant, PTL
     DEF LeaseSpec, OneCycleWritesAtATime, Promise!Spec

-----------------------------------------------------------------------------
(* Backups                                                                 *)

BackupSpec == BackupInit /\ [][BackupNext]_backupVars

ServicePhases == {"down", "starting", "up", "draining"}

(* Whoever runs has the file open that was there when it started; a worker *)
(* that is up, in the file that is there, has beaten lately.               *)
ServicesOK ==
  /\ DOMAIN dbfile = {"gen", "main", "wal", "beat"}
  /\ dbfile = [gen |-> dbfile.gen, main |-> dbfile.main, wal |-> dbfile.wal, beat |-> dbfile.beat]
  /\ dbfile.gen \in Nat \ {0}
  /\ running \in [Services -> ServicePhases]
  /\ has \in [Services -> Nat]
  /\ \A s \in Services : has[s] <= dbfile.gen /\ (running[s] = "down" <=> has[s] = 0)
  /\ running["worker"] = "up" /\ has["worker"] = dbfile.gen => dbfile.beat = "fresh"

(* A restore that nothing ran beside finds the database as the check did,  *)
(* without a log once the command's own connections are closed; a worker   *)
(* that runs beside it is one that the check could not see.                *)
RestoreOK ==
  /\ restoring = [step |-> restoring.step, from |-> restoring.from, before |-> restoring.before,
                  quiet |-> restoring.quiet, late |-> restoring.late]
  /\ restoring.step # "idle" =>
       /\ restoring.quiet => /\ \A s \in Services : running[s] = "down"
                             /\ Holds(dbfile) = restoring.before
                             /\ restoring.step # "checked" => dbfile.wal = NoLog
       /\ running["worker"] # "down" => restoring.late

BackupOK == ServicesOK /\ RestoreOK

LEMMA ServicesTwo == Services = {"web", "worker"} /\ "worker" \in Services
BY DEF Services

LEMMA BackupInitially == BackupInit => BackupOK
BY DEF BackupInit, BackupOK, ServicesOK, RestoreOK, NotRestoring, ServicePhases, Services

(* A service that starts is noticed; a worker that does, as late.          *)
LEMMA Starting ==
  ASSUME BackupOK, NEW s \in Services, Start(s)
  PROVE  BackupOK'
<1>1. ServicesOK'
  BY DEF Start, BackupOK, ServicesOK, ServicePhases, Services
<1>2. CASE restoring.step = "idle"
  <2>1. restoring' = restoring
    BY <1>2 DEF Start, Noticed
  <2>2. QED BY <1>1, <1>2, <2>1 DEF BackupOK, RestoreOK
<1>3. CASE restoring.step # "idle"
  <2>1. restoring' = [restoring EXCEPT !.quiet = FALSE, !.late = @ \/ s = "worker"]
    BY <1>3 DEF Start, Noticed
  <2>2. /\ restoring'.quiet = FALSE
        /\ restoring'.late = (restoring.late \/ s = "worker")
        /\ restoring'.step = restoring.step
        /\ restoring' = [step |-> restoring'.step, from |-> restoring'.from, before |-> restoring'.before,
                         quiet |-> restoring'.quiet, late |-> restoring'.late]
    BY <2>1 DEF BackupOK, RestoreOK
  <2>3. running' = [running EXCEPT ![s] = IF s = "web" THEN "up" ELSE "starting"]
    BY DEF Start
  <2>4. running'["worker"] # "down" => restoring'.late
    BY <1>3, <2>2, <2>3 DEF BackupOK, ServicesOK, RestoreOK, Services
  <2>5. QED BY <1>1, <2>2, <2>4 DEF BackupOK, RestoreOK
<1>4. QED BY <1>1, <1>2, <1>3 DEF BackupOK

LEMMA Stopping ==
  ASSUME BackupOK, NEW s \in Services, Stop(s) \/ Kill(s)
  PROVE  BackupOK'
<1>1. running[s] # "down"
  BY DEF Stop, Kill
<1>2. running' = [running EXCEPT ![s] = "down"] /\ has' = [has EXCEPT ![s] = 0] /\ restoring' = restoring
  BY DEF Stop, Kill
<1>3. /\ dbfile'.gen = dbfile.gen
      /\ DOMAIN dbfile' = {"gen", "main", "wal", "beat"}
      /\ dbfile' = [gen |-> dbfile'.gen, main |-> dbfile'.main, wal |-> dbfile'.wal, beat |-> dbfile'.beat]
      /\ s # "worker" => dbfile'.beat = dbfile.beat
  <2>1. CASE Kill(s)
    BY <2>1 DEF Kill, BackupOK, ServicesOK
  <2>2. CASE Stop(s)
    BY <2>2 DEF Stop, Beaten, Closed, BackupOK, ServicesOK
  <2>3. QED BY <2>1, <2>2
<1>4. ServicesOK'
  BY <1>2, <1>3 DEF BackupOK, ServicesOK, ServicePhases, Services
<1>5. RestoreOK'
  BY <1>1, <1>2 DEF BackupOK, ServicesOK, RestoreOK, Services
<1>6. QED BY <1>4, <1>5 DEF BackupOK

LEMMA Working ==
  ASSUME BackupOK, (\E s \in Services : Commit(s)) \/ FirstBeat \/ Drain \/ BeatAges
  PROVE  BackupOK'
<1>1. CASE \E s \in Services : Commit(s)
  BY <1>1 DEF Commit, BackupOK, ServicesOK, RestoreOK
<1>2. CASE FirstBeat
  BY <1>2 DEF FirstBeat, Beaten, BackupOK, ServicesOK, RestoreOK, ServicePhases, Services
<1>3. CASE Drain
  BY <1>3 DEF Drain, BackupOK, ServicesOK, RestoreOK, ServicePhases, Services
<1>4. CASE BeatAges
  BY <1>4 DEF BeatAges, BackupOK, ServicesOK, RestoreOK, Holds
<1>5. QED BY <1>1, <1>2, <1>3, <1>4

LEMMA TakingBackups ==
  ASSUME BackupOK, CopyPages \/ Publish \/ DropCopy \/ Day
  PROVE  BackupOK'
BY DEF CopyPages, Publish, DropCopy, Day, BackupOK, ServicesOK, RestoreOK, Holds

LEMMA Checking ==
  ASSUME BackupOK, NEW b \in backups, CheckWorker(b)
  PROVE  BackupOK'
<1>1. ServicesOK'
  BY DEF CheckWorker, BackupOK, ServicesOK
<1>2. running["worker"] # "down" => Unseen
  BY DEF CheckWorker, BackupOK, ServicesOK, Unseen, ServicePhases, Services
<1>3. RestoreOK'
  BY <1>2 DEF CheckWorker, RestoreOK, Holds
<1>4. QED BY <1>1, <1>3 DEF BackupOK

LEMMA Restoring ==
  ASSUME BackupOK, Confirm \/ Unlink \/ CopyBackup \/ Replace \/ GiveUp
  PROVE  BackupOK'
<1>1. CASE Confirm
  <2>1. restoring.quiet => \A s \in Services : has[s] # dbfile.gen
    BY <1>1 DEF Confirm, BackupOK, ServicesOK, RestoreOK
  <2>2. /\ Holds(dbfile') = Holds(dbfile) /\ dbfile'.gen = dbfile.gen /\ dbfile'.beat = dbfile.beat
        /\ restoring.quiet => dbfile'.wal = NoLog
        /\ DOMAIN dbfile' = DOMAIN dbfile
        /\ dbfile' = [gen |-> dbfile'.gen, main |-> dbfile'.main, wal |-> dbfile'.wal, beat |-> dbfile'.beat]
    BY <1>1, <2>1 DEF Confirm, Closed, Holds, BackupOK, ServicesOK
  <2>3. QED BY <1>1, <2>2 DEF Confirm, BackupOK, ServicesOK, RestoreOK
<1>2. CASE Unlink
  BY <1>2 DEF Unlink, BackupOK, ServicesOK, RestoreOK, Holds
<1>3. CASE CopyBackup
  BY <1>3 DEF CopyBackup, BackupOK, ServicesOK, RestoreOK
<1>4. CASE Replace
  BY <1>4 DEF Replace, BackupOK, ServicesOK, RestoreOK, NotRestoring, Services
<1>5. CASE GiveUp
  BY <1>5 DEF GiveUp, BackupOK, ServicesOK, RestoreOK, NotRestoring
<1>6. QED BY <1>1, <1>2, <1>3, <1>4, <1>5

LEMMA BackupSteps ==
  ASSUME BackupOK, [BackupNext]_backupVars
  PROVE  BackupOK'
<1>1. CASE BackupNext
  BY <1>1, Starting, Stopping, Working, TakingBackups, Checking, Restoring DEF BackupNext
<1>2. CASE UNCHANGED backupVars
  BY <1>2 DEF backupVars, BackupOK, ServicesOK, RestoreOK, Holds
<1>3. QED BY <1>1, <1>2

(* What the end of a restore promises.                                     *)
Restored ==
  restoring.step # "idle" /\ restoring'.step = "idle" =>
    /\ restoring.quiet =>
         Holds(dbfile') = IF dbfile'.gen = dbfile.gen THEN restoring.before ELSE restoring.from
    /\ dbfile'.gen # dbfile.gen /\ running["worker"] # "down" => restoring.late

LEMMA OnlyTheseEnd ==
  ASSUME BackupOK, BackupNext, restoring.step # "idle", restoring'.step = "idle"
  PROVE  Replace \/ GiveUp
<1>1. ASSUME NEW s \in Services, Start(s) \/ Stop(s) \/ Kill(s) \/ Commit(s) PROVE FALSE
  BY <1>1 DEF Start, Stop, Kill, Commit, Noticed, BackupOK, RestoreOK
<1>2. ASSUME FirstBeat \/ Drain \/ BeatAges \/ CopyPages \/ Publish \/ DropCopy \/ Day PROVE FALSE
  BY <1>2 DEF FirstBeat, Drain, BeatAges, CopyPages, Publish, DropCopy, Day
<1>3. ASSUME NEW b \in backups, CheckWorker(b) PROVE FALSE
  BY <1>3 DEF CheckWorker
<1>4. ASSUME Confirm \/ Unlink \/ CopyBackup PROVE FALSE
  BY <1>4 DEF Confirm, Unlink, CopyBackup, BackupOK, RestoreOK
<1>5. QED BY <1>1, <1>2, <1>3, <1>4 DEF BackupNext

LEMMA RestoreEnds ==
  ASSUME BackupOK, BackupNext, restoring.step # "idle", restoring'.step = "idle"
  PROVE  Restored
<1>1. CASE Replace
  <2>1. dbfile'.gen # dbfile.gen
    BY <1>1 DEF Replace, BackupOK, ServicesOK
  <2>2. restoring.quiet => Holds(dbfile') = restoring.from
    BY <1>1 DEF Replace, BackupOK, RestoreOK, Holds
  <2>3. QED BY <2>1, <2>2 DEF Restored, BackupOK, RestoreOK
<1>2. CASE GiveUp
  BY <1>2 DEF GiveUp, Restored, BackupOK, RestoreOK
<1>3. QED BY <1>1, <1>2, OnlyTheseEnd

(* Whatever restore ends, however far it got: with no service running, the *)
(* database is the backup or what it was; and no worker is left in a file  *)
(* that was replaced but one the check could not see (cli.py, restore).    *)
THEOREM RestoresAreFaithful == BackupSpec => RestoreFaithful
<1>1. BackupInit => BackupOK
  BY BackupInitially
<1>2. BackupOK /\ [BackupNext]_backupVars => BackupOK'
  BY BackupSteps
<1>3. BackupOK /\ [BackupNext]_backupVars => [Restored]_backupVars
  BY RestoreEnds DEF Restored, backupVars
<1>4. QED BY <1>1, <1>2, <1>3, PTL DEF BackupSpec, RestoreFaithful, Restored

-----------------------------------------------------------------------------
(* Local time                                                              *)

(* The offset when the first k changes of the zone have happened.          *)
OffsetAfter(k) == IF k = 0 THEN zone.base ELSE zone.changes[k].after

(* The changes of a zone, one by one: an offset comes from the one before, *)
(* and the readings of a change are its instant and one of these.          *)
LEMMA ChangesOfAZone ==
  ASSUME zone \in Zones
  PROVE  /\ Len(zone.changes) \in Nat
         /\ DOMAIN zone.changes = 1 .. Len(zone.changes)
         /\ \A k \in 0 .. Len(zone.changes) : OffsetAfter(k) \in Int
         /\ \A i \in 1 .. Len(zone.changes) :
              LET c == zone.changes[i] IN
              /\ c.at \in Int
              /\ EarlierReading(c) = c.at + Lesser(OffsetAfter(i - 1), OffsetAfter(i))
              /\ LaterReading(c) = c.at + Greater(OffsetAfter(i - 1), OffsetAfter(i))
         /\ \A i, j \in 1 .. Len(zone.changes) : i < j =>
              /\ zone.changes[i].at < zone.changes[j].at
              /\ LaterReading(zone.changes[i]) < EarlierReading(zone.changes[j])
<1>1. IsZone(zone)
  BY LocalTimeAssumption
<1>2. /\ zone.base \in Int
      /\ zone.changes \in Seq([at : Int, before : Int, after : Int])
      /\ DOMAIN zone.changes = 1 .. Len(zone.changes)
      /\ Len(zone.changes) \in Nat
  BY <1>1 DEF IsZone
<1>3. \A i \in 1 .. Len(zone.changes) : zone.changes[i] \in [at : Int, before : Int, after : Int]
  <2> DEFINE changes == zone.changes
             Changes == [at : Int, before : Int, after : Int]
  <2>1. changes \in Seq(Changes)
    BY <1>2
  <2> HIDE DEF changes, Changes
  <2>2. \A i \in 1 .. Len(changes) : changes[i] \in Changes
    BY <2>1
  <2>3. QED BY <2>2 DEF changes, Changes
<1>4. \A k \in 0 .. Len(zone.changes) : OffsetAfter(k) \in Int
  BY <1>2, <1>3 DEF OffsetAfter
<1>5. ASSUME NEW i \in 1 .. Len(zone.changes)
      PROVE  zone.changes[i].before = OffsetAfter(i - 1) /\ zone.changes[i].after = OffsetAfter(i)
  BY <1>1, <1>2, <1>5 DEF IsZone, OffsetAfter
<1>6. \A i \in 1 .. Len(zone.changes) :
        LET c == zone.changes[i] IN
        /\ c.at \in Int
        /\ EarlierReading(c) = c.at + Lesser(OffsetAfter(i - 1), OffsetAfter(i))
        /\ LaterReading(c) = c.at + Greater(OffsetAfter(i - 1), OffsetAfter(i))
  BY <1>3, <1>5 DEF EarlierReading, LaterReading
<1>7. QED BY <1>1, <1>2, <1>4, <1>6 DEF IsZone

LEMMA AfterTheFirst ==
  ASSUME zone \in Zones, NEW k \in 0 .. Len(zone.changes)
  PROVE  After(1 .. k) = OffsetAfter(k)
<1>0. k \in Nat
  BY ChangesOfAZone
<1>1. CASE k = 0
  BY <1>1 DEF After, OffsetAfter
<1>2. CASE k # 0
  <2>1. 1 .. k # {} /\ k \in 1 .. k
    <3>1. k \in 1 .. k
      BY <1>0, <1>2
    <3>2. QED BY <3>1
  <2>2. (CHOOSE i \in 1 .. k : \A j \in 1 .. k : j <= i) = k
    <3>1. \A j \in 1 .. k : j <= k
      BY <1>0
    <3>2. \A i \in 1 .. k : (\A j \in 1 .. k : j <= i) => i = k
      BY <1>0, <2>1
    <3>3. QED BY <2>1, <3>1, <3>2
  <2>3. After(1 .. k) = zone.changes[CHOOSE i \in 1 .. k : \A j \in 1 .. k : j <= i].after
    BY <2>1 DEF After
  <2>4. QED BY <1>2, <2>2, <2>3 DEF OffsetAfter
<1>3. QED BY <1>1, <1>2

(* The changes that have happened at an instant are the first ones, as are *)
(* those that count for a naive time.                                      *)
LEMMA OffsetIs ==
  ASSUME zone \in Zones, NEW t \in Int
  PROVE  \E k \in 0 .. Len(zone.changes) :
           /\ Offset(t) = OffsetAfter(k)
           /\ \A i \in 1 .. Len(zone.changes) : zone.changes[i].at <= t <=> i <= k
<1> DEFINE S == {i \in DOMAIN zone.changes : zone.changes[i].at <= t}
<1>1. S \in SUBSET (1 .. Len(zone.changes)) /\ \A i \in S : 1 .. i \subseteq S
  <2>1. ASSUME NEW i \in S, NEW j \in 1 .. i
        PROVE  j \in S
    <3>1. i \in 1 .. Len(zone.changes) /\ j \in 1 .. Len(zone.changes)
      BY ChangesOfAZone
    <3>2. CASE j = i
      BY <3>2
    <3>3. CASE j < i
      <4>1. zone.changes[j].at < zone.changes[i].at
        BY <3>1, <3>3, ChangesOfAZone
      <4>2. zone.changes[j].at \in Int /\ zone.changes[i].at \in Int
        BY <3>1, ChangesOfAZone
      <4>3. QED BY <3>1, <4>1, <4>2, ChangesOfAZone
    <3>4. QED BY <3>1, <3>2, <3>3
  <2>2. QED BY <2>1, ChangesOfAZone
<1>2. PICK k \in 0 .. Len(zone.changes) : S = 1 .. k
  BY <1>1, ChangesOfAZone, Counted
<1>3. Offset(t) = OffsetAfter(k)
  BY <1>2, AfterTheFirst DEF Offset
<1>4. \A i \in 1 .. Len(zone.changes) : i \in S <=> i <= k
  BY <1>2, ChangesOfAZone
<1>5. QED BY <1>3, <1>4, ChangesOfAZone

(* The reading from which a change counts for a naive time.                *)
Counts(c, fold) == IF fold = 0 THEN LaterReading(c) ELSE EarlierReading(c)

LEMMA NaiveOffsetIs ==
  ASSUME zone \in Zones, NEW n \in Int, NEW fold \in {0, 1}
  PROVE  \E k \in 0 .. Len(zone.changes) :
           /\ NaiveOffset(n, fold) = OffsetAfter(k)
           /\ \A i \in 1 .. Len(zone.changes) : Counts(zone.changes[i], fold) <= n <=> i <= k
<1> DEFINE S == {i \in DOMAIN zone.changes : Counts(zone.changes[i], fold) <= n}
<1>0. \A i \in 1 .. Len(zone.changes) :
        /\ Counts(zone.changes[i], fold) \in Int
        /\ EarlierReading(zone.changes[i]) <= Counts(zone.changes[i], fold)
        /\ Counts(zone.changes[i], fold) <= LaterReading(zone.changes[i])
        /\ EarlierReading(zone.changes[i]) \in Int /\ LaterReading(zone.changes[i]) \in Int
  <2> TAKE i \in 1 .. Len(zone.changes)
  <2>1. i - 1 \in 0 .. Len(zone.changes) /\ i \in 0 .. Len(zone.changes)
    BY ChangesOfAZone
  <2>2. OffsetAfter(i - 1) \in Int /\ OffsetAfter(i) \in Int
    BY <2>1, ChangesOfAZone
  <2>3. /\ zone.changes[i].at \in Int
        /\ EarlierReading(zone.changes[i]) =
             zone.changes[i].at + Lesser(OffsetAfter(i - 1), OffsetAfter(i))
        /\ LaterReading(zone.changes[i]) =
             zone.changes[i].at + Greater(OffsetAfter(i - 1), OffsetAfter(i))
    BY ChangesOfAZone
  <2>4. QED BY <2>2, <2>3 DEF Counts, Lesser, Greater
<1>1. S \in SUBSET (1 .. Len(zone.changes)) /\ \A i \in S : 1 .. i \subseteq S
  <2>1. ASSUME NEW i \in S, NEW j \in 1 .. i
        PROVE  j \in S
    <3>1. i \in 1 .. Len(zone.changes) /\ j \in 1 .. Len(zone.changes)
      BY ChangesOfAZone
    <3>2. CASE j = i
      BY <3>2
    <3>3. CASE j < i
      BY <1>0, <3>1, <3>3, ChangesOfAZone
    <3>4. QED BY <3>1, <3>2, <3>3
  <2>2. QED BY <2>1, ChangesOfAZone
<1>2. PICK k \in 0 .. Len(zone.changes) : S = 1 .. k
  BY <1>1, ChangesOfAZone, Counted
<1>3. NaiveOffset(n, fold) = OffsetAfter(k)
  BY <1>2, AfterTheFirst DEF NaiveOffset, Counts
<1>4. \A i \in 1 .. Len(zone.changes) : i \in S <=> i <= k
  BY <1>2, ChangesOfAZone
<1>5. QED BY <1>3, <1>4, ChangesOfAZone

ChangeAt(i) == zone.changes[i].at

Early(i) == EarlierReading(zone.changes[i])

Late(i) == LaterReading(zone.changes[i])

(* Clocks that go forward read their earlier reading before the change,    *)
(* others after it.                                                        *)
LEMMA Readings ==
  ASSUME zone \in Zones
  PROVE  /\ Len(zone.changes) \in Nat
         /\ \A k \in 0 .. Len(zone.changes) : OffsetAfter(k) \in Int
         /\ \A i \in 1 .. Len(zone.changes) :
              /\ ChangeAt(i) \in Int /\ Early(i) \in Int /\ Late(i) \in Int
              /\ OffsetAfter(i - 1) \in Int /\ OffsetAfter(i) \in Int
              /\ Early(i) <= Late(i)
              /\ OffsetAfter(i - 1) < OffsetAfter(i) =>
                   /\ Early(i) = ChangeAt(i) + OffsetAfter(i - 1)
                   /\ Late(i) = ChangeAt(i) + OffsetAfter(i)
              /\ OffsetAfter(i - 1) >= OffsetAfter(i) =>
                   /\ Early(i) = ChangeAt(i) + OffsetAfter(i)
                   /\ Late(i) = ChangeAt(i) + OffsetAfter(i - 1)
         /\ \A i, j \in 1 .. Len(zone.changes) : i < j =>
              ChangeAt(i) < ChangeAt(j) /\ Late(i) < Early(j)
<1>1. ASSUME NEW i \in 1 .. Len(zone.changes)
      PROVE  /\ ChangeAt(i) \in Int /\ Early(i) \in Int /\ Late(i) \in Int
             /\ OffsetAfter(i - 1) \in Int /\ OffsetAfter(i) \in Int
             /\ Early(i) <= Late(i)
             /\ OffsetAfter(i - 1) < OffsetAfter(i) =>
                  /\ Early(i) = ChangeAt(i) + OffsetAfter(i - 1)
                  /\ Late(i) = ChangeAt(i) + OffsetAfter(i)
             /\ OffsetAfter(i - 1) >= OffsetAfter(i) =>
                  /\ Early(i) = ChangeAt(i) + OffsetAfter(i)
                  /\ Late(i) = ChangeAt(i) + OffsetAfter(i - 1)
  <2>1. i - 1 \in 0 .. Len(zone.changes) /\ i \in 0 .. Len(zone.changes)
    BY ChangesOfAZone
  <2>2. OffsetAfter(i - 1) \in Int /\ OffsetAfter(i) \in Int
    BY <2>1, ChangesOfAZone
  <2>3. /\ ChangeAt(i) \in Int
        /\ Early(i) = ChangeAt(i) + Lesser(OffsetAfter(i - 1), OffsetAfter(i))
        /\ Late(i) = ChangeAt(i) + Greater(OffsetAfter(i - 1), OffsetAfter(i))
    BY ChangesOfAZone DEF ChangeAt, Early, Late
  <2>4. QED BY <2>2, <2>3 DEF Lesser, Greater
<1>2. QED BY <1>1, ChangesOfAZone DEF ChangeAt, Early, Late

LEMMA OneChange ==
  ASSUME zone \in Zones, NEW i \in 1 .. Len(zone.changes)
  PROVE  /\ ChangeAt(i) \in Int /\ Early(i) \in Int /\ Late(i) \in Int
         /\ OffsetAfter(i - 1) \in Int /\ OffsetAfter(i) \in Int
         /\ Early(i) <= ChangeAt(i) + OffsetAfter(i - 1)
         /\ ChangeAt(i) + OffsetAfter(i - 1) <= Late(i)
         /\ Early(i) <= ChangeAt(i) + OffsetAfter(i)
         /\ ChangeAt(i) + OffsetAfter(i) <= Late(i)
<1>1. /\ ChangeAt(i) \in Int /\ Early(i) \in Int /\ Late(i) \in Int
      /\ OffsetAfter(i - 1) \in Int /\ OffsetAfter(i) \in Int
      /\ OffsetAfter(i - 1) < OffsetAfter(i) =>
           /\ Early(i) = ChangeAt(i) + OffsetAfter(i - 1)
           /\ Late(i) = ChangeAt(i) + OffsetAfter(i)
      /\ OffsetAfter(i - 1) >= OffsetAfter(i) =>
           /\ Early(i) = ChangeAt(i) + OffsetAfter(i)
           /\ Late(i) = ChangeAt(i) + OffsetAfter(i - 1)
  BY Readings
<1>2. QED BY <1>1

(* The first k changes have happened at t; count for n.                    *)
Happened(t, k) ==
  /\ k \in 0 .. Len(zone.changes)
  /\ Offset(t) = OffsetAfter(k)
  /\ \A i \in 1 .. Len(zone.changes) : ChangeAt(i) <= t <=> i <= k

CountsFor(n, fold, k) ==
  /\ k \in 0 .. Len(zone.changes)
  /\ NaiveOffset(n, fold) = OffsetAfter(k)
  /\ \A i \in 1 .. Len(zone.changes) : (IF fold = 0 THEN Late(i) ELSE Early(i)) <= n <=> i <= k

LEMMA SomeHappened ==
  ASSUME zone \in Zones, NEW t \in Int
  PROVE  \E k : Happened(t, k)
BY OffsetIs DEF Happened, ChangeAt

LEMMA SomeCount ==
  ASSUME zone \in Zones, NEW n \in Int, NEW fold \in {0, 1}
  PROVE  \E k : CountsFor(n, fold, k)
BY NaiveOffsetIs DEF CountsFor, Counts, Early, Late

LEMMA UtcIsAnInstant ==
  ASSUME zone \in Zones, NEW n \in Int, NEW fold \in {0, 1}
  PROVE  Utc(n, fold) \in Int
<1>1. PICK k : CountsFor(n, fold, k)
  BY SomeCount
<1>2. QED BY <1>1, Readings DEF CountsFor, Utc

(* Where the changes that have happened at t are fewer than those that     *)
(* count for n, the clock has not come to n; where they are as many, it is *)
(* as far from n as t is from the instant of n; where they are more, the   *)
(* next change has happened, and only the next, if the clock shows n.      *)
LEMMA FewerHappened ==
  ASSUME zone \in Zones, NEW n \in Int, NEW t \in Int, NEW j, NEW k,
         Happened(t, j), CountsFor(n, 0, k), j < k
  PROVE  ToLocal(t) < n /\ t < Utc(n, 0)
<1>1. /\ j + 1 \in 1 .. Len(zone.changes) /\ k \in 1 .. Len(zone.changes)
      /\ j \in Int /\ k \in Int
      /\ j \in 0 .. Len(zone.changes)
  BY Readings DEF Happened, CountsFor
<1>2. t < ChangeAt(j + 1) /\ t < ChangeAt(k)
  BY <1>1, Readings DEF Happened
<1>3. Late(j + 1) <= Late(k)
  <2>0. Late(j + 1) \in Int /\ Late(k) \in Int /\ Early(k) \in Int /\ Early(k) <= Late(k)
    BY <1>1, Readings
  <2>1. CASE j + 1 = k
    BY <2>0, <2>1
  <2>2. CASE j + 1 < k
    <3>1. Late(j + 1) < Early(k)
      BY <1>1, <2>2, Readings
    <3>2. QED BY <2>0, <3>1
  <2>3. QED BY <1>1, <2>1, <2>2
<1>4. Late(k) <= n
  BY <1>1 DEF CountsFor
<1>5. ChangeAt(j + 1) + OffsetAfter(j) <= Late(j + 1) /\ OffsetAfter(j) \in Int
  <2>1. (j + 1) - 1 = j
    BY <1>1
  <2>2. QED BY <1>1, <2>1, OneChange
<1>6. ChangeAt(k) + OffsetAfter(k) <= Late(k) /\ OffsetAfter(k) \in Int
  BY <1>1, OneChange
<1>7. Late(k) \in Int /\ Late(j + 1) \in Int /\ ChangeAt(k) \in Int /\ ChangeAt(j + 1) \in Int
  BY <1>1, Readings
<1>8. t + OffsetAfter(j) < n
  BY <1>2, <1>3, <1>4, <1>5, <1>7
<1>9. t < n - OffsetAfter(k)
  BY <1>2, <1>4, <1>6, <1>7
<1>10. QED BY <1>8, <1>9 DEF Happened, CountsFor, ToLocal, Utc

LEMMA AsManyHappened ==
  ASSUME zone \in Zones, NEW n \in Int, NEW t \in Int, NEW k,
         Happened(t, k), CountsFor(n, 0, k)
  PROVE  /\ ToLocal(t) = n <=> t = Utc(n, 0)
         /\ ToLocal(t) < n <=> t < Utc(n, 0)
<1>1. OffsetAfter(k) \in Int
  BY Readings DEF CountsFor
<1>2. QED BY <1>1 DEF Happened, CountsFor, ToLocal, Utc

LEMMA MoreHappened ==
  ASSUME zone \in Zones, NEW n \in Int, NEW t \in Int, NEW j, NEW k,
         Happened(t, j), CountsFor(n, 0, k), j > k
  PROVE  /\ k + 1 \in 1 .. Len(zone.changes)
         /\ n < Late(k + 1)
         /\ ChangeAt(k + 1) <= t
         /\ j > k + 1 => n < ToLocal(t)
         /\ j = k + 1 => ToLocal(t) = t + OffsetAfter(k + 1)
<1>1. /\ k + 1 \in 1 .. Len(zone.changes) /\ j \in 1 .. Len(zone.changes)
      /\ j \in Int /\ k \in Int
  BY Readings DEF Happened, CountsFor
<1>2. n < Late(k + 1) /\ Late(k + 1) \in Int
  BY <1>1, Readings DEF CountsFor
<1>3. ChangeAt(k + 1) <= t /\ ChangeAt(j) <= t
  BY <1>1, Readings DEF Happened
<1>4. ASSUME j > k + 1
      PROVE  n < ToLocal(t)
  <2>1. Late(k + 1) < Early(j)
    BY <1>1, <1>4, Readings
  <2>2. /\ Early(j) <= ChangeAt(j) + OffsetAfter(j)
        /\ Early(j) \in Int /\ ChangeAt(j) \in Int /\ OffsetAfter(j) \in Int
    BY <1>1, OneChange
  <2>3. n < t + OffsetAfter(j)
    BY <1>2, <1>3, <2>1, <2>2
  <2>4. QED BY <2>3 DEF Happened, ToLocal
<1>5. QED BY <1>1, <1>2, <1>3, <1>4 DEF Happened, ToLocal

(* local_to_utc gives the first instant at which the clock shows n, if it  *)
(* ever does.                                                              *)
LEMMA FirstInstant ==
  ASSUME zone \in Zones, NEW n \in Int, NEW t \in Int, ToLocal(t) = n
  PROVE  ToLocal(Utc(n, 0)) = n /\ Utc(n, 0) <= t
<1> DEFINE first == Utc(n, 0)
<1>0. first \in Int
  BY UtcIsAnInstant
<1>1. PICK k : CountsFor(n, 0, k)
  BY SomeCount
<1>2. PICK j : Happened(t, j)
  BY SomeHappened
<1>3. PICK m : Happened(first, m)
  BY <1>0, SomeHappened
<1>4. j \in Int /\ k \in Int /\ m \in Int
  BY <1>1, <1>2, <1>3, Readings DEF Happened, CountsFor
<1>5. j >= k
  <2>1. ~(j < k)
    BY <1>1, <1>2, FewerHappened
  <2>2. QED BY <1>4, <2>1
<1>6. CASE j = k
  <2>1. t = first
    BY <1>1, <1>2, <1>6, AsManyHappened
  <2>2. QED BY <1>0, <2>1
<1>7. CASE j > k
  <2>1. /\ k + 1 \in 1 .. Len(zone.changes)
        /\ n < Late(k + 1)
        /\ ChangeAt(k + 1) <= t
        /\ j = k + 1
        /\ n = t + OffsetAfter(k + 1)
    <3>1. ~(j > k + 1)
      BY <1>1, <1>2, <1>7, MoreHappened
    <3>2. QED BY <1>1, <1>2, <1>4, <1>7, <3>1, MoreHappened
  <2>2. /\ ChangeAt(k + 1) \in Int /\ Late(k + 1) \in Int
        /\ OffsetAfter(k) \in Int /\ OffsetAfter(k + 1) \in Int
        /\ OffsetAfter(k) < OffsetAfter(k + 1) => Late(k + 1) = ChangeAt(k + 1) + OffsetAfter(k + 1)
        /\ OffsetAfter(k) >= OffsetAfter(k + 1) => Late(k + 1) = ChangeAt(k + 1) + OffsetAfter(k)
    <3>1. (k + 1) - 1 = k
      BY <1>4
    <3>2. QED BY <2>1, <3>1, Readings
  <2>3. first = n - OffsetAfter(k)
    BY <1>1 DEF CountsFor, Utc
  <2>4. first < ChangeAt(k + 1)
    BY <2>1, <2>2, <2>3
  <2>5. m = k
    <3>1. ~(m < k)
      BY <1>0, <1>1, <1>3, FewerHappened
    <3>2. ~(m > k)
      <4>1. m > k => ChangeAt(k + 1) <= first
        BY <1>0, <1>1, <1>3, MoreHappened
      <4>2. QED BY <1>0, <2>2, <2>4, <4>1
    <3>3. QED BY <1>4, <3>1, <3>2
  <2>6. ToLocal(first) = n
    BY <1>0, <1>1, <1>3, <2>5, AsManyHappened
  <2>7. QED BY <1>0, <2>1, <2>2, <2>4, <2>6
<1>8. QED BY <1>4, <1>5, <1>6, <1>7

(* A time the clock shows is ambiguous exactly when it shows it twice.     *)
LEMMA ShownTwice ==
  ASSUME zone \in Zones, NEW n \in Int, ToLocal(Utc(n, 0)) = n
  PROVE  NaiveOffset(n, 0) # NaiveOffset(n, 1) <=>
           \E t, u \in Int : ToLocal(t) = n /\ ToLocal(u) = n /\ t # u
<1> DEFINE first == Utc(n, 0)
<1>0. first \in Int
  BY UtcIsAnInstant
<1>1. PICK k : CountsFor(n, 0, k)
  BY SomeCount
<1>2. PICK k1 : CountsFor(n, 1, k1)
  BY SomeCount
<1>3. k \in 0 .. Len(zone.changes) /\ k1 \in 0 .. Len(zone.changes) /\ k \in Int /\ k1 \in Int
      /\ Len(zone.changes) \in Nat
  BY <1>1, <1>2, Readings DEF CountsFor
<1>4. NaiveOffset(n, 0) = OffsetAfter(k) /\ NaiveOffset(n, 1) = OffsetAfter(k1)
  BY <1>1, <1>2 DEF CountsFor
<1>5. first = n - OffsetAfter(k)
  BY <1>4 DEF Utc
<1>6. k <= k1
  <2>1. CASE k = 0
    BY <1>3, <2>1
  <2>2. CASE k # 0
    <3>1. k \in 1 .. Len(zone.changes)
      BY <1>3, <2>2
    <3>2. Late(k) <= n
      BY <1>1, <1>3, <3>1 DEF CountsFor
    <3>3. Early(k) <= n
      <4>1. Early(k) \in Int /\ Late(k) \in Int /\ Early(k) <= Late(k)
        BY <3>1, Readings
      <4>2. QED BY <3>2, <4>1
    <3>4. QED BY <1>2, <3>1, <3>3 DEF CountsFor
  <2>3. QED BY <2>1, <2>2
<1>7. CASE k1 = k
  <2>1. ASSUME NEW t \in Int, ToLocal(t) = n
        PROVE  t = first
    <3>1. PICK j : Happened(t, j)
      BY SomeHappened
    <3>2. j \in Int
      BY <3>1, Readings DEF Happened
    <3>3. ~(j < k)
      BY <1>1, <2>1, <3>1, FewerHappened
    <3>4. ~(j > k)
      <4>1. SUFFICES ASSUME j > k PROVE FALSE
        OBVIOUS
      <4>2. k + 1 \in 1 .. Len(zone.changes) /\ j = k + 1 /\ n = t + OffsetAfter(k + 1)
            /\ ChangeAt(k + 1) <= t
        <5>1. ~(j > k + 1)
          BY <1>1, <2>1, <3>1, <4>1, MoreHappened
        <5>2. QED BY <1>1, <1>3, <2>1, <3>1, <3>2, <4>1, <5>1, MoreHappened
      <4>3. Early(k + 1) <= ChangeAt(k + 1) + OffsetAfter(k + 1)
            /\ Early(k + 1) \in Int /\ ChangeAt(k + 1) \in Int /\ OffsetAfter(k + 1) \in Int
        BY <4>2, OneChange
      <4>4. Early(k + 1) <= n
        BY <4>2, <4>3
      <4>5. k + 1 <= k1
        BY <1>2, <4>2, <4>4 DEF CountsFor
      <4>6. QED BY <1>3, <1>7, <4>5
    <3>5. j = k
      BY <1>3, <3>2, <3>3, <3>4
    <3>6. QED BY <1>1, <2>1, <3>1, <3>5, AsManyHappened
  <2>2. QED BY <1>4, <1>7, <2>1
<1>8. CASE k1 > k
  <2>1. k + 1 \in 1 .. Len(zone.changes) /\ n < Late(k + 1) /\ Early(k + 1) <= n /\ (k + 1) - 1 = k
    <3>1. k + 1 \in 1 .. Len(zone.changes) /\ k1 \in 1 .. Len(zone.changes)
      BY <1>3, <1>8
    <3>2. ~(Late(k + 1) <= n) /\ Early(k1) <= n
      BY <1>1, <1>2, <1>3, <3>1 DEF CountsFor
    <3>3. /\ Early(k + 1) \in Int /\ Late(k + 1) \in Int /\ Early(k1) \in Int
          /\ Early(k + 1) <= Late(k + 1)
      BY <3>1, Readings
    <3>4. CASE k1 = k + 1
      BY <1>3, <3>1, <3>2, <3>3, <3>4
    <3>5. CASE k1 > k + 1
      <4>1. Late(k + 1) < Early(k1)
        BY <1>3, <3>1, <3>5, Readings
      <4>2. QED BY <3>2, <3>3, <4>1
    <3>6. QED BY <1>3, <1>8, <3>4, <3>5
  <2>2. k1 = k + 1
    <3>1. k1 \in 1 .. Len(zone.changes) /\ Early(k1) <= n
      BY <1>2, <1>3, <1>8 DEF CountsFor
    <3>2. k1 > k + 1 => Late(k + 1) < Early(k1)
      BY <1>3, <2>1, <3>1, Readings
    <3>3. Early(k1) \in Int /\ Late(k + 1) \in Int
      BY <2>1, <3>1, Readings
    <3>4. QED BY <1>3, <1>8, <2>1, <3>1, <3>2, <3>3
  <2>3. /\ ChangeAt(k + 1) \in Int /\ Early(k + 1) \in Int /\ Late(k + 1) \in Int
        /\ OffsetAfter(k) \in Int /\ OffsetAfter(k + 1) \in Int
        /\ OffsetAfter(k) < OffsetAfter(k + 1) =>
             /\ Early(k + 1) = ChangeAt(k + 1) + OffsetAfter(k)
             /\ Late(k + 1) = ChangeAt(k + 1) + OffsetAfter(k + 1)
        /\ OffsetAfter(k) >= OffsetAfter(k + 1) =>
             /\ Early(k + 1) = ChangeAt(k + 1) + OffsetAfter(k + 1)
             /\ Late(k + 1) = ChangeAt(k + 1) + OffsetAfter(k)
    BY <2>1, Readings
  <2>4. OffsetAfter(k) # OffsetAfter(k + 1)
    BY <2>1, <2>3
  <2>5. PICK m : Happened(first, m)
    BY <1>0, SomeHappened
  <2>6. m \in Int
    BY <2>5, Readings DEF Happened
  <2>7. m = k
    <3>1. ~(m < k)
      BY <1>0, <1>1, <2>5, FewerHappened
    <3>2. ~(m > k)
      <4>1. SUFFICES ASSUME m > k PROVE FALSE
        OBVIOUS
      <4>2. n = first + OffsetAfter(k + 1)
        <5>1. ~(m > k + 1)
          BY <1>0, <1>1, <2>5, <4>1, MoreHappened
        <5>2. QED BY <1>0, <1>1, <1>3, <2>5, <2>6, <4>1, <5>1, MoreHappened
      <4>3. QED BY <1>5, <2>3, <2>4, <4>2
    <3>3. QED BY <1>3, <2>6, <3>1, <3>2
  <2>8. first < ChangeAt(k + 1)
    <3>1. ~(ChangeAt(k + 1) <= first)
      BY <1>3, <2>1, <2>5, <2>7 DEF Happened
    <3>2. QED BY <1>0, <2>3, <3>1
  <2>9. OffsetAfter(k + 1) < OffsetAfter(k)
    BY <1>5, <2>1, <2>3, <2>4, <2>8
  <2> DEFINE second == n - OffsetAfter(k + 1)
  <2>10. second \in Int /\ ChangeAt(k + 1) <= second /\ second # first
    BY <1>5, <2>1, <2>3, <2>9
  <2>11. PICK p : Happened(second, p)
    BY <2>10, SomeHappened
  <2>12. p \in Int /\ p >= k + 1 /\ p \in 0 .. Len(zone.changes)
    BY <2>1, <2>10, <2>11, Readings DEF Happened
  <2>13. p = k + 1
    <3>1. SUFFICES ASSUME p > k + 1 PROVE FALSE
      BY <1>3, <2>12
    <3>2. k + 2 \in 1 .. Len(zone.changes) /\ (k + 2) - 1 = k + 1 /\ k + 2 <= p
      BY <1>3, <2>12, <3>1
    <3>3. ChangeAt(k + 2) <= second
      BY <2>11, <3>2 DEF Happened
    <3>4. /\ Early(k + 2) <= ChangeAt(k + 2) + OffsetAfter(k + 1)
          /\ Early(k + 2) \in Int /\ ChangeAt(k + 2) \in Int
      BY <3>2, OneChange
    <3>5. Late(k + 1) < Early(k + 2)
      BY <1>3, <2>1, <3>2, Readings
    <3>6. QED BY <2>1, <2>3, <2>10, <3>3, <3>4, <3>5
  <2>14. ToLocal(second) = n
    BY <2>3, <2>11, <2>13 DEF Happened, ToLocal
  <2>15. \E t, u \in Int : ToLocal(t) = n /\ ToLocal(u) = n /\ t # u
    BY <1>0, <2>10, <2>14
  <2>16. QED BY <1>4, <2>2, <2>4, <2>15
<1>9. QED BY <1>3, <1>6, <1>7, <1>8

LocalTimeSpec == LocalTimeInit /\ [][LocalTimeNext]_localTimeVars

(* What is stored is a period that has an instant in it.                   *)
LocalTimeInv ==
  /\ zone \in Zones
  /\ period # NoTime =>
       /\ period.start \in Int
       /\ period.end # NoTime => period.end \in Int /\ period.start < period.end

LEMMA ToUtcOf ==
  ASSUME zone \in Zones, Instants = Int, NEW n \in Int
  PROVE  /\ ToUtc(n).exists <=> ShownAt(n) # {}
         /\ ToUtc(n).exists =>
              /\ FirstShown(n, ToUtc(n).at)
              /\ ToUtc(n).ambiguous <=> \E t, u \in ShownAt(n) : t # u
<1>1. /\ ToUtc(n).at = Utc(n, 0)
      /\ ToUtc(n).exists <=> ToLocal(Utc(n, 0)) = n
      /\ ToUtc(n).ambiguous <=> NaiveOffset(n, 0) # NaiveOffset(n, 1)
  BY Zenon DEF ToUtc
<1>2. Utc(n, 0) \in Int
  BY UtcIsAnInstant
<1>3. \A t : t \in ShownAt(n) <=> t \in Int /\ ToLocal(t) = n
  BY DEF ShownAt
<1>4. ToLocal(Utc(n, 0)) = n <=> ShownAt(n) # {}
  BY <1>2, <1>3, FirstInstant
<1>5. ASSUME ToLocal(Utc(n, 0)) = n
      PROVE  FirstShown(n, Utc(n, 0))
  BY <1>2, <1>3, <1>5, FirstInstant DEF FirstShown
<1>6. ASSUME ToLocal(Utc(n, 0)) = n
      PROVE  NaiveOffset(n, 0) # NaiveOffset(n, 1) <=> \E t, u \in ShownAt(n) : t # u
  BY <1>3, <1>6, ShownTwice
<1>7. QED BY <1>1, <1>2, <1>4, <1>5, <1>6

LEMMA ShownIsTyped ==
  ASSUME zone \in Zones, NEW t \in Int
  PROVE  Shown(t) \in Int
<1>1. PICK k : Happened(t, k)
  BY SomeHappened
<1>2. ToLocal(t) \in Int
  BY <1>1, Readings DEF Happened, ToLocal
<1>3. Minute \in Int /\ Minute > 0
  BY LocalTimeAssumption
<1>4. QED BY <1>2, <1>3 DEF Shown

LEMMA ToUtcIsAnInstant ==
  ASSUME zone \in Zones, NEW n \in Int
  PROVE  ToUtc(n).at \in Int
BY UtcIsAnInstant DEF ToUtc

LEMMA SaveStores ==
  ASSUME LocalTimeInv, zone' = zone,
         NEW start \in Int, NEW end \in Int \cup {NoTime}, Save(start, end)
  PROVE  LocalTimeInv'
<1>0. zone \in Zones /\ NoTime \notin Int
  BY LocalTimeAssumption DEF LocalTimeInv
<1>1. CASE Acceptable(start, end)
  <2>1. period' = [start |-> ToUtc(start).at, end |-> IF end = NoTime THEN NoTime ELSE ToUtc(end).at]
    BY <1>1 DEF Save
  <2>2. ToUtc(start).at \in Int /\ (end # NoTime => ToUtc(end).at \in Int)
    BY <1>0, ToUtcIsAnInstant
  <2>3. end # NoTime => ToUtc(end).at > ToUtc(start).at
    BY <1>1 DEF Acceptable
  <2>4. QED BY <1>0, <2>1, <2>2, <2>3 DEF LocalTimeInv
<1>2. CASE ~Acceptable(start, end)
  BY <1>2 DEF Save, LocalTimeInv
<1>3. QED BY <1>1, <1>2

LEMMA SavedAsTyped ==
  ASSUME LocalTimeInv, Instants = Int, zone' = zone,
         NEW start \in Int, NEW end \in Int \cup {NoTime}, Save(start, end)
  PROVE  PeriodAsTyped'
<1>0. zone \in Zones /\ NoTime \notin Int
  BY LocalTimeAssumption DEF LocalTimeInv
<1>1. typed' = [start |-> start, end |-> end, accepted |-> Acceptable(start, end),
                noted |-> {n \in {start, end} \ {NoTime} : ToUtc(n).ambiguous}]
  BY DEF Save
<1>2. \A n : ShownAt(n)' = ShownAt(n)
  BY DEF ShownAt, ToLocal, Offset, After
<1>3. \A n, t : FirstShown(n, t)' <=> FirstShown(n, t)
  BY <1>2 DEF FirstShown
<1>4. {start, end} \ {NoTime} \subseteq Int
  BY <1>0
<1>5. CASE Acceptable(start, end)
  <2>1. period' = [start |-> ToUtc(start).at, end |-> IF end = NoTime THEN NoTime ELSE ToUtc(end).at]
    BY <1>5 DEF Save
  <2>2. \A n \in {start, end} \ {NoTime} : ToUtc(n).exists
    BY <1>5 DEF Acceptable
  <2>3. \A n \in {start, end} \ {NoTime} :
          /\ FirstShown(n, ToUtc(n).at)
          /\ ToUtc(n).ambiguous <=> \E t, u \in ShownAt(n) : t # u
    BY <1>0, <1>4, <2>2, ToUtcOf
  <2>4. start \in {start, end} \ {NoTime} /\ (end # NoTime => end \in {start, end} \ {NoTime})
    BY <1>0
  <2>5. typed'.accepted /\ typed'.start = start /\ typed'.end = end
        /\ typed'.noted = {n \in {start, end} \ {NoTime} : ToUtc(n).ambiguous}
    BY <1>1, <1>5
  <2>6. /\ FirstShown(start, period'.start)
        /\ end # NoTime => FirstShown(end, period'.end)
    BY <2>1, <2>3, <2>4
  <2>7. \A n \in {start, end} \ {NoTime} : n \in typed'.noted <=> \E t, u \in ShownAt(n) : t # u
    BY <2>3, <2>5
  <2>8. QED BY <1>2, <1>3, <2>5, <2>6, <2>7 DEF PeriodAsTyped
<1>6. CASE ~Acceptable(start, end)
  <2>1. ~typed'.accepted /\ typed'.start = start /\ typed'.end = end
    BY <1>1, <1>6
  <2>2. \/ \E n \in {start, end} \ {NoTime} : ShownAt(n) = {}
        \/ \E t \in ShownAt(start), u \in ShownAt(end) : u <= t
    <3>1. CASE \E n \in {start, end} \ {NoTime} : ~ToUtc(n).exists
      BY <1>0, <1>4, <3>1, ToUtcOf
    <3>2. CASE \A n \in {start, end} \ {NoTime} : ToUtc(n).exists
      <4>1. end # NoTime /\ ~(ToUtc(end).at > ToUtc(start).at) /\ end \in Int
        BY <1>0, <1>6, <3>2 DEF Acceptable
      <4>2. /\ ToUtc(start).at \in ShownAt(start)
            /\ ToUtc(end).at \in ShownAt(end)
            /\ ToUtc(start).at \in Int /\ ToUtc(end).at \in Int
        BY <1>0, <3>2, <4>1, ToUtcOf, ToUtcIsAnInstant DEF FirstShown
      <4>3. QED BY <4>1, <4>2
    <3>3. QED BY <3>1, <3>2
  <2>3. QED BY <1>2, <2>1, <2>2 DEF PeriodAsTyped
<1>7. QED BY <1>5, <1>6

(* Which forms are saved: what was typed, or what is shown again.          *)
LEMMA FormsSaved ==
  ASSUME LocalTimeInv, LocalTimeNext
  PROVE  \/ zone' = zone /\ \E start \in Int, end \in Int \cup {NoTime} : Save(start, end)
         \/ \E now \in Instants : EndNow(now)
<1>0. zone \in Zones /\ NoTime \notin Int /\ Days * DayLength \in Int
  BY LocalTimeAssumption DEF LocalTimeInv
<1>1. ASSUME NEW start \in Typeable, NEW end \in Typeable \cup {NoTime}, Create(start, end)
      PROVE  zone' = zone /\ \E s \in Int, e \in Int \cup {NoTime} : Save(s, e)
  <2>1. start \in Int /\ end \in Int \cup {NoTime}
    BY <1>0 DEF Typeable
  <2>2. QED BY <1>1, <2>1 DEF Create
<1>2. CASE Resave
  <2> DEFINE end == IF period.end = NoTime THEN NoTime ELSE Shown(period.end)
  <2>1. Shown(period.start) \in Int /\ end \in Int \cup {NoTime}
    BY <1>0, <1>2, ShownIsTyped DEF Resave, LocalTimeInv
  <2>2. Save(Shown(period.start), end) /\ zone' = zone
    BY <1>2 DEF Resave
  <2>3. QED BY <2>1, <2>2
<1>3. QED BY <1>1, <1>2 DEF LocalTimeNext

LEMMA LocalTimeKept ==
  ASSUME LocalTimeInv, [LocalTimeNext]_localTimeVars
  PROVE  LocalTimeInv'
<1>1. ASSUME NEW now \in Instants, EndNow(now)
      PROVE  LocalTimeInv'
  <2>1. period.start \in Int /\ now \in Int
    BY <1>1, LocalTimeAssumption DEF EndNow, LocalTimeInv
  <2>2. /\ period' = [start |-> IF period.start >= now THEN now - 1 ELSE period.start, end |-> now]
        /\ zone' = zone
    BY <1>1 DEF EndNow
  <2>3. QED BY <2>1, <2>2 DEF LocalTimeInv
<1>2. CASE UNCHANGED localTimeVars
  BY <1>2 DEF localTimeVars, LocalTimeInv
<1>3. QED BY <1>1, <1>2, FormsSaved, SaveStores

LEMMA AsTypedKept ==
  ASSUME Instants = Int, LocalTimeInv, PeriodAsTyped, [LocalTimeNext]_localTimeVars
  PROVE  PeriodAsTyped'
<1>1. ASSUME NEW now \in Instants, EndNow(now)
      PROVE  PeriodAsTyped'
  BY <1>1 DEF EndNow, PeriodAsTyped
<1>2. CASE UNCHANGED localTimeVars
  <2>1. zone' = zone /\ period' = period /\ typed' = typed
    BY <1>2 DEF localTimeVars
  <2>2. \A n : ShownAt(n)' = ShownAt(n)
    BY <2>1 DEF ShownAt, ToLocal, Offset, After
  <2>3. \A n, t : FirstShown(n, t)' <=> FirstShown(n, t)
    BY <2>2 DEF FirstShown
  <2>4. QED BY <2>1, <2>2, <2>3 DEF PeriodAsTyped
<1>3. QED BY <1>1, <1>2, FormsSaved, SavedAsTyped

LEMMA LocalTimeInitially == LocalTimeInit => LocalTimeInv /\ PeriodAsTyped
BY DEF LocalTimeInit, LocalTimeInv, PeriodAsTyped

(* timeutil.local_to_utc and the schedule's form, in any zone and whenever *)
(* its clocks change: what is stored of a time that was typed is the first *)
(* instant at which the clock shows it, a time is noted exactly when the   *)
(* clock shows it twice, and a form is refused only when the clock never   *)
(* shows a time of it or the end does not come after the start.            *)
THEOREM TimesAreAsTyped ==
  ASSUME Instants = Int
  PROVE  LocalTimeSpec => []PeriodAsTyped
<1>1. LocalTimeInv /\ PeriodAsTyped /\ [LocalTimeNext]_localTimeVars
        => LocalTimeInv' /\ PeriodAsTyped'
  BY LocalTimeKept, AsTypedKept
<1>2. QED BY <1>1, LocalTimeInitially, PTL DEF LocalTimeSpec

(* A midnight parts the instants before it from the others, when no change *)
(* jumps over it.                                                          *)
LEMMA ChangesKeepMidnights ==
  ASSUME zone \in Zones, NEW day \in 0 .. Days, NEW i \in 1 .. Len(zone.changes)
  PROVE  /\ day * DayLength <= Early(i) \/ Late(i) <= day * DayLength
         /\ Late(i) - Early(i) < DayLength
BY MidnightsAssumption, ChangesOfAZone DEF KeepsMidnights, Early, Late

LEMMA MidnightParts ==
  ASSUME zone \in Zones, NEW day \in 0 .. Days, NEW t \in Int
  PROVE  t < Midnight(day) <=> ToLocal(t) < day * DayLength
<1> DEFINE n == day * DayLength
<1>0. n \in Int
  BY LocalTimeAssumption
<1>1. Midnight(day) = Utc(n, 0)
  BY DEF Midnight
<1>2. \A i \in 1 .. Len(zone.changes) : n <= Early(i) \/ Late(i) <= n
  BY ChangesKeepMidnights
<1> HIDE DEF n
<1>3. PICK k : CountsFor(n, 0, k)
  BY <1>0, SomeCount
<1>4. PICK j : Happened(t, j)
  BY SomeHappened
<1>5. j \in Int /\ k \in Int
  BY <1>3, <1>4, Readings DEF Happened, CountsFor
<1>6. CASE j < k
  <2>1. ToLocal(t) < n /\ t < Utc(n, 0)
    BY <1>0, <1>3, <1>4, <1>6, FewerHappened
  <2>2. QED BY <1>1, <2>1 DEF n
<1>7. CASE j = k
  <2>1. ToLocal(t) < n <=> t < Utc(n, 0)
    BY <1>0, <1>3, <1>4, <1>7, AsManyHappened
  <2>2. QED BY <1>1, <2>1 DEF n
<1>8. CASE j > k
  <2>1. /\ k + 1 \in 1 .. Len(zone.changes)
        /\ n < Late(k + 1)
        /\ ChangeAt(k + 1) <= t
        /\ j > k + 1 => n < ToLocal(t)
        /\ j = k + 1 => ToLocal(t) = t + OffsetAfter(k + 1)
    BY <1>0, <1>3, <1>4, <1>8, MoreHappened
  <2>2. /\ ChangeAt(k + 1) \in Int /\ Early(k + 1) \in Int /\ Late(k + 1) \in Int
        /\ OffsetAfter(k) \in Int /\ OffsetAfter(k + 1) \in Int
        /\ Early(k + 1) <= ChangeAt(k + 1) + OffsetAfter(k)
        /\ Early(k + 1) <= ChangeAt(k + 1) + OffsetAfter(k + 1)
    <3>1. (k + 1) - 1 = k
      BY <1>5
    <3>2. QED BY <2>1, <3>1, OneChange
  <2>3. n <= Early(k + 1)
    <3>1. ~(Late(k + 1) <= n)
      BY <1>0, <2>1, <2>2
    <3>2. QED BY <1>2, <2>1, <3>1
  <2>4. ~(t < Utc(n, 0))
    <3>1. Utc(n, 0) = n - OffsetAfter(k)
      BY <1>3 DEF CountsFor, Utc
    <3>2. QED BY <1>0, <2>1, <2>2, <2>3, <3>1
  <2>5. ~(ToLocal(t) < n)
    <3>1. CASE j > k + 1
      <4>1. ToLocal(t) \in Int
        BY <1>4, Readings DEF Happened, ToLocal
      <4>2. QED BY <1>0, <2>1, <3>1, <4>1
    <3>2. CASE j = k + 1
      BY <1>0, <2>1, <2>2, <2>3, <3>2
    <3>3. QED BY <1>5, <1>8, <3>1, <3>2
  <2>6. QED BY <1>1, <2>4, <2>5 DEF n
<1>9. QED BY <1>5, <1>6, <1>7, <1>8

(* No day is skipped whole: its first instant is of the day.               *)
LEMMA DaysHaveInstants ==
  ASSUME zone \in Zones, NEW day \in 0 .. Days
  PROVE  /\ Midnight(day) \in Int
         /\ ToLocal(Midnight(day)) \in Int
         /\ day * DayLength <= ToLocal(Midnight(day))
         /\ ToLocal(Midnight(day)) < day * DayLength + DayLength
<1> DEFINE n == day * DayLength
           first == Midnight(day)
<1>0. n \in Int /\ DayLength \in Int /\ DayLength > 0
  BY LocalTimeAssumption
<1>1. first = Utc(n, 0)
  BY DEF Midnight
<1>2. \A i \in 1 .. Len(zone.changes) :
        (n <= Early(i) \/ Late(i) <= n) /\ Late(i) - Early(i) < DayLength
  BY ChangesKeepMidnights
<1>3. first < first <=> ToLocal(first) < n
  <2>1. first \in Int
    BY <1>0, <1>1, UtcIsAnInstant
  <2>2. QED BY <2>1, MidnightParts
<1> HIDE DEF n, first
<1>4. first \in Int
  BY <1>0, <1>1, UtcIsAnInstant
<1>5. PICK k : CountsFor(n, 0, k)
  BY <1>0, SomeCount
<1>6. PICK m : Happened(first, m)
  BY <1>4, SomeHappened
<1>7. m \in Int /\ k \in Int /\ ToLocal(first) \in Int /\ OffsetAfter(m) \in Int
      /\ ToLocal(first) = first + OffsetAfter(m) /\ first = n - OffsetAfter(k)
  BY <1>1, <1>4, <1>5, <1>6, Readings DEF Happened, CountsFor, ToLocal, Utc
<1>8. n <= ToLocal(first)
  BY <1>0, <1>3, <1>4, <1>7
<1>9. ToLocal(first) < n + DayLength
  <2>1. ~(m < k)
    <3>1. m < k => first < first
      BY <1>0, <1>1, <1>4, <1>5, <1>6, FewerHappened
    <3>2. QED BY <1>4, <3>1
  <2>2. CASE m = k
    <3>1. OffsetAfter(k) \in Int
      BY <1>7, <2>2
    <3>2. QED BY <1>0, <1>7, <2>2, <3>1
  <2>3. CASE m > k
    <3>1. /\ k + 1 \in 1 .. Len(zone.changes)
          /\ n < Late(k + 1)
          /\ ChangeAt(k + 1) <= first
      BY <1>0, <1>4, <1>5, <1>6, <2>3, MoreHappened
    <3>2. /\ ChangeAt(k + 1) \in Int /\ Early(k + 1) \in Int /\ Late(k + 1) \in Int
          /\ OffsetAfter(k) \in Int /\ OffsetAfter(k + 1) \in Int
          /\ Early(k + 1) <= ChangeAt(k + 1) + OffsetAfter(k)
          /\ ChangeAt(k + 1) + OffsetAfter(k + 1) <= Late(k + 1)
      <4>1. (k + 1) - 1 = k
        BY <1>7
      <4>2. QED BY <3>1, <4>1, OneChange
    <3>3. n <= Early(k + 1) /\ Late(k + 1) - Early(k + 1) < DayLength
      <4>1. ~(Late(k + 1) <= n)
        BY <1>0, <3>1, <3>2
      <4>2. QED BY <1>2, <3>1, <4>1
    <3>4. first = ChangeAt(k + 1) /\ n = Early(k + 1)
      <4>1. n = first + OffsetAfter(k)
        BY <1>0, <1>7, <3>2
      <4>2. first <= ChangeAt(k + 1) /\ Early(k + 1) <= n
        BY <1>0, <1>4, <3>1, <3>2, <3>3, <4>1
      <4>3. QED BY <1>0, <1>4, <3>1, <3>2, <3>3, <4>2
    <3>5. m = k + 1
      <4>1. SUFFICES ASSUME m > k + 1 PROVE FALSE
        BY <1>7, <2>3
      <4>2. k + 2 \in 1 .. Len(zone.changes) /\ k + 2 <= m
        BY <1>6, <1>7, <3>1, <4>1, Readings DEF Happened
      <4>3. ChangeAt(k + 2) <= first
        BY <1>6, <4>2 DEF Happened
      <4>4. ChangeAt(k + 1) < ChangeAt(k + 2) /\ ChangeAt(k + 2) \in Int
        BY <1>7, <3>1, <4>2, Readings
      <4>5. QED BY <1>4, <3>4, <4>3, <4>4
    <3>6. ToLocal(first) <= Late(k + 1)
      BY <1>7, <3>2, <3>4, <3>5
    <3>7. QED BY <1>0, <1>7, <3>2, <3>3, <3>4, <3>6
  <2>4. QED BY <1>7, <2>1, <2>2, <2>3
<1>10. QED BY <1>4, <1>7, <1>8, <1>9 DEF n, first

(* An instant is of a day from its midnight until the next.                *)
LEMMA DayOfAnInstant ==
  ASSUME zone \in Zones, NEW day \in 0 .. Days - 1, NEW t \in Int
  PROVE  ToLocal(t) \div DayLength = day <=> Midnight(day) <= t /\ t < Midnight(day + 1)
<1>1. day \in 0 .. Days /\ day + 1 \in 0 .. Days /\ DayLength \in Nat \ {0} /\ day \in Int
  BY LocalTimeAssumption
<1>2. (day + 1) * DayLength = day * DayLength + DayLength /\ day * DayLength \in Int
  BY <1>1
<1>3. ToLocal(t) \in Int
  <2>1. PICK k : Happened(t, k)
    BY SomeHappened
  <2>2. QED BY <2>1, Readings DEF Happened, ToLocal
<1>4. \A x, d \in Int : x \div DayLength = d <=> d * DayLength <= x /\ x < d * DayLength + DayLength
  BY <1>1
<1>5. Midnight(day) \in Int /\ Midnight(day + 1) \in Int
  BY <1>1, DaysHaveInstants
<1>6. t < Midnight(day) <=> ToLocal(t) < day * DayLength
  BY <1>1, MidnightParts
<1>7. t < Midnight(day + 1) <=> ToLocal(t) < (day + 1) * DayLength
  BY <1>1, MidnightParts
<1>8. ToLocal(t) \div DayLength = day
        <=> day * DayLength <= ToLocal(t) /\ ToLocal(t) < day * DayLength + DayLength
  BY <1>1, <1>3, <1>4
<1> DEFINE n == day * DayLength
           next == (day + 1) * DayLength
           local == ToLocal(t)
<1>9. n \in Int /\ next = n + DayLength /\ local \in Int
  BY <1>2, <1>3
<1>10. (local \div DayLength = day <=> n <= local /\ local < n + DayLength)
       /\ (t < Midnight(day) <=> local < n) /\ (t < Midnight(day + 1) <=> local < next)
  BY <1>6, <1>7, <1>8
<1> HIDE DEF n, next, local
<1>11. local \div DayLength = day <=> Midnight(day) <= t /\ t < Midnight(day + 1)
  BY <1>1, <1>5, <1>9, <1>10
<1>12. QED BY <1>11 DEF local

LEMMA CalendarShows ==
  ASSUME Instants = Int, LocalTimeInv
  PROVE  CalendarShowsOnAir
<1> SUFFICES ASSUME period # NoTime, NEW day \in 0 .. Days - 1
             PROVE  Listed(day) <=> \E t \in Int : /\ ToLocal(t) \div DayLength = day
                                                   /\ period.start <= t
                                                   /\ period.end # NoTime => t < period.end
  BY Zenon DEF CalendarShowsOnAir
<1> DEFINE from == Midnight(day)
           to == Midnight(day + 1)
           first == Midnight(0)
           last == Midnight(Days)
<1>1. /\ zone \in Zones
      /\ period.start \in Int
      /\ period.end # NoTime => period.end \in Int /\ period.start < period.end
  BY DEF LocalTimeInv
<1>2. {0, day, day + 1, Days} \subseteq 0 .. Days /\ day \in Int /\ Days \in Int
  BY LocalTimeAssumption
<1>3. first \in Int /\ from \in Int /\ to \in Int /\ last \in Int
  BY <1>1, <1>2, DaysHaveInstants
<1>4. \A d \in 0 .. Days, e \in 0 .. Days : d < e => Midnight(d) < Midnight(e)
  <2> SUFFICES ASSUME NEW d \in 0 .. Days, NEW e \in 0 .. Days, d < e
               PROVE  Midnight(d) < Midnight(e)
    OBVIOUS
  <2>1. Midnight(d) \in Int /\ ToLocal(Midnight(d)) \in Int
        /\ ToLocal(Midnight(d)) < d * DayLength + DayLength
    BY <1>1, DaysHaveInstants
  <2>2. d * DayLength + DayLength <= e * DayLength /\ d * DayLength \in Int
        /\ e * DayLength \in Int /\ DayLength \in Int
    <3>1. d \in Nat /\ e \in Nat /\ DayLength \in Nat
      BY LocalTimeAssumption
    <3>2. \A x, y, z \in Nat : x < y => x * z + z <= y * z
      OBVIOUS
    <3>3. QED BY <3>1, <3>2
  <2>3. ToLocal(Midnight(d)) < e * DayLength
    BY <2>1, <2>2
  <2>4. QED BY <1>1, <2>1, <2>3, MidnightParts
<1>5. first <= from /\ from < to /\ to <= last
  <2>1. from < to
    BY <1>2, <1>4
  <2>2. first <= from
    BY <1>2, <1>3, <1>4
  <2>3. to <= last
    BY <1>2, <1>3, <1>4
  <2>4. QED BY <2>1, <2>2, <2>3
<1>6. Listed(day) <=> /\ period.start < last /\ (period.end = NoTime \/ period.end > first)
                      /\ period.start < to /\ (period.end = NoTime \/ period.end > from)
  BY DEF Listed, OnAir
<1>7. \A t \in Int : ToLocal(t) \div DayLength = day <=> from <= t /\ t < to
  BY <1>1, DayOfAnInstant
<1> HIDE DEF first, from, to, last
<1>8. ASSUME Listed(day)
      PROVE  \E t \in Int : /\ ToLocal(t) \div DayLength = day
                            /\ period.start <= t
                            /\ period.end # NoTime => t < period.end
  <2> DEFINE t == IF period.start <= from THEN from ELSE period.start
  <2>1. t \in Int /\ from <= t /\ t < to /\ period.start <= t
        /\ (period.end # NoTime => t < period.end)
    BY <1>1, <1>3, <1>5, <1>6, <1>8
  <2>2. QED BY <1>7, <2>1
<1>9. ASSUME NEW t \in Int, ToLocal(t) \div DayLength = day,
             period.start <= t, period.end # NoTime => t < period.end
      PROVE  Listed(day)
  BY <1>1, <1>3, <1>5, <1>6, <1>7, <1>9
<1>10. QED BY <1>8, <1>9

(* schedule.calendar, in any zone whose changes leave midnights alone: the *)
(* page lists an assignment on a day exactly when it is on air at some     *)
(* instant of that local day, however long the day is.                     *)
THEOREM CalendarIsRight ==
  ASSUME Instants = Int
  PROVE  LocalTimeSpec => []CalendarShowsOnAir
<1>1. LocalTimeInv /\ [LocalTimeNext]_localTimeVars => LocalTimeInv'
  BY LocalTimeKept
<1>2. LocalTimeInv => CalendarShowsOnAir
  BY CalendarShows
<1>3. QED BY <1>1, <1>2, LocalTimeInitially, PTL DEF LocalTimeSpec

-----------------------------------------------------------------------------
(* The search of a Pi                                                      *)

(* Paths: how far a folder is below another, label by label.               *)
LEMMA UnderIs ==
  ASSUME NEW home \in Seq(STRING), NEW path \in Seq(STRING)
  PROVE  Under(home, path) <=> /\ Len(home) <= Len(path)
                               /\ \A k \in 1 .. Len(home) : path[k] = home[k]
<1>1. CASE Len(home) <= Len(path)
  <2> DEFINE start == SubSeq(path, 1, Len(home))
  <2>1. start \in Seq(STRING) /\ Len(start) = Len(home)
    BY <1>1
  <2>2. \A k \in 1 .. Len(home) : start[k] = path[k]
    BY <1>1
  <2> HIDE DEF start
  <2>3. start = home <=> \A k \in 1 .. Len(home) : start[k] = home[k]
    BY <2>1
  <2>4. QED BY <1>1, <2>2, <2>3 DEF Under, start
<1>2. CASE ~(Len(home) <= Len(path))
  BY <1>2 DEF Under
<1>3. QED BY <1>1, <1>2

LEMMA SamePath ==
  ASSUME NEW p \in Seq(STRING), NEW q \in Seq(STRING), Len(p) = Len(q),
         \A k \in 1 .. Len(p) : p[k] = q[k]
  PROVE  p = q
OBVIOUS

LEMMA StartOfAPath ==
  ASSUME NEW path \in Seq(STRING), NEW n \in 0 .. Len(path)
  PROVE  /\ SubSeq(path, 1, n) \in Seq(STRING)
         /\ Len(SubSeq(path, 1, n)) = n
         /\ \A k \in 1 .. n : SubSeq(path, 1, n)[k] = path[k]
         /\ Under(SubSeq(path, 1, n), path)
<1> DEFINE start == SubSeq(path, 1, n)
<1>1. start \in Seq(STRING) /\ Len(start) = n /\ \A k \in 1 .. n : start[k] = path[k]
  OBVIOUS
<1>2. n <= Len(path)
  OBVIOUS
<1> HIDE DEF start
<1>3. Under(start, path)
  BY <1>1, <1>2, UnderIs
<1>4. QED BY <1>1, <1>3 DEF start

LEMMA AboveIs ==
  ASSUME NEW path \in Seq(STRING), path # <<>>, NEW folder \in Seq(STRING)
  PROVE  Above(path) = folder <=> Len(path) = Len(folder) + 1 /\ Under(folder, path)
<1> DEFINE n == Len(path) - 1
<1>1. n \in 0 .. Len(path) /\ Len(path) = n + 1
  OBVIOUS
<1>2. /\ Above(path) \in Seq(STRING)
      /\ Len(Above(path)) = n
      /\ \A k \in 1 .. n : Above(path)[k] = path[k]
  BY <1>1, StartOfAPath DEF Above
<1> HIDE DEF n
<1>3. ASSUME Above(path) = folder
      PROVE  Len(path) = Len(folder) + 1 /\ Under(folder, path)
  BY <1>1, <1>2, <1>3, UnderIs
<1>4. ASSUME Len(path) = Len(folder) + 1, Under(folder, path)
      PROVE  Above(path) = folder
  <2>1. n = Len(folder)
    BY <1>1, <1>4
  <2>2. \A k \in 1 .. n : path[k] = folder[k]
    BY <1>4, <2>1, UnderIs
  <2>3. QED BY <1>2, <2>1, <2>2, SamePath
<1>5. QED BY <1>3, <1>4

LEMMA UnderAgain ==
  ASSUME NEW p \in Seq(STRING), NEW q \in Seq(STRING), NEW r \in Seq(STRING)
  PROVE  /\ Under(p, p)
         /\ Under(p, q) /\ Under(q, r) => Under(p, r)
         /\ Under(p, q) /\ Len(p) = Len(q) => p = q
         /\ Under(p, r) /\ Under(q, r) /\ Len(p) <= Len(q) => Under(p, q)
<1>1. Under(p, p)
  BY UnderIs
<1>2. ASSUME Under(p, q), Under(q, r) PROVE Under(p, r)
  BY <1>2, UnderIs
<1>3. ASSUME Under(p, q), Len(p) = Len(q) PROVE p = q
  BY <1>3, UnderIs, SamePath
<1>4. ASSUME Under(p, r), Under(q, r), Len(p) <= Len(q) PROVE Under(p, q)
  BY <1>4, UnderIs
<1>5. QED BY <1>1, <1>2, <1>3, <1>4

-----------------------------------------------------------------------------
(* The tree.                                                               *)

LEMMA Tree ==
  ASSUME pi \in Pis
  PROVE  /\ IsFiniteSet(pi.nodes)
         /\ \A n \in pi.nodes : n.path \in Seq(STRING) /\ n.path # <<>>
         /\ \A n \in pi.nodes : \A k \in 1 .. Len(n.path) - 1 : IsFolder(SubSeq(n.path, 1, k))
         /\ pi.login \in Seq(STRING)
         /\ IsFolder(pi.login)
         /\ \A path : IsFolder(path) => path \in Seq(STRING)
<1>1. IsPi(pi)
  BY DiscoveryAssumption
<1>2. \A n \in pi.nodes : n.path \in Seq(STRING) /\ n.path # <<>>
  BY <1>1 DEF IsPi
<1>3. ASSUME NEW path, IsFolder(path)
      PROVE  path \in Seq(STRING)
  <2>1. CASE path = <<>>
    BY <2>1
  <2>2. CASE [path |-> path, kind |-> "dir"] \in pi.nodes
    BY <1>2, <2>2
  <2>3. QED BY <1>3, <2>1, <2>2 DEF IsFolder
<1>4. QED BY <1>1, <1>2, <1>3 DEF IsPi, IsFolder

LEMMA FoldersWithin ==
  ASSUME pi \in Pis, NEW path \in Seq(STRING), NEW f
  PROVE  f \in FoldersIn(Within(path)) <=>
           /\ IsFolder(f) /\ Len(f) = Len(path) + 1 /\ Under(path, f)
           /\ f[Len(f)] \notin HiddenNames
<1>1. f \in FoldersIn(Within(path)) <=>
        \E n \in pi.nodes : /\ n.path = f /\ n.kind = "dir" /\ Above(f) = path
                            /\ f[Len(f)] \notin HiddenNames
  BY Tree DEF FoldersIn, Within, IsHidden, Name
<1>2. ASSUME f \in FoldersIn(Within(path))
      PROVE  /\ IsFolder(f) /\ Len(f) = Len(path) + 1 /\ Under(path, f)
             /\ f[Len(f)] \notin HiddenNames
  <2>1. PICK n \in pi.nodes : /\ n.path = f /\ n.kind = "dir" /\ Above(f) = path
                              /\ f[Len(f)] \notin HiddenNames
    BY <1>1, <1>2
  <2>2. n = [path |-> f, kind |-> "dir"]
    BY <2>1, DiscoveryAssumption DEF IsPi
  <2>3. f \in Seq(STRING) /\ f # <<>>
    BY <2>1, Tree
  <2>4. QED BY <2>1, <2>2, <2>3, AboveIs DEF IsFolder
<1>3. ASSUME IsFolder(f), Len(f) = Len(path) + 1, Under(path, f), f[Len(f)] \notin HiddenNames
      PROVE  f \in FoldersIn(Within(path))
  <2>1. f # <<>> /\ f \in Seq(STRING)
    BY <1>3, Tree
  <2>2. [path |-> f, kind |-> "dir"] \in pi.nodes
    BY <1>3, <2>1 DEF IsFolder
  <2>3. Above(f) = path
    BY <1>3, <2>1, AboveIs
  <2>4. QED BY <1>1, <1>3, <2>2, <2>3
<1>4. QED BY <1>2, <1>3

LEMMA Below ==
  ASSUME pi \in Pis, NEW d \in Nat, NEW f
  PROVE  /\ f \in FoldersBelow(pi.login, d) <=>
             /\ IsFolder(f) /\ Under(pi.login, f) /\ Len(f) <= Len(pi.login) + d
             /\ \A k \in Len(pi.login) + 1 .. Len(f) : f[k] \notin HiddenNames
         /\ f \in FoldersBelow(pi.login, d) =>
              f \in Seq(STRING) /\ Len(f) \in Nat /\ Len(pi.login) \in Nat /\ Len(pi.login) <= Len(f)
<1>1. IsFolder(f) => f \in Seq(STRING)
  BY Tree
<1>2. CASE ~IsFolder(f)
  BY <1>2 DEF FoldersBelow
<1>3. CASE IsFolder(f)
  <2>0. f \in Seq(STRING) /\ pi.login \in Seq(STRING) /\ Len(f) \in Nat /\ Len(pi.login) \in Nat
    BY <1>3, Tree
  <2>1. Under(pi.login, f) => Len(pi.login) <= Len(f)
    BY <2>0, UnderIs
  <2>2. Under(pi.login, f) => f \in {pi.login} \cup {n.path : n \in pi.nodes}
    <3>1. CASE f = <<>>
      <4>1. Under(pi.login, f) => Len(pi.login) = 0
        BY <2>0, <2>1, <3>1
      <4>2. Len(pi.login) = 0 => pi.login = f
        BY <2>0, <3>1
      <4>3. QED BY <4>1, <4>2
    <3>2. CASE [path |-> f, kind |-> "dir"] \in pi.nodes
      BY <3>2
    <3>3. QED BY <1>3, <3>1, <3>2 DEF IsFolder
  <2>3. Len(f) - Len(pi.login) <= d <=> Len(f) <= Len(pi.login) + d
    BY <2>0
  <2>4. QED BY <1>3, <2>0, <2>1, <2>2, <2>3 DEF FoldersBelow
<1>4. QED BY <1>2, <1>3

(* A folder a search enters from one it may scan is one it may scan, if it *)
(* is not too deep...                                                      *)
LEMMA EntersBelow ==
  ASSUME pi \in Pis, NEW d \in Nat, NEW path \in FoldersBelow(pi.login, d),
         Len(path) < Len(pi.login) + d, NEW f \in FoldersIn(Within(path))
  PROVE  f \in FoldersBelow(pi.login, d)
<1>1. /\ path \in Seq(STRING) /\ pi.login \in Seq(STRING) /\ Len(path) \in Nat /\ Len(pi.login) \in Nat
      /\ Under(pi.login, path) /\ Len(pi.login) <= Len(path)
      /\ \A k \in Len(pi.login) + 1 .. Len(path) : path[k] \notin HiddenNames
  BY Below, Tree
<1>2. IsFolder(f) /\ Len(f) = Len(path) + 1 /\ Under(path, f) /\ f[Len(f)] \notin HiddenNames
  BY <1>1, FoldersWithin
<1>3. f \in Seq(STRING)
  BY <1>2, Tree
<1>4. \A k \in Len(pi.login) + 1 .. Len(f) : f[k] \notin HiddenNames
  <2> TAKE k \in Len(pi.login) + 1 .. Len(f)
  <2>1. CASE k = Len(f)
    BY <1>2, <2>1
  <2>2. CASE k # Len(f)
    <3>1. k \in Len(pi.login) + 1 .. Len(path) /\ k \in 1 .. Len(path)
      BY <1>1, <1>2, <2>2
    <3>2. f[k] = path[k]
      BY <1>1, <1>2, <1>3, <3>1, UnderIs
    <3>3. QED BY <1>1, <3>1, <3>2
  <2>3. QED BY <2>1, <2>2
<1>5. Under(pi.login, f)
  BY <1>1, <1>2, <1>3, UnderAgain
<1>6. QED BY <1>1, <1>2, <1>4, <1>5, Below

(* ... and every one of them, but for those scanned before, is below one   *)
(* that is entered.                                                        *)
LEMMA EnteredOnTheWay ==
  ASSUME pi \in Pis, NEW d \in Nat, NEW path \in FoldersBelow(pi.login, d),
         NEW g \in FoldersBelow(pi.login, d), Under(path, g), path # g
  PROVE  /\ Len(path) < Len(g)
         /\ \E f \in FoldersIn(Within(path)) : Under(f, g)
<1>1. /\ path \in Seq(STRING) /\ g \in Seq(STRING) /\ Len(path) \in Nat /\ Len(g) \in Nat
      /\ pi.login \in Seq(STRING) /\ Len(pi.login) \in Nat
      /\ Len(pi.login) <= Len(path)
      /\ IsFolder(g)
      /\ \A k \in Len(pi.login) + 1 .. Len(g) : g[k] \notin HiddenNames
  BY Below, Tree
<1>2. Len(path) < Len(g)
  <2>1. Len(path) <= Len(g)
    BY <1>1, UnderIs
  <2>2. Len(path) # Len(g)
    BY <1>1, UnderAgain
  <2>3. QED BY <1>1, <2>1, <2>2
<1> DEFINE n == Len(path) + 1
           f == SubSeq(g, 1, n)
<1>3. n \in 0 .. Len(g) /\ n \in 1 .. Len(g) /\ n \in Len(pi.login) + 1 .. Len(g)
  BY <1>1, <1>2
<1>4. f \in Seq(STRING) /\ Len(f) = n /\ (\A k \in 1 .. n : f[k] = g[k]) /\ Under(f, g)
  BY <1>1, <1>3, StartOfAPath
<1>5. IsFolder(f)
  <2>1. CASE n = Len(g)
    <3>1. f = g
      BY <1>1, <1>4, <2>1, UnderAgain
    <3>2. QED BY <1>1, <3>1
  <2>2. CASE n # Len(g)
    <3>1. n \in 1 .. Len(g) - 1
      BY <1>1, <1>3, <2>2
    <3>2. [path |-> g, kind |-> "dir"] \in pi.nodes
      BY <1>1, <1>2 DEF IsFolder
    <3>3. QED BY <3>1, <3>2, Tree
  <2>3. QED BY <2>1, <2>2
<1> HIDE DEF n, f
<1>6. Under(path, f)
  BY <1>1, <1>4, UnderAgain DEF n
<1>7. f[Len(f)] \notin HiddenNames
  BY <1>1, <1>3, <1>4
<1>8. f \in FoldersIn(Within(path))
  BY <1>1, <1>4, <1>5, <1>6, <1>7, FoldersWithin DEF n
<1>9. QED BY <1>2, <1>4, <1>8

LEMMA LoginIsBelow ==
  ASSUME pi \in Pis, NEW d \in Nat
  PROVE  /\ pi.login \in FoldersBelow(pi.login, d)
         /\ \A f \in FoldersBelow(pi.login, d) : Under(pi.login, f)
         /\ IsFiniteSet(FoldersBelow(pi.login, d))
<1>1. pi.login \in Seq(STRING) /\ Len(pi.login) \in Nat /\ IsFolder(pi.login)
  BY Tree
<1>2. pi.login \in FoldersBelow(pi.login, d)
  BY <1>1, Below, UnderAgain
<1>3. \A f \in FoldersBelow(pi.login, d) : Under(pi.login, f)
  BY Below
<1>4. IsFiniteSet(FoldersBelow(pi.login, d))
  <2> DEFINE paths == {n.path : n \in pi.nodes}
             path == [n \in pi.nodes |-> n.path]
  <2>1. path \in Surjection(pi.nodes, paths)
    BY DEF Surjection
  <2>2. IsFiniteSet(paths)
    BY <2>1, Tree, FS_Surjection
  <2>3. IsFiniteSet({pi.login} \cup paths)
    BY <2>2, FS_AddElement
  <2>4. FoldersBelow(pi.login, d) \in SUBSET ({pi.login} \cup paths)
    BY DEF FoldersBelow
  <2>5. QED BY <2>3, <2>4, FS_Subset
<1>5. QED BY <1>2, <1>3, <1>4

LEMMA FirstLevel ==
  ASSUME pi \in Pis
  PROVE  FoldersBelow(pi.login, 1) = {pi.login} \cup FoldersIn(Within(pi.login))
<1>1. pi.login \in Seq(STRING) /\ Len(pi.login) \in Nat
  BY Tree
<1>2. FoldersIn(Within(pi.login)) \subseteq FoldersBelow(pi.login, 1)
  BY <1>1, LoginIsBelow, EntersBelow
<1>3. ASSUME NEW g \in FoldersBelow(pi.login, 1), g # pi.login
      PROVE  g \in FoldersIn(Within(pi.login))
  <2>1. PICK f \in FoldersIn(Within(pi.login)) : Len(pi.login) < Len(g) /\ Under(f, g)
    BY <1>3, LoginIsBelow, EnteredOnTheWay
  <2>2. Len(f) = Len(pi.login) + 1 /\ f \in Seq(STRING)
    BY <1>1, FoldersWithin, Tree
  <2>3. Len(g) <= Len(pi.login) + 1 /\ g \in Seq(STRING) /\ Len(g) \in Nat
    BY Below
  <2>4. f = g
    BY <1>1, <2>1, <2>2, <2>3, UnderAgain
  <2>5. QED BY <2>4
<1>4. QED BY <1>2, <1>3, LoginIsBelow

(* Whatever a server can list, and however it is asked, an answer shows    *)
(* every video, folder and script that counts.                             *)
LEMMA ListingIs ==
  ASSUME pi \in Pis, server \in Dialects, NEW path, Listing(path) # Nothing
  PROVE  /\ VideosIn(Listing(path)) = VideosIn(Within(path))
         /\ FoldersIn(Listing(path)) = FoldersIn(Within(path))
         /\ ScriptsIn(Listing(path)) = ScriptsIn(Within(path))
<1> DEFINE visible == {n \in Within(path) : ~IsHidden(n)}
<1>1. /\ Serves(server, pi)
      /\ \A entries \in SUBSET pi.nodes : entries # Nothing
  BY DiscoveryAssumption DEF IsPi
<1>2. visible \in SUBSET pi.nodes /\ {} \in SUBSET pi.nodes
  BY DEF Within
<1>3. visible # Nothing /\ {} # Nothing
  BY <1>1, <1>2
<1>4. \/ Listing(path) = Within(path)
      \/ Listing(path) = visible /\ server.mlsd # "ok" /\ server.all # "ok"
  <2>1. CASE server.mlsd = "ok"
    BY <2>1 DEF Listing
  <2>2. CASE server.mlsd # "ok" /\ server.all = "ok"
    <3>1. CASE Within(path) = {}
      BY <1>3, <2>2, <3>1 DEF Listing
    <3>2. CASE Within(path) # {}
      <4>1. Within(path) # Nothing
        BY <1>1 DEF Within
      <4>2. QED BY <2>2, <3>2, <4>1 DEF Listing
    <3>3. QED BY <3>1, <3>2
  <2>3. CASE server.mlsd # "ok" /\ server.all = "literal"
    <3>1. server.plain = "ok"
      BY <1>1, <2>3 DEF Serves
    <3>2. QED BY <1>3, <2>3, <3>1 DEF Listing
  <2>4. CASE server.mlsd # "ok" /\ server.all \notin {"ok", "literal"}
    <3>1. CASE server.plain = "ok"
      BY <1>3, <2>4, <3>1 DEF Listing
    <3>2. CASE server.plain # "ok"
      BY <2>4, <3>2 DEF Listing
    <3>3. QED BY <3>1, <3>2
  <2>5. QED BY <2>1, <2>2, <2>3, <2>4
<1>5. CASE Listing(path) = visible /\ server.mlsd # "ok" /\ server.all # "ok"
  <2>1. \A n \in Within(path) : n.kind = "script" => n \in visible
    BY <1>1, <1>5 DEF Serves, Within, IsHidden, Name
  <2>2. {n \in visible : n.kind = "video" /\ ~IsHidden(n)}
          = {n \in Within(path) : n.kind = "video" /\ ~IsHidden(n)}
    OBVIOUS
  <2>3. {n \in visible : n.kind = "dir" /\ ~IsHidden(n)}
          = {n \in Within(path) : n.kind = "dir" /\ ~IsHidden(n)}
    OBVIOUS
  <2>4. {n \in visible : n.kind = "script"} = {n \in Within(path) : n.kind = "script"}
    BY <2>1
  <2> HIDE DEF visible
  <2>5. QED BY <1>5, <2>2, <2>3, <2>4, Zenon DEF VideosIn, FoldersIn, ScriptsIn
<1>6. QED BY <1>4, <1>5, Zenon

LEMMA VideosAreCounted ==
  ASSUME pi \in Pis, NEW path
  PROVE  VideosIn(Within(path)) \in Nat
<1>1. {n \in Within(path) : n.kind = "video" /\ ~IsHidden(n)} \in SUBSET pi.nodes
  BY DEF Within
<1>2. QED BY <1>1, Tree, FS_Subset, FS_CardinalityType DEF VideosIn

-----------------------------------------------------------------------------
(* The candidates.                                                         *)

PathsOf(found) == {found[i].path : i \in DOMAIN found}

Apart(found) == \A i, j \in DOMAIN found : found[i].path = found[j].path => i = j

LEMMA AsManyPaths ==
  ASSUME NEW S, NEW found \in Seq(S), Apart(found)
  PROVE  Cardinality(PathsOf(found)) = Len(found)
<1> DEFINE path == [i \in 1 .. Len(found) |-> found[i].path]
<1>1. DOMAIN found = 1 .. Len(found) /\ Len(found) \in Nat
  OBVIOUS
<1>2. path \in Surjection(1 .. Len(found), PathsOf(found))
  BY <1>1 DEF Surjection, PathsOf
<1>3. path \in Injection(1 .. Len(found), PathsOf(found))
  <2>1. \A i, j \in 1 .. Len(found) : path[i] = path[j] => i = j
    BY <1>1 DEF Apart
  <2>2. path \in [1 .. Len(found) -> PathsOf(found)] /\ DOMAIN path = 1 .. Len(found)
    BY <1>2 DEF Surjection
  <2> HIDE DEF path
  <2>3. QED BY <2>1, <2>2 DEF Injection, IsInjective
<1>4. IsFiniteSet(1 .. Len(found)) /\ Cardinality(1 .. Len(found)) = Len(found)
  BY <1>1, FS_Interval
<1> HIDE DEF path
<1>5. QED BY <1>2, <1>3, <1>4, FS_Surjection

CandidatesIn(S, found) == found \in Seq([path : S, videos : Nat]) /\ Apart(found)

(* The k-th of a set of numbers.                                           *)
Rank(S, i) == Cardinality({j \in S : j <= i})

LEMMA Ranks ==
  ASSUME NEW n \in Nat, NEW S \in SUBSET (1 .. n)
  PROVE  /\ Cardinality(S) \in Nat
         /\ \A i \in S : Rank(S, i) \in 1 .. Cardinality(S)
         /\ \A i, j \in S : Rank(S, i) = Rank(S, j) => i = j
         /\ \A k \in 1 .. Cardinality(S) : \E i \in S : Rank(S, i) = k
<1>1. IsFiniteSet(S) /\ Cardinality(S) \in Nat
  <2>1. IsFiniteSet(1 .. n)
    BY FS_Interval
  <2>2. QED BY <2>1, FS_Subset, FS_CardinalityType
<1>2. \A i : IsFiniteSet({j \in S : j <= i}) /\ Rank(S, i) \in Nat
            /\ Rank(S, i) <= Cardinality(S)
  BY <1>1, FS_Subset, FS_CardinalityType DEF Rank
<1>3. ASSUME NEW i \in S, NEW j \in S, i < j
      PROVE  Rank(S, i) + 1 <= Rank(S, j)
  <2> DEFINE upTo(k) == {l \in S : l <= k}
  <2>1. upTo(i) \cup {j} \in SUBSET upTo(j) /\ j \notin upTo(i)
    <3>1. j \notin upTo(i) /\ j \in upTo(j)
      BY <1>3
    <3>2. \A l \in upTo(i) : l \in upTo(j)
      BY <1>3
    <3>3. QED BY <3>1, <3>2
  <2>2. IsFiniteSet(upTo(i)) /\ IsFiniteSet(upTo(j))
    BY <1>2
  <2> HIDE DEF upTo
  <2>3. Cardinality(upTo(i) \cup {j}) = Cardinality(upTo(i)) + 1
    BY <2>1, <2>2, FS_AddElement
  <2>4. Cardinality(upTo(i) \cup {j}) <= Cardinality(upTo(j))
    BY <2>1, <2>2, FS_Subset
  <2>5. QED BY <2>3, <2>4 DEF Rank, upTo
<1>4. \A i, j \in S : Rank(S, i) = Rank(S, j) => i = j
  <2> SUFFICES ASSUME NEW i \in S, NEW j \in S, Rank(S, i) = Rank(S, j), i # j PROVE FALSE
    OBVIOUS
  <2>1. i < j \/ j < i
    OBVIOUS
  <2>2. Rank(S, i) \in Nat /\ Rank(S, j) \in Nat
    BY <1>2
  <2>3. QED BY <1>3, <2>1, <2>2
<1>5. \A i \in S : Rank(S, i) \in 1 .. Cardinality(S)
  <2> TAKE i \in S
  <2>1. i \in {j \in S : j <= i}
    OBVIOUS
  <2>2. Rank(S, i) # 0
    BY <1>2, <2>1, FS_EmptySet DEF Rank
  <2>3. Rank(S, i) \in Nat /\ Rank(S, i) <= Cardinality(S)
    BY <1>2
  <2>4. QED BY <1>1, <2>2, <2>3
<1> DEFINE rank == [i \in S |-> Rank(S, i)]
<1>6. rank \in Injection(S, 1 .. Cardinality(S))
  BY <1>4, <1>5 DEF Injection, IsInjective
<1>7. IsFiniteSet(1 .. Cardinality(S)) /\ Cardinality(1 .. Cardinality(S)) = Cardinality(S)
  BY <1>1, FS_Interval
<1>8. rank \in Surjection(S, 1 .. Cardinality(S))
  <2> HIDE DEF rank
  <2>1. QED BY <1>6, <1>7, FS_Injection
<1>9. \A k \in 1 .. Cardinality(S) : \E i \in S : Rank(S, i) = k
  BY <1>8 DEF Surjection
<1>10. QED BY <1>1, <1>4, <1>5, <1>9

LEMMA Joined ==
  ASSUME NEW R, NEW s \in Seq(R), NEW t \in Seq(R)
  PROVE  /\ s \o t \in Seq(R) /\ Len(s \o t) = Len(s) + Len(t)
         /\ DOMAIN (s \o t) = 1 .. Len(s) + Len(t)
         /\ \A i \in 1 .. Len(s) : (s \o t)[i] = s[i]
         /\ \A k \in 1 .. Len(t) : (s \o t)[Len(s) + k] = t[k]
OBVIOUS

LEMMA WithNewIs ==
  ASSUME NEW S, NEW found, CandidatesIn(S, found),
         NEW n \in Nat, NEW paths, DOMAIN paths = 1 .. n,
         \A i \in 1 .. n : paths[i] = Nothing \/ paths[i] \in S
  PROVE  /\ CandidatesIn(S, WithNew(found, paths))
         /\ PathsOf(WithNew(found, paths)) =
              PathsOf(found) \cup ({paths[i] : i \in 1 .. n} \ {Nothing})
<1> DEFINE known(i) == \/ paths[i] = Nothing
                       \/ \E j \in DOMAIN found : found[j].path = paths[i]
                       \/ \E j \in 1 .. i - 1 : paths[j] = paths[i]
           new == {i \in DOMAIN paths : ~known(i)}
           nth(k) == CHOOSE i \in new : Rank(new, i) = k
           added == [k \in 1 .. Cardinality(new) |-> [path |-> paths[nth(k)], videos |-> 0]]
           both == found \o added
<1>0. found \in Seq([path : S, videos : Nat]) /\ Apart(found)
  BY DEF CandidatesIn
<1>1. WithNew(found, paths) = both
  BY Zenon DEF WithNew, Rank
<1>2. new \in SUBSET (1 .. n)
  OBVIOUS
<1>3. \A i \in new : /\ i \in 1 .. n /\ paths[i] # Nothing /\ paths[i] \in S
                     /\ \A j \in DOMAIN found : found[j].path # paths[i]
                     /\ \A j \in new : paths[j] = paths[i] => i = j
  <2> TAKE i \in new
  <2>1. i \in 1 .. n /\ ~known(i)
    OBVIOUS
  <2>2. ASSUME NEW j \in new, paths[j] = paths[i], i # j
        PROVE  FALSE
    <3>1. j \in 1 .. n /\ ~known(j)
      OBVIOUS
    <3>2. i \in 1 .. j - 1 \/ j \in 1 .. i - 1
      BY <2>1, <2>2, <3>1
    <3>3. QED BY <2>1, <2>2, <3>1, <3>2
  <2>3. QED BY <2>1, <2>2
<1>4. \A i \in 1 .. n : i \notin new => \/ paths[i] = Nothing
                                        \/ \E j \in DOMAIN found : found[j].path = paths[i]
                                        \/ \E j \in 1 .. i - 1 : paths[j] = paths[i]
  OBVIOUS
<1> HIDE DEF new
<1>5. \A k \in 1 .. Cardinality(new) : nth(k) \in new /\ Rank(new, nth(k)) = k
  <2> TAKE k \in 1 .. Cardinality(new)
  <2>1. \E i \in new : Rank(new, i) = k
    BY <1>2, Ranks
  <2>2. QED BY <2>1, Zenon
<1>6. Cardinality(new) \in Nat
  BY <1>2, Ranks
<1>7. \A i \in new : \E k \in 1 .. Cardinality(new) : nth(k) = i
  <2> TAKE i \in new
  <2>1. Rank(new, i) \in 1 .. Cardinality(new)
    BY <1>2, Ranks
  <2>2. nth(Rank(new, i)) = i
    BY <1>2, <1>5, <2>1, Ranks
  <2>3. QED BY <2>1, <2>2
<1>8. \A k, l \in 1 .. Cardinality(new) : nth(k) = nth(l) => k = l
  <2> TAKE k, l \in 1 .. Cardinality(new)
  <2>1. Rank(new, nth(k)) = k /\ Rank(new, nth(l)) = l
    BY <1>5
  <2>2. QED BY <2>1, Zenon
<1> HIDE DEF nth
<1> DEFINE m == Cardinality(new)
           R == [path : S, videos : Nat]
<1>9. added \in Seq(R) /\ Len(added) = m
      /\ \A k \in 1 .. m : added[k].path = paths[nth(k)]
  <2>1. \A k \in 1 .. m : [path |-> paths[nth(k)], videos |-> 0] \in R
    BY <1>3, <1>5
  <2>2. m \in Nat
    BY <1>6
  <2> HIDE DEF m, R
  <2>3. added = [k \in 1 .. m |-> [path |-> paths[nth(k)], videos |-> 0]]
    BY DEF m
  <2>4. \A k \in 1 .. m : added[k] = [path |-> paths[nth(k)], videos |-> 0]
    BY <2>3
  <2>5. added \in [1 .. m -> R]
    BY <2>1, <2>3
  <2> HIDE DEF added
  <2>6. added \in Seq(R) /\ Len(added) = m
    BY <2>2, <2>5
  <2>7. QED BY <2>4, <2>6
<1>10. m \in Nat /\ Len(found) \in Nat /\ found \in Seq(R) /\ DOMAIN found = 1 .. Len(found)
  BY <1>0, <1>6
<1> DEFINE p == Len(found)
<1> HIDE DEF m, R, added
<1>11. /\ both \in Seq(R) /\ Len(both) = p + m /\ DOMAIN both = 1 .. p + m
       /\ \A i \in 1 .. p : both[i] = found[i]
       /\ \A k \in 1 .. m : both[p + k] = added[k]
  <2>1. found \in Seq(R) /\ added \in Seq(R) /\ Len(added) = m
    BY <1>9, <1>10
  <2>2. both \in Seq(R) /\ Len(both) = p + Len(added)
    BY <2>1, Joined
  <2>3. DOMAIN both = 1 .. p + Len(added)
    BY <2>1, Joined
  <2>4. \A i \in 1 .. p : both[i] = found[i]
    BY <2>1, Joined
  <2>5. \A k \in 1 .. Len(added) : both[p + k] = added[k]
    BY <2>1, Joined
  <2> HIDE DEF both, p
  <2>6. QED BY <2>1, <2>2, <2>3, <2>4, <2>5
<1>12. p \in Nat
  BY <1>10
<1> HIDE DEF p, both
<1>13. \A i \in 1 .. p + m : i \in 1 .. p \/ \E k \in 1 .. m : i = p + k
  <2> TAKE i \in 1 .. p + m
  <2>1. i \notin 1 .. p => i - p \in 1 .. m /\ i = p + (i - p)
    BY <1>10, <1>12
  <2>2. QED BY <2>1
<1>14. \A i \in 1 .. p : i \in DOMAIN found /\ i \in DOMAIN both /\ both[i].path = found[i].path
  BY <1>10, <1>11, <1>12, <1>13 DEF p
<1>15. \A k \in 1 .. m : p + k \in DOMAIN both /\ both[p + k].path = paths[nth(k)]
  BY <1>9, <1>10, <1>11, <1>12
<1>16. Apart(both)
  <2> SUFFICES ASSUME NEW i \in 1 .. p + m, NEW j \in 1 .. p + m, both[i].path = both[j].path
               PROVE  i = j
    BY <1>11 DEF Apart
  <2>1. CASE i \in 1 .. p /\ j \in 1 .. p
    BY <1>0, <1>14, <2>1 DEF Apart
  <2>2. ASSUME NEW a \in 1 .. p, NEW k \in 1 .. m, both[a].path = both[p + k].path
        PROVE  FALSE
    <3>1. found[a].path = paths[nth(k)] /\ a \in DOMAIN found
      BY <1>14, <1>15, <2>2
    <3>2. nth(k) \in new
      BY <1>5 DEF m
    <3>3. QED BY <1>3, <3>1, <3>2
  <2>3. ASSUME NEW k \in 1 .. m, NEW l \in 1 .. m, i = p + k, j = p + l
        PROVE  i = j
    <3>1. paths[nth(k)] = paths[nth(l)]
      BY <1>15, <2>3
    <3>2. nth(k) \in new /\ nth(l) \in new
      BY <1>5 DEF m
    <3>3. nth(k) = nth(l)
      BY <1>3, <3>1, <3>2
    <3>4. k = l
      BY <1>8, <3>3 DEF m
    <3>5. QED BY <2>3, <3>4
  <2>4. QED BY <1>13, <2>1, <2>2, <2>3
<1>17. PathsOf(both) = PathsOf(found) \cup ({paths[i] : i \in 1 .. n} \ {Nothing})
  <2>1. ASSUME NEW x \in PathsOf(both)
        PROVE  x \in PathsOf(found) \cup ({paths[i] : i \in 1 .. n} \ {Nothing})
    <3>1. PICK i \in 1 .. p + m : x = both[i].path
      BY <1>11 DEF PathsOf
    <3>2. CASE i \in 1 .. p
      BY <1>14, <3>1, <3>2 DEF PathsOf
    <3>3. ASSUME NEW k \in 1 .. m, i = p + k
          PROVE  x \in {paths[j] : j \in 1 .. n} \ {Nothing}
      <4>1. nth(k) \in new
        BY <1>5 DEF m
      <4>2. x = paths[nth(k)]
        BY <1>15, <3>1, <3>3
      <4>3. QED BY <1>3, <4>1, <4>2
    <3>4. QED BY <1>13, <3>2, <3>3
  <2>2. ASSUME NEW x \in PathsOf(found)
        PROVE  x \in PathsOf(both)
    <3>1. PICK i \in 1 .. p : x = found[i].path
      BY <1>10 DEF PathsOf, p
    <3>2. QED BY <1>14, <3>1 DEF PathsOf
  <2>3. ASSUME NEW x, x \in {paths[i] : i \in 1 .. n}, x # Nothing
        PROVE  x \in PathsOf(both)
    <3> DEFINE T == {i \in 1 .. n : paths[i] = x}
    <3>1. T \subseteq Nat /\ T # {} /\ \A i \in T : i \in 1 .. n /\ paths[i] = x
      BY <2>3
    <3>2. \A i \in 1 .. n : paths[i] = x => i \in T
      OBVIOUS
    <3> HIDE DEF T
    <3>3. PICK i \in T : \A j \in T : i <= j
      BY <3>1, LeastNumber
    <3>4. i \in 1 .. n /\ paths[i] = x
      BY <3>1
    <3>5. \A j \in 1 .. i - 1 : paths[j] # x
      <4> SUFFICES ASSUME NEW j \in 1 .. i - 1, paths[j] = x PROVE FALSE
        OBVIOUS
      <4>1. j \in 1 .. n /\ j < i
        BY <3>4
      <4>2. QED BY <3>2, <3>3, <3>4, <4>1
    <3>6. CASE i \in new
      <4>1. PICK k \in 1 .. m : nth(k) = i
        BY <1>7, <3>6 DEF m
      <4>2. QED BY <1>15, <3>4, <4>1 DEF PathsOf
    <3>7. CASE i \notin new
      <4>1. \E j \in DOMAIN found : found[j].path = x
        BY <1>4, <2>3, <3>4, <3>5, <3>7
      <4>2. QED BY <2>2, <4>1 DEF PathsOf
    <3>8. QED BY <3>6, <3>7
  <2>4. QED BY <2>1, <2>2, <2>3
<1>18. QED BY <1>1, <1>11, <1>16, <1>17 DEF R, CandidatesIn

(* One candidate more.                                                     *)
LEMMA AddedCandidate ==
  ASSUME NEW S, NEW found, CandidatesIn(S, found),
         NEW path \in S, path \notin PathsOf(found), NEW videos \in Nat
  PROVE  LET more == Append(found, [path |-> path, videos |-> videos]) IN
         /\ CandidatesIn(S, more)
         /\ PathsOf(more) = PathsOf(found) \cup {path}
         /\ \A i \in DOMAIN more : more[i] = [path |-> path, videos |-> videos]
                                  \/ (i \in DOMAIN found /\ more[i] = found[i])
<1> DEFINE R == [path : S, videos : Nat]
           one == [path |-> path, videos |-> videos]
           more == Append(found, one)
           p == Len(found)
<1>1. one \in R /\ one.path = path /\ found \in Seq(R) /\ Apart(found)
  BY DEF CandidatesIn
<1> HIDE DEF R, one
<1>2. /\ p \in Nat /\ DOMAIN found = 1 .. p
      /\ more \in Seq(R) /\ DOMAIN more = 1 .. p + 1
      /\ more[p + 1] = one
      /\ \A i \in 1 .. p : more[i] = found[i]
  BY <1>1
<1> HIDE DEF more, p
<1>3. \A i \in 1 .. p + 1 : i \in 1 .. p \/ i = p + 1
  BY <1>2
<1>4. \A i \in 1 .. p : i \in 1 .. p + 1 /\ found[i].path # path
  BY <1>2 DEF PathsOf
<1>5. p + 1 \in 1 .. p + 1
  BY <1>2
<1>6. Apart(more)
  BY <1>1, <1>2, <1>3, <1>4 DEF Apart
<1>7. PathsOf(more) = PathsOf(found) \cup {path}
  BY <1>1, <1>2, <1>3, <1>4, <1>5 DEF PathsOf
<1>8. QED BY <1>1, <1>2, <1>3, <1>6, <1>7 DEF R, one, more, CandidatesIn

-----------------------------------------------------------------------------
(* What a search knows.                                                    *)

Whole(s) == DOMAIN s = {"step", "todo", "scripts", "found", "visited"}

AllScripts ==
  {n.path : n \in {m \in pi.nodes : m.kind = "script"
                                    /\ Above(m.path) \in FoldersBelow(pi.login, 1)}}

NamedBy(S) ==
  {Resolved(v) : v \in UNION {{pi.says[s][i] : i \in DOMAIN pi.says[s]} : s \in S}} \ {Nothing}

HaveTheirVideos(found) ==
  \A i \in DOMAIN found : found[i].videos = VideosIn(Within(found[i].path))

(* The folders that are still to be scanned, or below one that is.         *)
Ahead(todo) == {f \in FoldersBelow(pi.login, 2) : \E at \in todo : Under(at.path, f)}

(* The scripts of each folder listed so far are known.                     *)
SearchedBelow(s, r) ==
  /\ s.todo \subseteq FoldersIn(Within(pi.login))
  /\ s.scripts \subseteq AllScripts
  /\ ~r => \A f \in FoldersBelow(pi.login, 1) \ s.todo : ScriptsIn(Within(f)) \subseteq s.scripts

(* Each folder named is a candidate, or named by a script still to read.   *)
SearchedScripts(s, r) ==
  /\ s.scripts \subseteq AllScripts
  /\ CandidatesIn(Named, s.found)
  /\ ~r => Named \subseteq PathsOf(s.found) \cup NamedBy(s.scripts \ pi.big)

(* Each right folder is a candidate, or still to be listed.                *)
Inspected(s, r) ==
  /\ CandidatesIn(Right, s.found)
  /\ s.todo \subseteq Right
  /\ s.todo \cap PathsOf(s.found) = {}
  /\ r \/ Right = PathsOf(s.found) \cup s.todo
  /\ r \/ HaveTheirVideos(s.found)

(* Each folder with videos is a candidate, or below one still to be        *)
(* scanned, and of one of them only; and what was scanned is not.          *)
ScannedTo(todo, found, visited, r) ==
  /\ \A at \in todo : /\ at = [path |-> at.path, depth |-> at.depth]
                      /\ at.path \in FoldersBelow(pi.login, 2)
                      /\ at.depth = Len(at.path) - Len(pi.login)
  /\ \A at, other \in todo : Under(at.path, other.path) => at = other
  /\ CandidatesIn(Holding, found)
  /\ HaveTheirVideos(found)
  /\ \A at \in todo : \A path \in PathsOf(found) : ~Under(at.path, path)
  /\ ~r => Named = {} /\ \A h \in Holding :
                           h \in PathsOf(found) \/ \E at \in todo : Under(at.path, h)
  /\ visited \in Nat
  /\ visited + Cardinality(Ahead(todo)) <= Cardinality(FoldersBelow(pi.login, 2))

Searched(s, r) ==
  /\ Whole(s)
  /\ r \in BOOLEAN
  /\ s.step = "config" => pi.path # Nothing
  /\ s.step \in {"login", "below", "read", "scan"} => pi.path = Nothing
  /\ s.step \in {"config", "login", "below"} => s.found = <<>>
  /\ s.step \in {"login", "below", "read"} => s.visited = 0
  /\ s.step = "login" => s.scripts = {}
  /\ s.step = "below" => SearchedBelow(s, r)
  /\ s.step = "read" => SearchedScripts(s, r)
  /\ s.step = "inspect" => Inspected(s, r)
  /\ s.step = "scan" => ScannedTo(s.todo, s.found, s.visited, r)

(* What a report says is right.                                            *)
Reported(found, r) ==
  /\ Cardinality(PathsOf(found)) = Len(found)
  /\ PathsOf(found) \subseteq Right \cup Holding
  /\ \A i \in DOMAIN found : found[i].videos = VideosIn(Within(found[i].path)) \/ r
  /\ ~r /\ ~(Cardinality(FoldersBelow(pi.login, 2)) > MaxScanned) => PathsOf(found) = Right

LEMMA NoCandidate ==
  ASSUME NEW S
  PROVE  CandidatesIn(S, <<>>) /\ PathsOf(<<>>) = {} /\ HaveTheirVideos(<<>>)
<1>1. <<>> \in Seq([path : S, videos : Nat]) /\ DOMAIN <<>> = {}
  OBVIOUS
<1>2. QED BY <1>1 DEF CandidatesIn, Apart, PathsOf, HaveTheirVideos

LEMMA CandidatesAre ==
  ASSUME NEW S, NEW found, CandidatesIn(S, found)
  PROVE  /\ PathsOf(found) \subseteq S
         /\ found # <<>> => PathsOf(found) # {}
         /\ Cardinality(PathsOf(found)) = Len(found)
<1> DEFINE R == [path : S, videos : Nat]
<1>1. found \in Seq(R) /\ Apart(found)
  BY DEF CandidatesIn
<1>2. \A e \in R : e.path \in S
  OBVIOUS
<1>3. Cardinality(PathsOf(found)) = Len(found)
  BY <1>1, AsManyPaths
<1> HIDE DEF R
<1>4. \A i \in DOMAIN found : found[i] \in R
  BY <1>1
<1>5. found # <<>> => 1 \in DOMAIN found
  BY <1>1
<1>6. QED BY <1>2, <1>3, <1>4, <1>5 DEF PathsOf

LEMMA NamedByScripts ==
  ASSUME pi \in Pis
  PROVE  Named = NamedBy(AllScripts \ pi.big)
<1>1. {n.path : n \in {m \in pi.nodes : /\ m.kind = "script" /\ m.path \notin pi.big
                                        /\ Above(m.path) \in FoldersBelow(pi.login, 1)}}
        = AllScripts \ pi.big
  BY DEF AllScripts
<1>2. QED BY <1>1, Zenon DEF Named, NamedBy

(* After the scripts, the search goes on as it should.                     *)
LEMMA GoesOnAfterScripts ==
  ASSUME pi \in Pis, NEW s, NEW r \in BOOLEAN, Whole(s),
         pi.path = Nothing, s.visited = 0, SearchedScripts(s, r)
  PROVE  Searched(AfterScripts(s), r)
<1> DEFINE t == AfterScripts(s)
<1>1. CASE s.scripts # {}
  <2>1. /\ Whole(t) /\ t.step = "read" /\ t.scripts = s.scripts /\ t.found = s.found
        /\ t.visited = 0
    BY <1>1 DEF AfterScripts, Whole
  <2>2. SearchedScripts(t, r)
    BY <2>1 DEF SearchedScripts
  <2> HIDE DEF t
  <2>3. Searched(t, r)
    BY <2>1, <2>2 DEF Searched
  <2>4. QED BY <2>3 DEF t
<1>2. CASE s.scripts = {} /\ s.found # <<>>
  <2>1. /\ Whole(t) /\ t.step = "inspect" /\ t.todo = PathsOf(s.found)
        /\ t.found = <<>>
    BY <1>2 DEF AfterScripts, PathsOf, Whole
  <2>2. PathsOf(s.found) \subseteq Named /\ PathsOf(s.found) # {}
    BY <1>2, CandidatesAre DEF SearchedScripts
  <2>3. Right = Named
    BY <2>2 DEF Right
  <2>4. ~r => Right = PathsOf(s.found)
    <3>1. NamedBy(s.scripts \ pi.big) = {}
      BY <1>2 DEF NamedBy
    <3>2. QED BY <2>2, <2>3, <3>1 DEF SearchedScripts
  <2>5. CandidatesIn(Right, t.found) /\ PathsOf(t.found) = {} /\ HaveTheirVideos(t.found)
    BY <2>1, NoCandidate
  <2>6. Inspected(t, r)
    BY <2>1, <2>2, <2>3, <2>4, <2>5 DEF Inspected
  <2> HIDE DEF t
  <2>7. Searched(t, r)
    BY <2>1, <2>6 DEF Searched
  <2>8. QED BY <2>7 DEF t
<1>3. CASE s.scripts = {} /\ s.found = <<>>
  <2> DEFINE at == [path |-> pi.login, depth |-> 0]
  <2>1. /\ Whole(t) /\ t.step = "scan" /\ t.todo = {at} /\ t.found = <<>>
        /\ t.visited = 0
    BY <1>3 DEF AfterScripts, Whole
  <2>2. /\ pi.login \in FoldersBelow(pi.login, 2)
        /\ \A f \in FoldersBelow(pi.login, 2) : Under(pi.login, f)
        /\ IsFiniteSet(FoldersBelow(pi.login, 2))
    BY LoginIsBelow
  <2>3. 0 = Len(pi.login) - Len(pi.login)
    <3>1. pi.login \in Seq(STRING)
      BY Tree
    <3>2. QED BY <3>1
  <2>4. CandidatesIn(Holding, <<>>) /\ PathsOf(<<>>) = {} /\ HaveTheirVideos(<<>>)
    BY NoCandidate
  <2>5. ~r => Named = {}
    <3>1. NamedBy(s.scripts \ pi.big) = {} /\ PathsOf(s.found) = {}
      BY <1>3, <2>4 DEF NamedBy
    <3>2. QED BY <3>1 DEF SearchedScripts
  <2>6. \A h \in Holding : \E a \in {at} : Under(a.path, h)
    BY <2>2 DEF Holding
  <2>7. Cardinality(Ahead({at})) <= Cardinality(FoldersBelow(pi.login, 2))
        /\ Cardinality(Ahead({at})) \in Nat
    <3>1. Ahead({at}) \subseteq FoldersBelow(pi.login, 2)
      BY DEF Ahead
    <3>2. QED BY <2>2, <3>1, FS_Subset, FS_CardinalityType
  <2>8. ScannedTo({at}, <<>>, 0, r)
    <3>1. \A a \in {at} : a.path = pi.login /\ a.depth = 0 /\ a = at
      OBVIOUS
    <3> HIDE DEF at
    <3>2. 0 + Cardinality(Ahead({at})) <= Cardinality(FoldersBelow(pi.login, 2))
      BY <2>7
    <3>3. at = [path |-> pi.login, depth |-> 0]
      BY DEF at
    <3>4. QED BY <2>2, <2>3, <2>4, <2>5, <2>6, <3>1, <3>2, <3>3 DEF ScannedTo
  <2> HIDE DEF t, at
  <2>9. Searched(t, r)
    BY <2>1, <2>8 DEF Searched
  <2>10. QED BY <2>9 DEF t
<1>4. QED BY <1>1, <1>2, <1>3

LEMMA BelowIsDone ==
  ASSUME pi \in Pis, NEW s, NEW r \in BOOLEAN, Whole(s),
         pi.path = Nothing, s.visited = 0, s.found = <<>>, s.todo = {}, SearchedBelow(s, r)
  PROVE  Searched(AfterScripts(s), r)
<1>1. ~r => s.scripts = AllScripts
  <2> SUFFICES ASSUME ~r, NEW x \in AllScripts PROVE x \in s.scripts
    BY DEF SearchedBelow
  <2>1. PICK n \in pi.nodes : /\ x = n.path /\ n.kind = "script"
                              /\ Above(n.path) \in FoldersBelow(pi.login, 1)
    BY DEF AllScripts
  <2>2. n.path # <<>>
    BY Tree
  <2>3. n \in Within(Above(n.path))
    BY <2>2 DEF Within
  <2>4. x \in ScriptsIn(Within(Above(n.path)))
    BY <2>1, <2>3 DEF ScriptsIn
  <2>5. QED BY <2>1, <2>4 DEF SearchedBelow
<1>2. CandidatesIn(Named, s.found) /\ PathsOf(s.found) = {}
  BY NoCandidate
<1>3. SearchedScripts(s, r)
  BY <1>1, <1>2, NamedByScripts DEF SearchedScripts, SearchedBelow
<1>4. QED BY <1>3, GoesOnAfterScripts

(* One step of the search at a time.                                       *)
LEMMA ListLoginSearches ==
  ASSUME pi \in Pis, server \in Dialects, Searched(search, refused), ListLogin
  PROVE  Searched(search', refused')
<1> DEFINE entries == Listing(pi.login)
           listed == [search EXCEPT !.step = "below", !.todo = FoldersIn(entries),
                                    !.scripts = ScriptsIn(entries)]
<1>1. /\ Whole(search)
      /\ search.step = "login" /\ pi.path = Nothing /\ search.found = <<>>
      /\ search.visited = 0 /\ search.scripts = {} /\ refused \in BOOLEAN
  BY DEF Searched, ListLogin
<1>2. \/ /\ entries # Nothing
         /\ search' = IF listed.todo = {} THEN AfterScripts(listed) ELSE listed
         /\ refused' = refused
      \/ search' = AfterScripts(search) /\ refused' = TRUE
  BY DEF ListLogin, GoOn, Answered, Refusal
<1>3. CASE search' = AfterScripts(search) /\ refused' = TRUE
  <2>1. CandidatesIn(Named, search.found)
    BY <1>1, NoCandidate
  <2>2. SearchedScripts(search, TRUE)
    BY <1>1, <2>1 DEF SearchedScripts
  <2>3. Searched(AfterScripts(search), TRUE)
    BY <1>1, <2>2, GoesOnAfterScripts
  <2>4. QED BY <1>3, <2>3
<1>4. CASE /\ entries # Nothing
           /\ search' = IF listed.todo = {} THEN AfterScripts(listed) ELSE listed
           /\ refused' = refused
  <2>1. /\ FoldersIn(entries) = FoldersIn(Within(pi.login))
        /\ ScriptsIn(entries) = ScriptsIn(Within(pi.login))
    BY <1>4, ListingIs
  <2>2. /\ Whole(listed) /\ listed.step = "below" /\ listed.found = <<>> /\ listed.visited = 0
        /\ listed.todo = FoldersIn(Within(pi.login))
        /\ listed.scripts = ScriptsIn(Within(pi.login))
    BY <1>1, <2>1 DEF Whole
  <2>3. search' = IF listed.todo = {} THEN AfterScripts(listed) ELSE listed
    BY <1>4
  <2> HIDE DEF listed, entries
  <2>4. FoldersBelow(pi.login, 1) = {pi.login} \cup FoldersIn(Within(pi.login))
    BY FirstLevel
  <2>5. ScriptsIn(Within(pi.login)) \subseteq AllScripts
    <3> SUFFICES ASSUME NEW n \in Within(pi.login), n.kind = "script"
                 PROVE  n.path \in AllScripts
      BY DEF ScriptsIn
    <3>1. n \in pi.nodes /\ Above(n.path) = pi.login
      BY DEF Within
    <3>2. QED BY <2>4, <3>1 DEF AllScripts
  <2>6. SearchedBelow(listed, refused)
    BY <2>2, <2>4, <2>5 DEF SearchedBelow
  <2>7. CASE listed.todo = {}
    <3>1. Searched(AfterScripts(listed), refused)
      BY <1>1, <2>2, <2>6, <2>7, BelowIsDone
    <3>2. QED BY <1>4, <2>3, <2>7, <3>1
  <2>8. CASE listed.todo # {}
    <3>1. Searched(listed, refused)
      BY <1>1, <2>2, <2>6 DEF Searched
    <3>2. QED BY <1>4, <2>3, <2>8, <3>1
  <2>9. QED BY <2>7, <2>8
<1>5. QED BY <1>2, <1>3, <1>4

LEMMA ListBelowSearches ==
  ASSUME pi \in Pis, server \in Dialects, Searched(search, refused), NEW f, ListBelow(f)
  PROVE  Searched(search', refused')
<1> DEFINE entries == Listing(f)
           rest == [search EXCEPT !.todo = @ \ {f}]
           more(S) == [rest EXCEPT !.scripts = @ \cup S]
           next(s) == IF s.todo = {} THEN AfterScripts(s) ELSE s
<1>1. /\ Whole(search)
      /\ search.step = "below" /\ f \in search.todo /\ pi.path = Nothing
      /\ search.found = <<>> /\ search.visited = 0 /\ refused \in BOOLEAN
      /\ SearchedBelow(search, refused)
  BY DEF Searched, ListBelow
<1>2. /\ Whole(rest) /\ rest.step = "below" /\ rest.todo = search.todo \ {f}
      /\ rest.scripts = search.scripts /\ rest.found = <<>> /\ rest.visited = 0
  BY <1>1 DEF Whole
<1>3. ASSUME NEW S
      PROVE  /\ Whole(more(S)) /\ more(S).step = "below" /\ more(S).todo = search.todo \ {f}
             /\ more(S).scripts = search.scripts \cup S /\ more(S).found = <<>>
             /\ more(S).visited = 0
  <2> HIDE DEF rest
  <2>1. QED BY <1>2 DEF Whole
<1>4. \/ entries # Nothing /\ search' = next(more(ScriptsIn(entries))) /\ refused' = refused
      \/ search' = next(rest) /\ refused' = TRUE
  BY DEF ListBelow, GoOn, Answered, Refusal
<1>5. f \in FoldersBelow(pi.login, 1)
  BY <1>1, FirstLevel DEF SearchedBelow
<1>6. ScriptsIn(Within(f)) \subseteq AllScripts
  <2> SUFFICES ASSUME NEW n \in Within(f), n.kind = "script"
               PROVE  n.path \in AllScripts
    BY DEF ScriptsIn
  <2>1. n \in pi.nodes /\ Above(n.path) = f
    BY DEF Within
  <2>2. QED BY <1>5, <2>1 DEF AllScripts
<1>7. ASSUME NEW t, NEW r \in BOOLEAN, Whole(t), t.step = "below", t.todo = search.todo \ {f},
             t.found = <<>>, t.visited = 0, search.scripts \subseteq t.scripts,
             t.scripts \subseteq AllScripts,
             ~r => ~refused /\ ScriptsIn(Within(f)) \subseteq t.scripts
      PROVE  Searched(next(t), r)
  <2>1. SearchedBelow(t, r)
    BY <1>1, <1>7 DEF SearchedBelow
  <2>2. CASE t.todo = {}
    <3>1. Searched(AfterScripts(t), r)
      BY <1>1, <1>7, <2>1, <2>2, BelowIsDone
    <3>2. QED BY <2>2, <3>1
  <2>3. CASE t.todo # {}
    <3>1. Searched(t, r)
      BY <1>1, <1>7, <2>1 DEF Searched
    <3>2. QED BY <2>3, <3>1
  <2>4. QED BY <2>2, <2>3
<1>8. CASE entries # Nothing /\ search' = next(more(ScriptsIn(entries))) /\ refused' = refused
  <2> DEFINE t == more(ScriptsIn(entries))
  <2>1. ScriptsIn(entries) = ScriptsIn(Within(f))
    BY <1>8, ListingIs
  <2>2. /\ Whole(t) /\ t.step = "below" /\ t.todo = search.todo \ {f} /\ t.found = <<>>
        /\ t.visited = 0 /\ t.scripts = search.scripts \cup ScriptsIn(entries)
    BY <1>3
  <2>3. search' = next(t) /\ refused' = refused
    BY <1>8
  <2> HIDE DEF t, next, entries
  <2>4. Searched(next(t), refused)
    BY <1>1, <1>6, <1>7, <2>1, <2>2 DEF SearchedBelow
  <2>5. QED BY <2>3, <2>4
<1>9. CASE search' = next(rest) /\ refused' = TRUE
  <2> HIDE DEF next, rest
  <2>1. Searched(next(rest), TRUE)
    BY <1>1, <1>2, <1>7 DEF SearchedBelow
  <2>2. QED BY <1>9, <2>1
<1>10. QED BY <1>4, <1>8, <1>9

LEMMA ReadScriptSearches ==
  ASSUME pi \in Pis, Searched(search, refused), NEW f, ReadScript(f)
  PROVE  Searched(search', refused')
<1> DEFINE rest == [search EXCEPT !.scripts = @ \ {f}]
           paths == IF f \in pi.big THEN <<>>
                    ELSE [i \in DOMAIN pi.says[f] |-> Resolved(pi.says[f][i])]
           read == [rest EXCEPT !.found = WithNew(@, paths)]
           named == {paths[i] : i \in DOMAIN paths} \ {Nothing}
<1>1. /\ Whole(search) /\ f \in search.scripts /\ pi.path = Nothing
      /\ search.visited = 0 /\ refused \in BOOLEAN /\ SearchedScripts(search, refused)
  BY DEF Searched, ReadScript
<1>2. /\ Whole(rest) /\ rest.scripts = search.scripts \ {f} /\ rest.found = search.found
      /\ rest.visited = 0
  BY <1>1 DEF Whole
<1>3. /\ Whole(read) /\ read.scripts = search.scripts \ {f} /\ read.visited = 0
      /\ read.found = WithNew(search.found, paths)
  <2> HIDE DEF rest, paths
  <2>1. QED BY <1>2 DEF Whole
<1>4. \/ search' = AfterScripts(read) /\ refused' = refused
      \/ search' = AfterScripts(rest) /\ refused' = TRUE
  BY DEF ReadScript, GoOn, Answered, Refusal
<1>5. CASE search' = AfterScripts(rest) /\ refused' = TRUE
  <2> HIDE DEF rest
  <2>1. SearchedScripts(rest, TRUE)
    BY <1>1, <1>2 DEF SearchedScripts
  <2>2. Searched(AfterScripts(rest), TRUE)
    BY <1>1, <1>2, <2>1, GoesOnAfterScripts
  <2>3. QED BY <1>5, <2>2
<1>6. CASE search' = AfterScripts(read) /\ refused' = refused
  <2>1. \E n \in Nat : DOMAIN paths = 1 .. n
    <3>1. CASE f \in pi.big
      <4>1. DOMAIN paths = 1 .. 0
        BY <3>1
      <4>2. QED BY <4>1
    <3>2. CASE f \notin pi.big
      <4>1. PICK m \in pi.nodes : m.path = f /\ m.kind = "script"
        BY <1>1 DEF SearchedScripts, AllScripts
      <4>2. Len(pi.says[f]) \in Nat /\ DOMAIN pi.says[f] = 1 .. Len(pi.says[f])
        BY <3>2, <4>1, DiscoveryAssumption DEF IsPi
      <4>3. DOMAIN paths = 1 .. Len(pi.says[f])
        BY <3>2, <4>2
      <4>4. QED BY <4>2, <4>3
    <3>3. QED BY <3>1, <3>2
  <2>2. \A i \in DOMAIN paths : /\ f \notin pi.big /\ i \in DOMAIN pi.says[f]
                                /\ paths[i] = Resolved(pi.says[f][i])
    <3>1. CASE f \in pi.big
      <4>1. DOMAIN paths = {}
        BY <3>1
      <4>2. QED BY <4>1
    <3>2. CASE f \notin pi.big
      BY <3>2
    <3>3. QED BY <3>1, <3>2
  <2>3. f \notin pi.big => \A i \in DOMAIN pi.says[f] : /\ i \in DOMAIN paths
                                                       /\ paths[i] = Resolved(pi.says[f][i])
    OBVIOUS
  <2> HIDE DEF paths
  <2>4. \A i \in DOMAIN paths : paths[i] = Nothing \/ paths[i] \in Named
    <3> TAKE i \in DOMAIN paths
    <3>1. f \in AllScripts \ pi.big /\ i \in DOMAIN pi.says[f]
      BY <1>1, <2>2 DEF SearchedScripts
    <3>2. pi.says[f][i] \in UNION {{pi.says[s][j] : j \in DOMAIN pi.says[s]} :
                                     s \in AllScripts \ pi.big}
      BY <3>1
    <3>3. paths[i] = Nothing \/ paths[i] \in NamedBy(AllScripts \ pi.big)
      BY <2>2, <3>2 DEF NamedBy
    <3>4. QED BY <3>3, NamedByScripts
  <2>5. /\ CandidatesIn(Named, read.found)
        /\ PathsOf(read.found) = PathsOf(search.found) \cup named
    <3>1. PICK n \in Nat : DOMAIN paths = 1 .. n
      BY <2>1
    <3>2. CandidatesIn(Named, search.found)
      BY <1>1 DEF SearchedScripts
    <3>3. \A i \in 1 .. n : paths[i] = Nothing \/ paths[i] \in Named
      BY <2>4, <3>1
    <3>4. /\ CandidatesIn(Named, WithNew(search.found, paths))
          /\ PathsOf(WithNew(search.found, paths))
               = PathsOf(search.found) \cup ({paths[i] : i \in 1 .. n} \ {Nothing})
      <4>1. CandidatesIn(Named, WithNew(search.found, paths))
        BY <3>1, <3>2, <3>3, WithNewIs
      <4>2. PathsOf(WithNew(search.found, paths))
              = PathsOf(search.found) \cup ({paths[i] : i \in 1 .. n} \ {Nothing})
        BY <3>1, <3>2, <3>3, WithNewIs
      <4>3. QED BY <4>1, <4>2
    <3>5. QED BY <1>3, <3>1, <3>4
  <2>6. NamedBy(search.scripts \ pi.big) \subseteq NamedBy(read.scripts \ pi.big) \cup named
    <3> SUFFICES ASSUME NEW x \in NamedBy(search.scripts \ pi.big), x \notin named
                 PROVE  x \in NamedBy(read.scripts \ pi.big)
      OBVIOUS
    <3>1. PICK s \in search.scripts \ pi.big : \E i \in DOMAIN pi.says[s] :
            x = Resolved(pi.says[s][i]) /\ x # Nothing
      BY DEF NamedBy
    <3>2. PICK i \in DOMAIN pi.says[s] : x = Resolved(pi.says[s][i]) /\ x # Nothing
      BY <3>1
    <3>3. s # f
      BY <2>3, <3>2
    <3>4. s \in read.scripts \ pi.big
      BY <1>3, <3>3
    <3>5. pi.says[s][i] \in UNION {{pi.says[t][j] : j \in DOMAIN pi.says[t]} :
                                     t \in read.scripts \ pi.big}
      BY <3>4
    <3>6. QED BY <3>2, <3>5 DEF NamedBy
  <2> HIDE DEF read, rest, named
  <2>7. SearchedScripts(read, refused)
    BY <1>1, <1>3, <2>5, <2>6 DEF SearchedScripts
  <2>8. Searched(AfterScripts(read), refused)
    BY <1>1, <1>3, <2>7, GoesOnAfterScripts
  <2>9. QED BY <1>6, <2>8
<1>7. QED BY <1>4, <1>5, <1>6

(* The search is over, and what it reports is right.                       *)
Reports ==
  /\ search' = NotSearching
  /\ \E found : /\ report' = [status |-> Status(found), found |-> found]
                /\ Reported(found, refused')

LEMMA InspectSearches ==
  ASSUME pi \in Pis, server \in Dialects, Searched(search, refused), NEW f, Inspect(f)
  PROVE  (Searched(search', refused') /\ report' = report) \/ Reports
<1> DEFINE entries == Listing(f)
           more(n) == Append(search.found, [path |-> f, videos |-> n])
           rest(fs) == [search EXCEPT !.todo = @ \ {f}, !.found = fs]
           next(fs) == IF search.todo = {f} THEN Conclude(fs) ELSE GoOn(rest(fs))
<1>1. /\ Whole(search) /\ search.step = "inspect" /\ f \in search.todo
      /\ refused \in BOOLEAN /\ Inspected(search, refused)
  BY DEF Searched, Inspect
<1>2. \A fs : /\ Whole(rest(fs)) /\ rest(fs).step = "inspect" /\ rest(fs).found = fs
              /\ rest(fs).todo = search.todo \ {f}
  BY <1>1 DEF Whole
<1>3. \/ entries # Nothing /\ next(more(VideosIn(entries))) /\ refused' = refused
      \/ next(more(0)) /\ refused' = TRUE
  BY DEF Inspect, Answered, Refusal
<1>4. f \in Right /\ f \notin PathsOf(search.found)
  BY <1>1 DEF Inspected
<1>5. ASSUME NEW n \in Nat, NEW r \in BOOLEAN, ~r => ~refused /\ n = VideosIn(Within(f))
      PROVE  /\ CandidatesIn(Right, more(n))
             /\ PathsOf(more(n)) = PathsOf(search.found) \cup {f}
             /\ r \/ HaveTheirVideos(more(n))
  <2>1. /\ CandidatesIn(Right, more(n))
        /\ PathsOf(more(n)) = PathsOf(search.found) \cup {f}
        /\ \A i \in DOMAIN more(n) : more(n)[i] = [path |-> f, videos |-> n]
             \/ (i \in DOMAIN search.found /\ more(n)[i] = search.found[i])
    BY <1>1, <1>4, AddedCandidate DEF Inspected
  <2> HIDE DEF more
  <2>2. \A i \in DOMAIN more(n) : (more(n)[i].path = f /\ more(n)[i].videos = n)
             \/ (i \in DOMAIN search.found /\ more(n)[i] = search.found[i])
    BY <2>1
  <2>3. r \/ HaveTheirVideos(more(n))
    BY <1>1, <1>5, <2>2 DEF Inspected, HaveTheirVideos
  <2>4. QED BY <2>1, <2>3
<1>6. ASSUME NEW n \in Nat, ~refused' => ~refused /\ n = VideosIn(Within(f)),
             refused' \in BOOLEAN, next(more(n))
      PROVE  (Searched(search', refused') /\ report' = report) \/ Reports
  <2>1. /\ CandidatesIn(Right, more(n))
        /\ PathsOf(more(n)) = PathsOf(search.found) \cup {f}
        /\ refused' \/ HaveTheirVideos(more(n))
    BY <1>5, <1>6
  <2>2. refused' \/ Right = PathsOf(search.found) \cup search.todo
    BY <1>1, <1>6 DEF Inspected
  <2>3. search.todo \subseteq Right /\ search.todo \cap PathsOf(search.found) = {}
    BY <1>1 DEF Inspected
  <2> HIDE DEF more
  <2>4. CASE search.todo = {f}
    <3>1. Conclude(more(n))
      BY <1>6, <2>4
    <3>2. Cardinality(PathsOf(more(n))) = Len(more(n)) /\ PathsOf(more(n)) \subseteq Right
      BY <2>1, CandidatesAre
    <3>3. ~refused' => PathsOf(more(n)) = Right
      BY <2>1, <2>2, <2>4
    <3>4. Reported(more(n), refused')
      BY <2>1, <3>2, <3>3 DEF Reported, HaveTheirVideos
    <3>5. QED BY <3>1, <3>4 DEF Reports, Conclude
  <2>5. CASE search.todo # {f}
    <3> DEFINE t == rest(more(n))
    <3>1. search' = t /\ report' = report
      BY <1>6, <2>5 DEF GoOn
    <3>2. /\ Whole(t) /\ t.step = "inspect" /\ t.found = more(n) /\ t.todo = search.todo \ {f}
      BY <1>2
    <3> HIDE DEF t
    <3>3. Inspected(t, refused')
      BY <1>1, <2>1, <2>2, <2>3, <3>2 DEF Inspected
    <3>4. Searched(t, refused')
      BY <1>6, <3>2, <3>3 DEF Searched
    <3>5. QED BY <3>1, <3>4
  <2>6. QED BY <2>4, <2>5
<1>7. CASE entries # Nothing /\ next(more(VideosIn(entries))) /\ refused' = refused
  <2>1. VideosIn(entries) = VideosIn(Within(f)) /\ VideosIn(entries) \in Nat
    BY <1>7, ListingIs, VideosAreCounted
  <2> HIDE DEF next, entries, more
  <2>2. QED BY <1>1, <1>6, <1>7, <2>1
<1>8. CASE next(more(0)) /\ refused' = TRUE
  <2> HIDE DEF next, more
  <2>1. QED BY <1>6, <1>8
<1>9. QED BY <1>3, <1>7, <1>8

WithVideosOf(found, at) ==
  IF VideosIn(Within(at.path)) = 0 THEN found
  ELSE Append(found, [path |-> at.path, videos |-> VideosIn(Within(at.path))])

(* One folder is scanned, or refuses to be.                                *)
ScannedOne(at, todo, found, r, rest, all, q) ==
  \/ /\ rest = (todo \ {at}) \cup Entered(at, Within(at.path))
     /\ all = WithVideosOf(found, at)
     /\ q = r
  \/ rest = todo \ {at} /\ all = found /\ q = TRUE

(* Wherever the scan is, one folder less is ahead of it, and nothing that  *)
(* counts is lost or found twice.                                          *)
LEMMA ScansOn ==
  ASSUME pi \in Pis, NEW todo, NEW found, NEW visited, NEW r \in BOOLEAN,
         ScannedTo(todo, found, visited, r), NEW at \in todo, NEW rest, NEW all, NEW q \in BOOLEAN,
         ScannedOne(at, todo, found, r, rest, all, q)
  PROVE  ScannedTo(rest, all, visited + 1, q)
<1> DEFINE l == Len(pi.login)
           FB == FoldersBelow(pi.login, 2)
           New(a) == /\ a = [path |-> a.path, depth |-> a.depth] /\ a.path \in FB
                     /\ a.depth = Len(a.path) - l
                     /\ Under(at.path, a.path) /\ Len(a.path) = Len(at.path) + 1
<1>0. \/ /\ rest = (todo \ {at}) \cup Entered(at, Within(at.path))
         /\ all = WithVideosOf(found, at) /\ q = r
      \/ rest = todo \ {at} /\ all = found /\ q = TRUE
  BY DEF ScannedOne
<1>1. /\ at.path \in FB /\ at.depth = Len(at.path) - l
      /\ l \in Nat /\ visited \in Nat
      /\ \A f \in FB : f \in Seq(STRING) /\ Len(f) \in Nat
  <2>1. /\ at.path \in FB /\ at.depth = Len(at.path) - l /\ visited \in Nat
    BY DEF ScannedTo
  <2>2. \A f \in FB : f \in Seq(STRING) /\ Len(f) \in Nat /\ l \in Nat
    BY Below
  <2> HIDE DEF FB, l
  <2>3. QED BY <2>1, <2>2
<1>2. \A a \in todo : /\ a = [path |-> a.path, depth |-> a.depth] /\ a.path \in FB
                      /\ a.depth = Len(a.path) - l
  BY DEF ScannedTo
<1>3. \A a \in todo : a # at => ~Under(a.path, at.path) /\ ~Under(at.path, a.path)
  BY DEF ScannedTo
<1>4. \A e \in Entered(at, Within(at.path)) : New(e)
  <2> TAKE e \in Entered(at, Within(at.path))
  <2>1. PICK f \in FoldersIn(Within(at.path)) :
          at.depth < 2 /\ e = [path |-> f, depth |-> at.depth + 1]
    BY DEF Entered
  <2>2. Len(f) = Len(at.path) + 1 /\ Under(at.path, f)
    BY <1>1, FoldersWithin
  <2>3. Len(at.path) < l + 2
    <3>1. Len(at.path) \in Nat
      BY <1>1
    <3> HIDE DEF l
    <3>2. QED BY <1>1, <2>1, <3>1
  <2>4. f \in FB
    BY <1>1, <2>3, EntersBelow
  <2>5. e.depth = Len(f) - l /\ e.path = f
    <3>1. Len(at.path) \in Nat
      BY <1>1
    <3> HIDE DEF l
    <3>2. QED BY <1>1, <2>1, <2>2, <3>1
  <2>6. QED BY <2>1, <2>2, <2>4, <2>5
<1>5. \A a \in rest : (a \in todo /\ a # at) \/ New(a)
  BY <1>0, <1>4
<1> HIDE DEF FB, l
<1>6. \A a \in rest : /\ a = [path |-> a.path, depth |-> a.depth] /\ a.path \in FB
                      /\ a.depth = Len(a.path) - l
  BY <1>2, <1>5
<1>7. \A a \in rest : ~Under(a.path, at.path)
  <2> SUFFICES ASSUME NEW a \in rest, New(a), Under(a.path, at.path) PROVE FALSE
    BY <1>3, <1>5
  <2>1. Len(a.path) <= Len(at.path)
    BY <1>1, UnderIs
  <2>2. QED BY <1>1, <2>1
<1>8. \A p \in Seq(STRING), a \in todo : a # at /\ Under(a.path, p) => ~Under(at.path, p)
  <2> SUFFICES ASSUME NEW p \in Seq(STRING), NEW a \in todo, a # at, Under(a.path, p),
                      Under(at.path, p)
               PROVE  FALSE
    OBVIOUS
  <2>1. Len(a.path) <= Len(at.path) \/ Len(at.path) <= Len(a.path)
    BY <1>1, <1>2
  <2>2. Under(a.path, at.path) \/ Under(at.path, a.path)
    BY <1>1, <1>2, <2>1, UnderAgain
  <2>3. QED BY <1>3, <2>2
<1>9. \A a, b \in rest : Under(a.path, b.path) => a = b
  <2> SUFFICES ASSUME NEW a \in rest, NEW b \in rest, Under(a.path, b.path) PROVE a = b
    OBVIOUS
  <2>1. CASE a \in todo /\ b \in todo
    BY <2>1 DEF ScannedTo
  <2>2. CASE a \in todo /\ a # at /\ New(b)
    BY <1>1, <1>8, <2>2
  <2>3. CASE New(a) /\ b \in todo /\ b # at
    <3>1. Under(at.path, b.path)
      BY <1>1, <1>2, <2>3, UnderAgain
    <3>2. QED BY <1>3, <2>3, <3>1
  <2>4. CASE New(a) /\ New(b)
    <3>1. a.path = b.path
      BY <1>1, <2>4, UnderAgain
    <3>2. a.depth = b.depth
      BY <2>4, <3>1
    <3>3. QED BY <2>4, <3>1, <3>2
  <2>5. QED BY <1>5, <2>1, <2>2, <2>3, <2>4
<1>10. /\ CandidatesIn(Holding, all) /\ HaveTheirVideos(all)
       /\ PathsOf(all) \subseteq PathsOf(found) \cup {at.path}
       /\ PathsOf(found) \subseteq PathsOf(all)
       /\ ~q => (at.path \in Holding => at.path \in PathsOf(all))
  <2>1. CandidatesIn(Holding, found) /\ HaveTheirVideos(found) /\ at.path \notin PathsOf(found)
    <3>1. Under(at.path, at.path)
      BY <1>1, UnderAgain
    <3>2. QED BY <3>1 DEF ScannedTo
  <2> DEFINE n == VideosIn(Within(at.path))
             more == Append(found, [path |-> at.path, videos |-> n])
  <2>2. n \in Nat
    BY VideosAreCounted
  <2>3. CASE all = found
    <3>1. ~q => n = 0
      <4>1. more # found
        <5>1. found \in Seq([path : Holding, videos : Nat])
          BY <2>1 DEF CandidatesIn
        <5>2. Len(more) = Len(found) + 1 /\ Len(found) \in Nat
          BY <5>1
        <5>3. QED BY <5>2
      <4>2. QED BY <1>0, <2>3, <4>1 DEF WithVideosOf
    <3>2. QED BY <2>1, <2>3, <3>1 DEF Holding
  <2>4. CASE all = more /\ n # 0
    <3>1. at.path \in Holding
      BY <1>1, <2>2, <2>4 DEF Holding, FB
    <3>2. /\ CandidatesIn(Holding, more)
          /\ PathsOf(more) = PathsOf(found) \cup {at.path}
          /\ \A i \in DOMAIN more : more[i] = [path |-> at.path, videos |-> n]
                                   \/ (i \in DOMAIN found /\ more[i] = found[i])
      BY <2>1, <2>2, <3>1, AddedCandidate
    <3> HIDE DEF more
    <3>3. \A i \in DOMAIN more : (more[i].path = at.path /\ more[i].videos = n)
                                 \/ (i \in DOMAIN found /\ more[i] = found[i])
      BY <3>2
    <3>4. HaveTheirVideos(more)
      BY <2>1, <3>3 DEF HaveTheirVideos
    <3>5. QED BY <2>4, <3>2, <3>4
  <2>5. QED BY <1>0, <2>3, <2>4 DEF WithVideosOf
<1>11. \A a \in rest : \A path \in PathsOf(all) : ~Under(a.path, path)
  <2> SUFFICES ASSUME NEW a \in rest, NEW path \in PathsOf(found), Under(a.path, path)
               PROVE  FALSE
    BY <1>7, <1>10
  <2>1. path \in FB
    <3>1. PathsOf(found) \subseteq Holding
      BY CandidatesAre DEF ScannedTo
    <3>2. QED BY <3>1 DEF Holding, FB
  <2>2. CASE a \in todo
    BY <2>2 DEF ScannedTo
  <2>3. CASE New(a)
    <3>1. Under(at.path, path)
      BY <1>1, <2>1, <2>3, UnderAgain
    <3>2. QED BY <3>1 DEF ScannedTo
  <2>4. QED BY <1>5, <2>2, <2>3
<1>12. ~q => Named = {} /\ \A h \in Holding :
                             h \in PathsOf(all) \/ \E a \in rest : Under(a.path, h)
  <2> SUFFICES ASSUME ~q, NEW h \in Holding, h \notin PathsOf(all)
               PROVE  Named = {} /\ \E a \in rest : Under(a.path, h)
    <3>1. ~q => Named = {}
      BY <1>0 DEF ScannedTo
    <3>2. QED BY <3>1
  <2>1. rest = (todo \ {at}) \cup Entered(at, Within(at.path)) /\ ~r
    BY <1>0
  <2>2. Named = {} /\ h \notin PathsOf(found)
    BY <1>10, <2>1 DEF ScannedTo
  <2>3. PICK a \in todo : Under(a.path, h)
    BY <2>1, <2>2 DEF ScannedTo
  <2>4. CASE a # at
    BY <2>1, <2>2, <2>3, <2>4
  <2>5. CASE a = at
    <3>1. h \in FB /\ h # at.path
      BY <1>10 DEF Holding, FB
    <3>2. Len(at.path) < Len(h) /\ \E f \in FoldersIn(Within(at.path)) : Under(f, h)
      BY <1>1, <2>3, <2>5, <3>1, EnteredOnTheWay DEF FB
    <3>3. PICK f \in FoldersIn(Within(at.path)) : Under(f, h)
      BY <3>2
    <3>4. Len(h) <= l + 2
      BY <3>1, Below DEF FB, l
    <3>5. at.depth < 2
      BY <1>1, <3>1, <3>2, <3>4
    <3> DEFINE e == [path |-> f, depth |-> at.depth + 1]
    <3>6. e \in Entered(at, Within(at.path))
      BY <3>5 DEF Entered
    <3>7. e \in rest /\ Under(e.path, h)
      BY <2>1, <3>3, <3>6
    <3>8. QED BY <2>2, <3>7
  <2>6. QED BY <2>4, <2>5
<1>13. visited + 1 + Cardinality(Ahead(rest)) <= Cardinality(FB)
  <2>1. IsFiniteSet(FB)
    BY LoginIsBelow DEF FB
  <2>2. Ahead(todo) \subseteq FB /\ at.path \in Ahead(todo) /\ at.path \notin Ahead(rest)
    <3>1. Under(at.path, at.path)
      BY <1>1, UnderAgain
    <3>2. QED BY <1>1, <1>7, <3>1 DEF Ahead, FB
  <2>3. Ahead(rest) \subseteq Ahead(todo)
    <3> SUFFICES ASSUME NEW f \in FB, NEW a \in rest, Under(a.path, f)
                 PROVE  \E b \in todo : Under(b.path, f)
      BY DEF Ahead, FB
    <3>1. CASE a \in todo
      BY <3>1
    <3>2. CASE New(a)
      <4>1. Under(at.path, f)
        BY <1>1, <3>2, UnderAgain
      <4>2. QED BY <4>1
    <3>3. QED BY <1>5, <3>1, <3>2
  <2>4. IsFiniteSet(Ahead(todo)) /\ IsFiniteSet(Ahead(rest))
    BY <2>1, <2>2, <2>3, FS_Subset
  <2>5. Cardinality(Ahead(rest) \cup {at.path}) = Cardinality(Ahead(rest)) + 1
    BY <2>2, <2>4, FS_AddElement
  <2>6. Cardinality(Ahead(rest) \cup {at.path}) <= Cardinality(Ahead(todo))
    <3>1. Ahead(rest) \cup {at.path} \subseteq Ahead(todo)
      BY <2>2, <2>3
    <3>2. QED BY <2>4, <3>1, FS_Subset
  <2>7. visited + Cardinality(Ahead(todo)) <= Cardinality(FB)
    BY DEF ScannedTo, FB
  <2>8. /\ Cardinality(Ahead(todo)) \in Nat /\ Cardinality(Ahead(rest)) \in Nat
        /\ Cardinality(FB) \in Nat
    BY <2>1, <2>4, FS_CardinalityType
  <2>9. QED BY <1>1, <2>5, <2>6, <2>7, <2>8
<1>14. visited + 1 \in Nat
  BY <1>1
<1>15. QED BY <1>6, <1>9, <1>10, <1>11, <1>12, <1>13, <1>14 DEF ScannedTo, FB, l

LEMMA ScanSearches ==
  ASSUME pi \in Pis, server \in Dialects, Searched(search, refused), NEW at, Scan(at)
  PROVE  (Searched(search', refused') /\ report' = report) \/ Reports
<1> DEFINE entries == Listing(at.path)
           more == Append(search.found, [path |-> at.path, videos |-> VideosIn(entries)])
           all == IF VideosIn(entries) = 0 THEN search.found ELSE more
           rest(todo, fs) == [search EXCEPT !.todo = todo, !.found = fs, !.visited = @ + 1]
           next(todo, fs) == IF todo = {} \/ search.visited + 1 = MaxScanned THEN Conclude(fs)
                             ELSE GoOn(rest(todo, fs))
           enter == (search.todo \ {at}) \cup Entered(at, entries)
<1>1. /\ Whole(search) /\ search.step = "scan" /\ at \in search.todo /\ pi.path = Nothing
      /\ refused \in BOOLEAN
      /\ ScannedTo(search.todo, search.found, search.visited, refused)
  BY DEF Searched, Scan
<1>2. \A todo, fs : /\ Whole(rest(todo, fs)) /\ rest(todo, fs).step = "scan"
                    /\ rest(todo, fs).todo = todo /\ rest(todo, fs).found = fs
                    /\ rest(todo, fs).visited = search.visited + 1
  BY <1>1 DEF Whole
<1>3. \/ entries # Nothing /\ next(enter, all) /\ refused' = refused
      \/ next(search.todo \ {at}, search.found) /\ refused' = TRUE
  BY DEF Scan, Answered, Refusal
<1>4. ASSUME NEW todo, NEW fs, next(todo, fs), refused' \in BOOLEAN,
             ScannedTo(todo, fs, search.visited + 1, refused')
      PROVE  (Searched(search', refused') /\ report' = report) \/ Reports
  <2>1. CASE todo = {} \/ search.visited + 1 = MaxScanned
    <3>1. Conclude(fs)
      BY <1>4, <2>1
    <3>2. CandidatesIn(Holding, fs) /\ HaveTheirVideos(fs)
      BY <1>4 DEF ScannedTo
    <3>3. Cardinality(PathsOf(fs)) = Len(fs) /\ PathsOf(fs) \subseteq Holding
      BY <3>2, CandidatesAre
    <3>4. todo # {} => Cardinality(FoldersBelow(pi.login, 2)) > MaxScanned
      <4> SUFFICES ASSUME todo # {} PROVE Cardinality(FoldersBelow(pi.login, 2)) > MaxScanned
        OBVIOUS
      <4>1. PICK a \in todo : a.path \in FoldersBelow(pi.login, 2)
        BY <1>4 DEF ScannedTo
      <4>2. a.path \in Seq(STRING)
        BY <4>1, Below
      <4>3. a.path \in Ahead(todo)
        <5>1. Under(a.path, a.path)
          BY <4>2, UnderAgain
        <5>2. QED BY <4>1, <5>1 DEF Ahead
      <4>4. IsFiniteSet(FoldersBelow(pi.login, 2)) /\ IsFiniteSet(Ahead(todo))
        <5>1. IsFiniteSet(FoldersBelow(pi.login, 2))
          BY LoginIsBelow
        <5>2. Ahead(todo) \subseteq FoldersBelow(pi.login, 2)
          BY DEF Ahead
        <5>3. QED BY <5>1, <5>2, FS_Subset
      <4>5. Cardinality(Ahead(todo)) \in Nat /\ Cardinality(Ahead(todo)) # 0
            /\ Cardinality(FoldersBelow(pi.login, 2)) \in Nat
        BY <4>3, <4>4, FS_CardinalityType, FS_EmptySet
      <4>6. search.visited + 1 + Cardinality(Ahead(todo))
              <= Cardinality(FoldersBelow(pi.login, 2))
        BY <1>4 DEF ScannedTo
      <4>7. search.visited + 1 = MaxScanned /\ MaxScanned \in Nat
        BY <2>1, DiscoveryAssumption
      <4>8. QED BY <4>5, <4>6, <4>7
    <3>5. todo = {} /\ ~refused' => PathsOf(fs) = Right
      <4>1. todo = {} /\ ~refused' => Named = {} /\ Holding \subseteq PathsOf(fs)
        BY <1>4 DEF ScannedTo
      <4>2. QED BY <1>1, <3>3, <4>1 DEF Right
    <3>6. Reported(fs, refused')
      BY <3>2, <3>3, <3>4, <3>5 DEF Reported, HaveTheirVideos
    <3>7. QED BY <3>1, <3>6 DEF Reports, Conclude
  <2>2. CASE ~(todo = {} \/ search.visited + 1 = MaxScanned)
    <3> DEFINE t == rest(todo, fs)
    <3>1. search' = t /\ report' = report
      BY <1>4, <2>2 DEF GoOn
    <3>2. /\ Whole(t) /\ t.step = "scan" /\ t.todo = todo /\ t.found = fs
          /\ t.visited = search.visited + 1
      BY <1>2
    <3> HIDE DEF t
    <3>3. Searched(t, refused')
      BY <1>1, <1>4, <3>2 DEF Searched
    <3>4. QED BY <3>1, <3>3
  <2>3. QED BY <2>1, <2>2
<1>5. CASE entries # Nothing /\ next(enter, all) /\ refused' = refused
  <2>1. /\ VideosIn(entries) = VideosIn(Within(at.path))
        /\ FoldersIn(entries) = FoldersIn(Within(at.path))
    BY <1>5, ListingIs
  <2>2. /\ enter = (search.todo \ {at}) \cup Entered(at, Within(at.path))
        /\ all = WithVideosOf(search.found, at)
    BY <2>1 DEF Entered, WithVideosOf
  <2> HIDE DEF next, enter, all
  <2>3. ScannedTo(enter, all, search.visited + 1, refused)
    <3>1. at \in search.todo /\ refused \in BOOLEAN
          /\ ScannedTo(search.todo, search.found, search.visited, refused)
      BY <1>1
    <3>2. ScannedOne(at, search.todo, search.found, refused, enter, all, refused)
      BY <2>2 DEF ScannedOne
    <3>3. QED BY <3>1, <3>2, ScansOn
  <2>4. QED BY <1>1, <1>4, <1>5, <2>3
<1>6. CASE next(search.todo \ {at}, search.found) /\ refused' = TRUE
  <2> HIDE DEF next
  <2>1. ScannedOne(at, search.todo, search.found, refused, search.todo \ {at}, search.found, TRUE)
    BY DEF ScannedOne
  <2>2. ScannedTo(search.todo \ {at}, search.found, search.visited + 1, TRUE)
    BY <1>1, <2>1, ScansOn
  <2>3. QED BY <1>4, <1>6, <2>2
<1>7. QED BY <1>3, <1>5, <1>6

LEMMA StartSearches ==
  ASSUME pi \in Pis, StartSearch
  PROVE  Searched(search', refused')
<1> DEFINE t == [NotSearching EXCEPT !.step = IF pi.path = Nothing THEN "login" ELSE "config"]
<1>1. /\ Whole(t) /\ t.step = (IF pi.path = Nothing THEN "login" ELSE "config")
      /\ t.scripts = {} /\ t.found = <<>> /\ t.visited = 0
  BY DEF Whole, NotSearching
<1>2. search' = t /\ refused' = FALSE
  BY DEF StartSearch
<1> HIDE DEF t
<1>3. Searched(t, FALSE)
  BY <1>1 DEF Searched
<1>4. QED BY <1>2, <1>3

LEMMA ValidateSearches ==
  ASSUME pi \in Pis, Searched(search, refused), ValidateConfigured, Resolved(pi.path) # Nothing
  PROVE  Searched(search', refused') /\ report' = report
<1> DEFINE t == [search EXCEPT !.step = "inspect", !.todo = {Resolved(pi.path)}]
<1>1. Whole(search) /\ pi.path # Nothing /\ search.found = <<>> /\ refused \in BOOLEAN
  BY DEF Searched, ValidateConfigured
<1>2. search' = t /\ report' = report /\ refused' = refused
  BY DEF ValidateConfigured, GoOn, Answered
<1>3. Whole(t) /\ t.step = "inspect" /\ t.todo = {Resolved(pi.path)} /\ t.found = <<>>
  BY <1>1 DEF Whole
<1> HIDE DEF t
<1>4. CandidatesIn(Right, t.found) /\ PathsOf(t.found) = {} /\ HaveTheirVideos(t.found)
  BY <1>3, NoCandidate
<1>5. Right = {Resolved(pi.path)}
  BY <1>1 DEF Right
<1>6. Inspected(t, refused)
  BY <1>3, <1>4, <1>5 DEF Inspected
<1>7. Searched(t, refused)
  BY <1>1, <1>3, <1>6 DEF Searched
<1>8. QED BY <1>2, <1>7

LEMMA NotSearchingIsSearched ==
  ASSUME NEW r \in BOOLEAN
  PROVE  Searched(NotSearching, r)
BY DEF Searched, NotSearching, Whole

(* What a step does to the search, and what it reports.                    *)
LEMMA SearchesOn ==
  ASSUME pi \in Pis, server \in Dialects, Searched(search, refused), DiscoveryNext
  PROVE  /\ pi' = pi /\ server' = server
         /\ Searched(search', refused')
         /\ report' = report \/ report'.status = "error" \/ Reports
<1>1. refused \in BOOLEAN
  BY DEF Searched
<1>2. CASE StartSearch
  BY <1>2, StartSearches DEF StartSearch
<1>3. CASE ValidateConfigured
  <2>1. CASE Resolved(pi.path) # Nothing
    BY <1>3, <2>1, ValidateSearches DEF ValidateConfigured
  <2>2. CASE Resolved(pi.path) = Nothing
    <3>1. /\ search' = NotSearching /\ report' = [status |-> "error", found |-> <<>>]
          /\ refused' = refused /\ pi' = pi /\ server' = server
      BY <1>3, <2>2 DEF ValidateConfigured, Answered
    <3>2. QED BY <1>1, <3>1, NotSearchingIsSearched
  <2>3. QED BY <2>1, <2>2
<1>4. CASE ListLogin
  <2>1. pi' = pi /\ server' = server /\ report' = report
    BY <1>4 DEF ListLogin, GoOn
  <2>2. QED BY <1>4, <2>1, ListLoginSearches
<1>5. ASSUME NEW f, ListBelow(f)
      PROVE  pi' = pi /\ server' = server /\ Searched(search', refused') /\ report' = report
  <2>1. pi' = pi /\ server' = server /\ report' = report
    BY <1>5 DEF ListBelow, GoOn
  <2>2. QED BY <1>5, <2>1, ListBelowSearches
<1>6. ASSUME NEW f, ReadScript(f)
      PROVE  pi' = pi /\ server' = server /\ Searched(search', refused') /\ report' = report
  <2>1. pi' = pi /\ server' = server /\ report' = report
    BY <1>6 DEF ReadScript, GoOn
  <2>2. QED BY <1>6, <2>1, ReadScriptSearches
<1>7. ASSUME Reports, refused' \in BOOLEAN
      PROVE  Searched(search', refused')
  BY <1>7, NotSearchingIsSearched DEF Reports
<1>8. ASSUME NEW f, Inspect(f)
      PROVE  /\ pi' = pi /\ server' = server /\ Searched(search', refused')
             /\ report' = report \/ Reports
  <2>1. pi' = pi /\ server' = server /\ refused' \in BOOLEAN
    BY <1>1, <1>8 DEF Inspect, Answered, Refusal
  <2>2. (Searched(search', refused') /\ report' = report) \/ Reports
    BY <1>8, InspectSearches
  <2>3. QED BY <1>7, <2>1, <2>2
<1>9. ASSUME NEW f, Scan(f)
      PROVE  /\ pi' = pi /\ server' = server /\ Searched(search', refused')
             /\ report' = report \/ Reports
  <2>1. pi' = pi /\ server' = server /\ refused' \in BOOLEAN
    BY <1>1, <1>9 DEF Scan, Answered, Refusal
  <2>2. (Searched(search', refused') /\ report' = report) \/ Reports
    BY <1>9, ScanSearches
  <2>3. QED BY <1>7, <2>1, <2>2
<1>10. CASE LinkLost
  BY <1>1, <1>10, NotSearchingIsSearched DEF LinkLost
<1>11. CASE SearchDies
  BY <1>1, <1>11, NotSearchingIsSearched DEF SearchDies
<1>12. QED BY <1>2, <1>3, <1>4, <1>5, <1>6, <1>8, <1>9, <1>10, <1>11 DEF DiscoveryNext, SearchStep

(* What is known does not change with the Pi unchanged.                    *)
LEMMA SamePi ==
  ASSUME pi' = pi
  PROVE  /\ \A path : Within(path)' = Within(path)
         /\ \A path, depth : FoldersBelow(path, depth)' = FoldersBelow(path, depth)
         /\ Named' = Named /\ Holding' = Holding /\ Right' = Right /\ AllScripts' = AllScripts
         /\ \A S : NamedBy(S)' = NamedBy(S)
         /\ \A todo : Ahead(todo)' = Ahead(todo)
<1>1. \A path : Within(path)' = Within(path)
  BY DEF Within
<1>2. \A path : IsFolder(path)' = IsFolder(path)
  BY DEF IsFolder
<1>3. \A path, depth : FoldersBelow(path, depth)' = FoldersBelow(path, depth)
  BY <1>2 DEF FoldersBelow
<1>4. \A path : Canonical(path)' = Canonical(path)
  BY <1>2 DEF Canonical
<1>5. \A v : Resolved(v)' = Resolved(v)
  BY <1>4 DEF Resolved
<1>6. \A S : NamedBy(S)' = NamedBy(S)
  BY <1>5 DEF NamedBy
<1>7. Named' = Named
  BY <1>3, <1>5 DEF Named
<1>8. Holding' = Holding
  BY <1>1, <1>3 DEF Holding
<1>9. Right' = Right
  BY <1>5, <1>7, <1>8 DEF Right
<1>10. AllScripts' = AllScripts
  BY <1>3 DEF AllScripts
<1>11. \A todo : Ahead(todo)' = Ahead(todo)
  BY <1>3 DEF Ahead
<1>12. QED BY <1>1, <1>3, <1>6, <1>7, <1>8, <1>9, <1>10, <1>11

LEMMA StillSearched ==
  ASSUME pi' = pi, Searched(search', refused')
  PROVE  Searched(search, refused)'
<1>1. /\ \A path : Within(path)' = Within(path)
      /\ \A path, depth : FoldersBelow(path, depth)' = FoldersBelow(path, depth)
      /\ Named' = Named /\ Holding' = Holding /\ Right' = Right /\ AllScripts' = AllScripts
      /\ \A S : NamedBy(S)' = NamedBy(S)
      /\ \A todo : Ahead(todo)' = Ahead(todo)
  BY SamePi
<1>2. SearchedBelow(search', refused') => SearchedBelow(search, refused)'
  BY <1>1 DEF SearchedBelow
<1>3. SearchedScripts(search', refused') => SearchedScripts(search, refused)'
  BY <1>1 DEF SearchedScripts, CandidatesIn, Apart, PathsOf
<1>4. HaveTheirVideos(search'.found) => HaveTheirVideos(search.found)'
  BY <1>1 DEF HaveTheirVideos
<1>5. Inspected(search', refused') => Inspected(search, refused)'
  BY <1>1, <1>4 DEF Inspected, CandidatesIn, Apart, PathsOf
<1>6. ScannedTo(search'.todo, search'.found, search'.visited, refused')
        => ScannedTo(search.todo, search.found, search.visited, refused)'
  BY <1>1, <1>4 DEF ScannedTo, CandidatesIn, Apart, PathsOf, Under
<1>7. QED BY <1>2, <1>3, <1>5, <1>6 DEF Searched, Whole

-----------------------------------------------------------------------------
DiscoverySpec == DiscoveryInit /\ [][DiscoveryNext]_discoveryVars

SearchInv == pi \in Pis /\ server \in Dialects /\ Searched(search, refused)

(* What is reported of a Pi is what its tree says, whatever listing its    *)
(* server knows, whichever way the scripts spell the folder and in         *)
(* whatever order they are read: each folder once, with the videos it has; *)
(* and if nothing was refused and the scan not cut short, all of them.     *)
THEOREM ReportsAreComplete == DiscoverySpec => ReportComplete
<1>1. DiscoveryInit => SearchInv
  <2> SUFFICES ASSUME DiscoveryInit PROVE SearchInv
    OBVIOUS
  <2>1. Searched(NotSearching, FALSE)
    BY NotSearchingIsSearched
  <2>2. QED BY <2>1 DEF DiscoveryInit, SearchInv
<1>2. SearchInv /\ [DiscoveryNext]_discoveryVars => SearchInv'
  <2> SUFFICES ASSUME SearchInv, [DiscoveryNext]_discoveryVars PROVE SearchInv'
    OBVIOUS
  <2>1. CASE DiscoveryNext
    <3>1. pi' = pi /\ server' = server /\ Searched(search', refused')
      BY <2>1, SearchesOn DEF SearchInv
    <3>2. Searched(search, refused)'
      BY <3>1, StillSearched
    <3>3. QED BY <3>1, <3>2 DEF SearchInv
  <2>2. CASE UNCHANGED discoveryVars
    <3>1. pi' = pi /\ server' = server /\ search' = search /\ refused' = refused
      BY <2>2 DEF discoveryVars
    <3>2. Searched(search', refused')
      BY <3>1 DEF SearchInv
    <3>3. Searched(search, refused)'
      BY <3>1, <3>2, StillSearched
    <3>4. QED BY <3>1, <3>3 DEF SearchInv
  <2>3. QED BY <2>1, <2>2
<1> DEFINE found == report'.found
           paths == {found[i].path : i \in DOMAIN found}
           cut == Cardinality(FoldersBelow(pi.login, 2)) > MaxScanned
           Complete == (report' # report /\ report'.status # "error") =>
                     /\ Cardinality(paths) = Len(found)
                     /\ paths \subseteq Right \cup Holding
                     /\ report'.status = Status(found)
                     /\ \A i \in DOMAIN found :
                          found[i].videos = VideosIn(Within(found[i].path)) \/ refused'
                     /\ ~refused' /\ ~cut => paths = Right
<1>3. SearchInv /\ [DiscoveryNext]_discoveryVars => [Complete]_discoveryVars
  <2> SUFFICES ASSUME SearchInv, DiscoveryNext, report' # report, report'.status # "error"
               PROVE  Complete
    BY DEF discoveryVars
  <2>1. Reports
    BY SearchesOn DEF SearchInv
  <2>2. PICK fs : /\ report' = [status |-> Status(fs), found |-> fs]
                  /\ Reported(fs, refused')
    BY <2>1 DEF Reports
  <2>3. report'.found = fs /\ report'.status = Status(fs) /\ paths = PathsOf(fs)
    BY <2>2 DEF PathsOf
  <2>4. QED BY <2>2, <2>3 DEF Reported
<1>4. QED BY <1>1, <1>2, <1>3, PTL DEF DiscoverySpec, ReportComplete

-----------------------------------------------------------------------------
(* All the parts                                                           *)

(* The database, a copy and the backups hold what a commit made, or a      *)
(* mixture of two files.                                                   *)
HeldOK ==
  LET files == Contents \cup {Torn} IN
  /\ commits \in Contents
  /\ dbfile.main \in files
  /\ dbfile.wal \in files \cup {NoLog}
  /\ dbfile.beat \in {"none", "fresh", "stale", "stopped"}
  /\ taking \in files \cup {NoLog}
  /\ backups \in SUBSET [holds : files, age : 0 .. Retention + 1]
  /\ restoring.step \in {"idle", "checked", "closed", "unlinked", "copied"}
  /\ restoring.step # "idle" => restoring.from \in files

LEMMA HeldInitially == BackupInit => HeldOK
BY BackupAssumption DEF BackupInit, HeldOK, Contents, NotRestoring

LEMMA BackupsHeld ==
  ASSUME BackupOK, HeldOK, CopyPages \/ Publish \/ DropCopy \/ Day
  PROVE  HeldOK'
<1> DEFINE files == Contents \cup {Torn}
<1>0. Retention \in Nat
  BY BackupAssumption
<1>1. taking' \in files \cup {NoLog} /\ UNCHANGED <<dbfile, commits, restoring>>
  BY DEF CopyPages, Publish, DropCopy, Day, HeldOK, Holds
<1>2. backups' \in SUBSET [holds : files, age : 0 .. Retention + 1]
  <2>1. CASE CopyPages \/ DropCopy
    BY <2>1 DEF CopyPages, DropCopy, HeldOK
  <2>2. CASE Publish
    <3>1. [holds |-> taking, age |-> 0] \in [holds : files, age : 0 .. Retention + 1]
      BY <1>0, <2>2 DEF Publish, HeldOK
    <3>2. QED BY <2>2, <3>1 DEF Publish, HeldOK
  <2>3. CASE Day
    <3>1. ASSUME NEW b \in backups'
          PROVE  b \in [holds : files, age : 0 .. Retention + 1]
      <4>1. PICK c \in backups : b = [c EXCEPT !.age = @ + 1]
        BY <2>3, <3>1 DEF Day
      <4>2. b.age <= Retention + 1
        BY <2>3, <3>1 DEF Day
      <4>3. c \in [holds : files, age : 0 .. Retention + 1]
        BY DEF HeldOK
      <4>4. QED BY <1>0, <4>1, <4>2, <4>3
    <3>2. QED BY <3>1
  <2>4. QED BY <2>1, <2>2, <2>3
<1>3. QED BY <1>1, <1>2 DEF HeldOK

LEMMA HeldKept ==
  ASSUME BackupOK, HeldOK, [BackupNext]_backupVars
  PROVE  HeldOK'
<1>1. ASSUME NEW s \in Services, Start(s) \/ Kill(s)
      PROVE  HeldOK'
  <2>1. UNCHANGED <<dbfile, commits, taking, backups>>
        /\ restoring'.step = restoring.step /\ restoring'.from = restoring.from
    BY <1>1 DEF Start, Kill, Noticed, BackupOK, RestoreOK
  <2>2. QED BY <2>1 DEF HeldOK
<1>2. ASSUME NEW s \in Services, Stop(s)
      PROVE  HeldOK'
  BY <1>2 DEF Stop, Beaten, Closed, Holds, HeldOK, BackupOK, ServicesOK
<1>3. ASSUME NEW s \in Services, Commit(s)
      PROVE  HeldOK'
  BY <1>3, BackupAssumption DEF Commit, HeldOK, Contents, BackupOK, ServicesOK
<1>4. CASE FirstBeat \/ Drain \/ BeatAges
  BY <1>4 DEF FirstBeat, Drain, BeatAges, Beaten, HeldOK, BackupOK, ServicesOK
<1>5. ASSUME NEW b \in backups, CheckWorker(b)
      PROVE  HeldOK'
  BY <1>5 DEF CheckWorker, HeldOK
<1>6. CASE Confirm \/ Unlink \/ CopyBackup
  <2>1. /\ UNCHANGED <<commits, taking, backups>>
        /\ restoring'.step \in {"closed", "unlinked", "copied"}
        /\ restoring'.from = restoring.from /\ restoring.step # "idle"
    BY <1>6 DEF Confirm, Unlink, CopyBackup, BackupOK, RestoreOK
  <2>2. /\ dbfile'.main \in Contents \cup {Torn}
        /\ dbfile'.wal \in Contents \cup {Torn, NoLog}
        /\ dbfile'.beat = dbfile.beat
    BY <1>6 DEF Confirm, Unlink, CopyBackup, Closed, Holds, HeldOK, BackupOK, ServicesOK
  <2>3. QED BY <2>1, <2>2 DEF HeldOK
<1>7. CASE Replace \/ GiveUp
  BY <1>7 DEF Replace, GiveUp, NotRestoring, HeldOK
<1>8. CASE UNCHANGED backupVars
  BY <1>8 DEF backupVars, HeldOK
<1>9. QED BY <1>1, <1>2, <1>3, <1>4, <1>5, <1>6, <1>7, <1>8, BackupsHeld DEF BackupNext

LEMMA BackupTypes == BackupOK /\ HeldOK => BackupTypeOK
BY DEF BackupOK, ServicesOK, HeldOK, BackupTypeOK, ServicePhases

(* A search has a step, whatever else it knows.                            *)
SearchOK == DiscoveryTypeOK /\ DOMAIN search = DOMAIN NotSearching

LEMMA SearchInitially == DiscoveryInit => SearchOK
<1> SUFFICES ASSUME DiscoveryInit PROVE SearchOK
  OBVIOUS
<1>1. search = NotSearching /\ report.status = "none" /\ refused = FALSE
  BY DEF DiscoveryInit, NoReport
<1>2. search.step = "idle"
  BY <1>1 DEF NotSearching
<1>3. QED BY <1>1, <1>2 DEF SearchOK, DiscoveryTypeOK

LEMMA Concluded ==
  ASSUME NEW found, Conclude(found)
  PROVE  /\ search'.step = "idle" /\ DOMAIN search' = DOMAIN NotSearching
         /\ report'.status \in {"found", "ambiguous", "not_found"}
BY DEF Conclude, NotSearching, Status

SearchSteps == {"idle", "config", "login", "below", "read", "inspect", "scan"}

LEMMA AfterScriptsStep ==
  ASSUME NEW s, DOMAIN s = DOMAIN NotSearching
  PROVE  AfterScripts(s).step \in SearchSteps /\ DOMAIN AfterScripts(s) = DOMAIN NotSearching
BY DEF AfterScripts, NotSearching, SearchSteps

LEMMA SearchKept ==
  ASSUME SearchOK, [DiscoveryNext]_discoveryVars
  PROVE  SearchOK'
<1>0. /\ search.step \in SearchSteps
      /\ report.status \in {"none", "found", "ambiguous", "not_found", "error"}
      /\ refused \in BOOLEAN
      /\ DOMAIN search = DOMAIN NotSearching
  BY DEF SearchOK, DiscoveryTypeOK, SearchSteps
<1>1. refused' \in BOOLEAN
  BY <1>0 DEF DiscoveryNext, SearchStep, StartSearch, ValidateConfigured, ListLogin, ListBelow, ReadScript,
              Inspect, Scan, LinkLost, SearchDies, Answered, Refusal, discoveryVars
<1>2. ASSUME NEW s, GoOn(s), s.step \in SearchSteps, DOMAIN s = DOMAIN NotSearching
      PROVE  SearchOK'
  BY <1>0, <1>1, <1>2 DEF GoOn, SearchOK, DiscoveryTypeOK, SearchSteps
<1>3. ASSUME NEW found, Conclude(found)
      PROVE  SearchOK'
  BY <1>1, <1>3, Concluded DEF SearchOK, DiscoveryTypeOK
<1>4. CASE StartSearch \/ LinkLost \/ SearchDies
  BY <1>0, <1>1, <1>4 DEF StartSearch, LinkLost, SearchDies, SearchOK, DiscoveryTypeOK, NotSearching,
                          SearchSteps
<1>5. CASE ValidateConfigured
  <2>1. CASE Resolved(pi.path) = Nothing
    BY <1>1, <1>5, <2>1 DEF ValidateConfigured, SearchOK, DiscoveryTypeOK, NotSearching
  <2>2. CASE Resolved(pi.path) # Nothing
    BY <1>0, <1>2, <1>5, <2>2 DEF ValidateConfigured, NotSearching, SearchSteps
  <2>3. QED BY <2>1, <2>2
<1>6. CASE ListLogin
  <2> DEFINE entries == Listing(pi.login)
             listed == [search EXCEPT !.step = "below", !.todo = FoldersIn(entries),
                                      !.scripts = ScriptsIn(entries)]
  <2>1. \/ GoOn(listed) \/ GoOn(AfterScripts(listed)) \/ GoOn(AfterScripts(search))
    BY <1>6, Zenon DEF ListLogin
  <2>2. listed.step = "below" /\ DOMAIN listed = DOMAIN NotSearching
    BY <1>0 DEF NotSearching
  <2> HIDE DEF listed
  <2>3. QED BY <1>0, <1>2, <2>1, <2>2, AfterScriptsStep DEF SearchSteps
<1>7. ASSUME NEW f, ListBelow(f)
      PROVE  SearchOK'
  <2> DEFINE rest == [search EXCEPT !.todo = @ \ {f}]
             more == [rest EXCEPT !.scripts = @ \cup ScriptsIn(Listing(f))]
  <2>1. \E s \in {rest, more} : GoOn(IF s.todo = {} THEN AfterScripts(s) ELSE s)
    BY <1>7, Zenon DEF ListBelow
  <2>2. \A s \in {rest, more} : s.step = search.step /\ DOMAIN s = DOMAIN NotSearching
    BY <1>0 DEF NotSearching
  <2> HIDE DEF rest, more
  <2>3. QED BY <1>0, <1>2, <2>1, <2>2, AfterScriptsStep
<1>8. ASSUME NEW f, ReadScript(f)
      PROVE  SearchOK'
  <2>1. \E s : DOMAIN s = DOMAIN NotSearching /\ GoOn(AfterScripts(s))
    BY <1>0, <1>8 DEF ReadScript
  <2>2. QED BY <1>2, <2>1, AfterScriptsStep
<1>9. ASSUME NEW f, Inspect(f)
      PROVE  SearchOK'
  <2>1. \E found : \/ Conclude(found)
                   \/ GoOn([search EXCEPT !.todo = @ \ {f}, !.found = found])
    BY <1>9 DEF Inspect
  <2>2. \A found : LET s == [search EXCEPT !.todo = @ \ {f}, !.found = found] IN
                     s.step = search.step /\ DOMAIN s = DOMAIN NotSearching
    BY <1>0 DEF NotSearching
  <2>3. QED BY <1>0, <1>2, <1>3, <2>1, <2>2
<1>10. ASSUME NEW at, Scan(at)
       PROVE  SearchOK'
  <2>1. \E found, todo : \/ Conclude(found)
                         \/ GoOn([search EXCEPT !.todo = todo, !.found = found, !.visited = @ + 1])
    BY <1>10 DEF Scan
  <2>2. \A found, todo : LET s == [search EXCEPT !.todo = todo, !.found = found, !.visited = @ + 1] IN
                           s.step = search.step /\ DOMAIN s = DOMAIN NotSearching
    BY <1>0 DEF NotSearching
  <2>3. QED BY <1>0, <1>2, <1>3, <2>1, <2>2
<1>11. CASE UNCHANGED discoveryVars
  BY <1>0, <1>11 DEF discoveryVars, SearchOK, DiscoveryTypeOK
<1>12. QED BY <1>4, <1>5, <1>6, <1>7, <1>8, <1>9, <1>10, <1>11 DEF DiscoveryNext, SearchStep

(* Each part as its own module describes it: a step of one leaves the      *)
(* others alone.                                                           *)
PartsInv ==
  /\ InventoryInv
  /\ SearchOK
  /\ BackupOK /\ HeldOK
  /\ LocalTimeInv
  /\ AccessInv
  /\ LeaseInv

LEMMA PartsInitially == Init => PartsInv
<1> SUFFICES ASSUME Init PROVE PartsInv
  OBVIOUS
<1>1. InventoryInit /\ DiscoveryInit /\ BackupInit /\ LocalTimeInit /\ AccessInit /\ LeaseInit
  BY DEF Init
<1>2. QED
  BY <1>1, InitInventoryInv, SearchInitially, BackupInitially, HeldInitially, LocalTimeInitially,
     AccessInitially, LeaseInitInv DEF PartsInv

LEMMA PartsStep ==
  ASSUME [Next]_partsVars
  PROVE  /\ [InventoryNext]_inventoryVars
         /\ [DiscoveryNext]_discoveryVars
         /\ [BackupNext]_backupVars
         /\ [LocalTimeNext]_localTimeVars
         /\ [AccessNext]_accessVars
         /\ [LeaseNext]_leaseVars
<1>1. CASE Next
  BY <1>1, Zenon DEF Next, InventoryStep, LeaseStep
<1>2. CASE UNCHANGED partsVars
  BY <1>2 DEF partsVars
<1>3. QED BY <1>1, <1>2

(* The panel as a whole keeps to its types: requests and loads of the      *)
(* inventory, the search of a Pi, backups and restores, the schedule's     *)
(* times, and the leases of a store, however each of them goes.            *)
THEOREM PartsTypeCorrect == Spec => []PartsTypeOK
<1>1. PartsInv /\ [Next]_partsVars => PartsInv'
  BY PartsStep, NextInventoryInv, SearchKept, BackupSteps, HeldKept, LocalTimeKept, AccessKept, NextInv
     DEF PartsInv
<1>2. PartsInv => PartsTypeOK
  <2>1. LocalTimeInv => LocalTimeTypeOK
    BY DEF LocalTimeInv, LocalTimeTypeOK
  <2>2. QED BY <2>1, BackupTypes
            DEF PartsInv, PartsTypeOK, InventoryInv, SearchOK, AccessInv, LeaseInv
<1>3. QED BY <1>1, <1>2, PartsInitially, PTL DEF Spec
=============================================================================
