--------------------------- MODULE SettlingProofs ---------------------------
(***************************************************************************)
(* What a plan that is carried out leaves: its actions undo nothing, so    *)
(* the folders hold what they did, without what it takes and with what it  *)
(* puts; and the plan made of them then is empty.                          *)
(***************************************************************************)
EXTENDS PlannerProofs

-----------------------------------------------------------------------------
(* Carrying out a plan                                                     *)

Acts(s) == {s[i] : i \in 1 .. Len(s)}

(* The names that some actions take from a folder and put into it; the     *)
(* .part of an upload goes when the file gets its name.                    *)
RootTaken(A)  == {a.src : a \in {b \in A : b.kind \in Takes}}
RootPut(A)    == {a.dst : a \in {b \in A : b.kind \in Puts}}
StagingPut(A) == {a.dst : a \in {b \in A : b.kind \in Staging}}
FromStaging   == StagingDeletes \cup {"activate"}
StagingTaken(A) == {a.src : a \in {b \in A : b.kind \in FromStaging}}
                     \cup {Part(a.video.sha) : a \in {b \in A : b.kind = "upload"}}

(* What is in the folders when they are done, if none of them takes what   *)
(* an earlier one put into the video folder, or puts into staging what an  *)
(* earlier one took.                                                       *)
RootAfter(names, A)    == (names \ RootTaken(A)) \cup RootPut(A)
StagingAfter(names, A) == (names \cup StagingPut(A)) \ StagingTaken(A)

Undoes(b, a) ==
  \/ a.kind \in Puts /\ b.kind \in Takes /\ a.dst = b.src
  \/ a.kind \in FromStaging /\ b.kind \in Staging /\ a.src = b.dst

Orderly(s) == \A i, j \in 1 .. Len(s) : i < j => ~ Undoes(s[j], s[i])

NoneUndoes(B, A) == \A a \in A, b \in B : ~ Undoes(b, a)

LEMMA JoinedActs ==
  ASSUME NEW T, NEW x \in Seq(T), NEW y \in Seq(T)
  PROVE  x \o y \in Seq(T) /\ Acts(x \o y) = Acts(x) \cup Acts(y)
<1> DEFINE z == x \o y
           m == Len(x)
           n == Len(y)
<1>1. z \in Seq(T) /\ Joins(x, y, z)
  BY Joined
<1> HIDE DEF z
<1>2. /\ m \in Nat /\ n \in Nat /\ Len(z) = m + n
      /\ \A i \in 1 .. m : z[i] = x[i]
      /\ \A i \in m + 1 .. m + n : i - m \in 1 .. n /\ z[i] = y[i - m]
  BY <1>1 DEF Joins
<1> HIDE DEF m, n
<1>3. \A i \in 1 .. m + n : i \in 1 .. m \/ i \in m + 1 .. m + n
  BY <1>2
<1>4. Acts(x) = {x[i] : i \in 1 .. m} /\ Acts(y) = {y[i] : i \in 1 .. n} /\ Acts(z) = {z[i] : i \in 1 .. m + n}
  BY <1>2 DEF Acts, m, n
<1>5. \A i \in 1 .. n : m + i \in m + 1 .. m + n /\ (m + i) - m = i /\ m + i \in 1 .. m + n
  BY <1>2
<1>6. \A i \in 1 .. m : i \in 1 .. m + n
  BY <1>2
<1>7. ASSUME NEW a \in Acts(z) PROVE a \in Acts(x) \cup Acts(y)
  BY <1>2, <1>3, <1>4
<1>8. ASSUME NEW a \in Acts(x) PROVE a \in Acts(z)
  BY <1>2, <1>4, <1>6
<1>9. ASSUME NEW a \in Acts(y) PROVE a \in Acts(z)
  <2>1. PICK i \in 1 .. n : a = y[i]
    BY <1>4, <1>9
  <2>2. z[m + i] = y[i]
    BY <1>2, <1>5
  <2>3. QED BY <1>4, <1>5, <2>1, <2>2
<1>10. QED BY <1>1, <1>7, <1>8, <1>9 DEF z

LEMMA OrderlyJoined ==
  ASSUME NEW T, NEW x \in Seq(T), NEW y \in Seq(T),
         Orderly(x), Orderly(y), NoneUndoes(Acts(y), Acts(x))
  PROVE  x \o y \in Seq(T) /\ Orderly(x \o y) /\ Acts(x \o y) = Acts(x) \cup Acts(y)
<1> DEFINE z == x \o y
           m == Len(x)
           n == Len(y)
<1>1. z \in Seq(T) /\ Joins(x, y, z)
  BY Joined
<1> HIDE DEF z
<1>2. /\ m \in Nat /\ n \in Nat /\ Len(z) = m + n
      /\ \A i \in 1 .. m : z[i] = x[i]
      /\ \A i \in m + 1 .. m + n : i - m \in 1 .. n /\ z[i] = y[i - m]
  BY <1>1 DEF Joins
<1> HIDE DEF m, n
<1>3. \A i \in 1 .. m + n : i \in 1 .. m \/ i \in m + 1 .. m + n
  BY <1>2
<1>4. Acts(x) = {x[i] : i \in 1 .. m} /\ Acts(y) = {y[i] : i \in 1 .. n} /\ Acts(z) = {z[i] : i \in 1 .. m + n}
  BY <1>2 DEF Acts, m, n
<1>5. \A i \in 1 .. n : m + i \in m + 1 .. m + n /\ (m + i) - m = i /\ m + i \in 1 .. m + n
  BY <1>2
<1>6. \A i \in 1 .. m : i \in 1 .. m + n
  BY <1>2
<1>7. Acts(z) = Acts(x) \cup Acts(y)
  BY JoinedActs DEF z
<1>8. ASSUME NEW i \in 1 .. m + n, NEW j \in 1 .. m + n, i < j PROVE ~ Undoes(z[j], z[i])
  <2>1. CASE j \in 1 .. m
    <3>1. i \in 1 .. m
      BY <1>2, <1>8, <2>1
    <3>2. QED BY <1>2, <1>8, <2>1, <3>1 DEF Orderly, m
  <2>2. CASE i \in m + 1 .. m + n
    <3>1. j \in m + 1 .. m + n
      BY <1>2, <1>8, <2>2
    <3>2. i - m \in 1 .. n /\ j - m \in 1 .. n /\ i - m < j - m
      BY <1>2, <1>8, <2>2, <3>1
    <3>3. z[i] = y[i - m] /\ z[j] = y[j - m]
      BY <1>2, <2>2, <3>1
    <3>4. QED BY <3>2, <3>3 DEF Orderly, n
  <2>3. CASE i \in 1 .. m /\ j \in m + 1 .. m + n
    <3>1. z[i] \in Acts(x) /\ z[j] \in Acts(y)
      BY <1>2, <1>4, <2>3
    <3>2. QED BY <3>1 DEF NoneUndoes
  <2>4. QED BY <1>3, <2>1, <2>2, <2>3
<1>9. Orderly(z)
  BY <1>2, <1>8 DEF Orderly
<1>10. QED BY <1>1, <1>7, <1>9 DEF z

(* A list of actions none of which undoes another.                         *)
LEMMA OrderlyAlone ==
  ASSUME NEW s, NoneUndoes(Acts(s), Acts(s))
  PROVE  Orderly(s)
BY DEF NoneUndoes, Orderly, Acts

(* The creation of the staging folder undoes nothing.                      *)
LEMMA OrderlyWithStagingDir ==
  ASSUME NEW inp, InputOK(inp), NEW s \in Seq(ActionsOf(inp)), NEW exists, Orderly(s)
  PROVE  /\ Orderly(WithStagingDir(s, exists))
         /\ RootTaken(Acts(WithStagingDir(s, exists))) = RootTaken(Acts(s))
         /\ RootPut(Acts(WithStagingDir(s, exists))) = RootPut(Acts(s))
         /\ StagingPut(Acts(WithStagingDir(s, exists))) = StagingPut(Acts(s))
         /\ StagingTaken(Acts(WithStagingDir(s, exists))) = StagingTaken(Acts(s))
<1> DEFINE needing == {i \in DOMAIN s : s[i].kind \in {"upload", "deactivate"}}
           k == Min(needing)
           x == MkdirStaging
           T == ActionsOf(inp)
<1>1. Len(s) \in Nat /\ DOMAIN s = 1 .. Len(s)
  OBVIOUS
<1>2. CASE exists \/ needing = {}
  <2>1. WithStagingDir(s, exists) = s
    BY <1>2 DEF WithStagingDir
  <2>2. QED BY <2>1
<1>3. CASE ~ (exists \/ needing = {})
  <2> DEFINE t == InsertAt(s, k, x)
  <2>1. WithStagingDir(s, exists) = t
    BY <1>3 DEF WithStagingDir
  <2>2. needing \subseteq Nat /\ needing \subseteq 1 .. Len(s)
    BY <1>1
  <2> HIDE DEF needing
  <2>3. k \in needing
    BY <1>3, <2>2, LeastNumber
  <2> HIDE DEF k
  <2>4. k \in 1 .. Len(s)
    BY <2>2, <2>3
  <2>5. x \in T /\ x.kind = "mkdir_staging"
    BY QuietActions DEF Quiet, MkdirStaging, Act
  <2> HIDE DEF x, t, T
  <2>6. PICK O : Inserted(s, k, x, t, O)
    BY <2>4, <2>5, InsertedAt DEF t, T
  <2>7. x.kind \notin Takes \cup Puts \cup Staging \cup FromStaging \cup {"upload"}
    BY <2>5 DEF Takes, Puts, Staging, FromStaging, StagingDeletes
  <2>8. Acts(t) = Acts(s) \cup {x}
    <3>1. ASSUME NEW i \in 1 .. Len(t) PROVE t[i] \in Acts(s) \cup {x}
      BY <2>6 DEF Inserted, Acts
    <3>2. ASSUME NEW l \in 1 .. Len(s) PROVE s[l] \in Acts(t)
      BY <2>6 DEF Inserted, Acts
    <3>3. x \in Acts(t)
      <4>1. k \in 1 .. Len(t) /\ t[k] = x
        BY <1>1, <2>4, <2>6 DEF Inserted
      <4>2. QED BY <4>1 DEF Acts
    <3>4. QED BY <3>1, <3>2, <3>3 DEF Acts
  <2>9. ASSUME NEW i \in 1 .. Len(t), NEW j \in 1 .. Len(t), i < j PROVE ~ Undoes(t[j], t[i])
    <3>1. CASE i = k \/ j = k
      <4>1. t[i] = x \/ t[j] = x
        BY <2>6, <3>1 DEF Inserted
      <4>2. QED BY <2>7, <4>1 DEF Undoes
    <3>2. CASE i # k /\ j # k
      <4>1. O[i] \in 1 .. Len(s) /\ O[j] \in 1 .. Len(s) /\ O[i] < O[j] /\ t[i] = s[O[i]] /\ t[j] = s[O[j]]
        BY <2>6, <2>9, <3>2 DEF Inserted
      <4>2. QED BY <4>1 DEF Orderly
    <3>3. QED BY <3>1, <3>2
  <2>10. Orderly(t)
    BY <2>9 DEF Orderly
  <2>11. RootTaken(Acts(t)) = RootTaken(Acts(s)) /\ RootPut(Acts(t)) = RootPut(Acts(s))
    <3>1. {b \in Acts(t) : b.kind \in Takes} = {b \in Acts(s) : b.kind \in Takes}
      BY <2>7, <2>8
    <3>2. {b \in Acts(t) : b.kind \in Puts} = {b \in Acts(s) : b.kind \in Puts}
      BY <2>7, <2>8
    <3>3. QED BY <3>1, <3>2 DEF RootTaken, RootPut
  <2>12. StagingPut(Acts(t)) = StagingPut(Acts(s)) /\ StagingTaken(Acts(t)) = StagingTaken(Acts(s))
    <3>1. {b \in Acts(t) : b.kind \in Staging} = {b \in Acts(s) : b.kind \in Staging}
      BY <2>7, <2>8
    <3>2. {b \in Acts(t) : b.kind \in FromStaging} = {b \in Acts(s) : b.kind \in FromStaging}
      BY <2>7, <2>8
    <3>3. {b \in Acts(t) : b.kind = "upload"} = {b \in Acts(s) : b.kind = "upload"}
      BY <2>7, <2>8
    <3>4. QED BY <3>1, <3>2, <3>3 DEF StagingPut, StagingTaken
  <2>13. QED BY <2>1, <2>10, <2>11, <2>12
<1>4. QED BY <1>2, <1>3

-----------------------------------------------------------------------------
(* What a plan does when there is no limit                                 *)

(* The .part files that are too old, unless they are about to be resumed.  *)
Stale(d) ==
  {p \in d.c.parts : /\ d.inp.now - d.inp.remote.staging[p].mtime > PartMaxAge
                     /\ \A m \in 1 .. Len(d.items) :
                          Missing(d.items[m].video, d.c) => d.items[m].video.sha # p.sha}

(* What staging holds after the main part, of what was there or is sent.   *)
SentItems(d)   == {m \in 1 .. Len(d.items) : Missing(d.items[m].video, d.c)}
ShownItems(d)  == {m \in 1 .. Len(d.items) : d.items[m].video.id \notin DOMAIN d.c.managed}
ReadyIn(d) ==
  ((d.c.staged \cap Needed(d)) \cup {d.items[m].video.sha : m \in SentItems(d)})
    \ {d.items[m].video.sha : m \in ShownItems(d)}

DoClear(d) ==
  {DeleteStaged(x) : x \in d.c.corrupt \cup (d.c.staged \ Needed(d)) \cup d.c.orphan}
    \cup {DeletePart(p.sha) : p \in Stale(d)}
DoSend(d)  == {Upload(d.items[m].video) : m \in SentItems(d)}
DoShow(d)  == {Activate(d.items[m]) : m \in ShownItems(d)}
DoDrop(d)  == {DeleteActive(n) : n \in d.extra}
DoMove(d)  == {Move(d, d.items[m]) : m \in {k \in 1 .. Len(d.items) : Moves(d, k)}}
Asked(d)   == {n \in d.c.legacy \cap d.inp.requests : ~ d.inp.remote.root[n].isDir}
OutOf(d, staged) ==
  {Retirement(d, staged, x) : x \in CopiesOf(d.c, DOMAIN d.c.managed \ Placed(d))}
    \cup {DeleteLegacy(n) : n \in Asked(d)}
DoRemove(d) == IF Lasts(d, {}) THEN OutOf(d, ReadyIn(d)) ELSE {}
MovedOut(d) == {a.dst.sha : a \in {b \in DoRemove(d) : b.kind = "deactivate"}}
AheadOnes(d) ==
  {k \in 1 .. Len(d.keep) :
     /\ Missing(d.keep[k].video, d.c)
     /\ d.keep[k].video.sha
          \notin ReadyIn(d) \cup MovedOut(d) \cup BusyContents(d.inp.remote, d.inp.now)}
DoStage(d) == {Upload(d.keep[k].video) : k \in AheadOnes(d)}

Doings(d) ==
  DoClear(d) \cup DoSend(d) \cup DoShow(d) \cup DoDrop(d) \cup DoMove(d) \cup DoRemove(d) \cup DoStage(d)

(* s does the actions of X, and undoes nothing.                            *)
Does(s, T, X) == s \in Seq(T) /\ Orderly(s) /\ Acts(s) = X

LEMMA DoesBoth ==
  ASSUME NEW T, NEW x, NEW X, Does(x, T, X), NEW y, NEW Y, Does(y, T, Y), NoneUndoes(Y, X)
  PROVE  Does(x \o y, T, X \cup Y)
BY OrderlyJoined DEF Does

LEMMA DoesAlone ==
  ASSUME NEW T, NEW s \in Seq(T), NoneUndoes(Acts(s), Acts(s))
  PROVE  Does(s, T, Acts(s))
BY OrderlyAlone DEF Does

LEMMA ListOf ==
  ASSUME NEW T, NEW n \in Nat, NEW g, g = [i \in 1 .. n |-> g[i]], \A i \in 1 .. n : g[i] \in T
  PROVE  g \in Seq(T) /\ Len(g) = n /\ Acts(g) = {g[i] : i \in 1 .. n}
<1>1. g \in [1 .. n -> T]
  OBVIOUS
<1>2. g \in Seq(T) /\ Len(g) = n
  BY <1>1
<1>3. QED BY <1>2 DEF Acts

LEMMA PickedAreSome ==
  ASSUME NEW X, NEW items \in Seq(X), NEW I, I \subseteq DOMAIN items
  PROVE  Some(Picked(items, I), items, I)
<1> DEFINE s == Picked(items, I)
           n == Cardinality(I)
           at == Ascending(I)
<1>1. /\ n \in Nat /\ at \in [1 .. n -> I]
      /\ \A x \in I : \E i \in 1 .. n : at[i] = x
      /\ s = [k \in 1 .. n |-> items[at[k]]]
      /\ s \in Seq(X) /\ Len(s) = n
  BY PickedInOrder
<1> HIDE DEF s, n, at
<1>2. DOMAIN s = 1 .. n /\ \A k \in 1 .. n : s[k] = items[at[k]] /\ at[k] \in I
  BY <1>1
<1>3. \A m \in I : \E k \in 1 .. n : s[k] = items[m]
  BY <1>1, <1>2
<1>4. Some(s, items, I)
  BY <1>1, <1>2, <1>3 DEF Some
<1>5. QED BY <1>4 DEF s

(* What a plan has to send, as a set.                                      *)
LEMMA RequiredAre ==
  ASSUME NEW inp, InputOK(inp), NEW d, DraftOK(inp, d)
  PROVE  /\ Required(d) \in Seq(inp.library)
         /\ \A i \in DOMAIN Required(d) : \E m \in SentItems(d) : Required(d)[i] = d.items[m].video
         /\ \A m \in SentItems(d) : \E i \in DOMAIN Required(d) : Required(d)[i] = d.items[m].video
<1> DEFINE I == SentItems(d)
           s == Picked(d.items, I)
           r == Required(d)
<1>1. d.items \in Seq(ItemsFor(inp)) /\ DOMAIN d.items = 1 .. Len(d.items)
  BY DraftItems
<1>2. I = {m \in DOMAIN d.items : Missing(d.items[m].video, d.c)}
  BY <1>1 DEF SentItems
<1>3. r = [k \in DOMAIN s |-> s[k].video]
  BY <1>2 DEF Required, Mapped, ItemsWith
<1>4. I \subseteq DOMAIN d.items
  BY <1>2
<1> HIDE DEF I, s
<1>5. /\ DOMAIN s = 1 .. Len(s)
      /\ \A k \in 1 .. Len(s) : \E m \in I : s[k] = d.items[m]
      /\ \A m \in I : \E k \in 1 .. Len(s) : s[k] = d.items[m]
  <2>1. Some(s, d.items, I)
    BY <1>1, <1>4, PickedAreSome DEF s
  <2>2. QED BY <2>1 DEF Some
<1>6. DOMAIN r = DOMAIN s /\ \A k \in DOMAIN s : r[k] = s[k].video
  BY <1>3
<1>7. r \in Seq(inp.library)
  BY RequiredIsMissing
<1> HIDE DEF r
<1>8. \A i \in DOMAIN r : \E m \in I : r[i] = d.items[m].video
  BY <1>5, <1>6
<1>9. \A m \in I : \E i \in DOMAIN r : r[i] = d.items[m].video
  BY <1>5, <1>6
<1>10. QED BY <1>7, <1>8, <1>9 DEF I, r

LEMMA CleanupDoes ==
  ASSUME NEW inp, InputOK(inp), NEW d, DraftOK(inp, d)
  PROVE  Cleanup(d, Required(d)) \in Seq(ActionsOf(inp)) /\ Acts(Cleanup(d, Required(d))) = DoClear(d)
<1> DEFINE required == Required(d)
           overdue == {p \in d.c.parts : /\ d.inp.now - d.inp.remote.staging[p].mtime > PartMaxAge
                                         /\ \A i \in DOMAIN required : required[i].sha # p.sha}
           P       == {p.sha : p \in overdue}
           parts   == Ascending(P)
           c       == Ascending(d.c.corrupt)
           u       == Ascending(d.c.staged \ Needed(d))
           o       == Ascending(d.c.orphan)
           whole   == c \o u \o o
           W       == [i \in DOMAIN whole |-> DeleteStaged(whole[i])]
           X       == [i \in DOMAIN parts |-> DeletePart(parts[i])]
           T       == ActionsOf(inp)
<1>1. Cleanup(d, required) = W \o X
  BY DEF Cleanup, Mapped
<1>2. overdue = Stale(d)
  <2>1. \A p : (\A i \in DOMAIN required : required[i].sha # p.sha)
           <=> \A m \in 1 .. Len(d.items) : Missing(d.items[m].video, d.c) => d.items[m].video.sha # p.sha
    <3> HIDE DEF required
    <3>1. /\ \A i \in DOMAIN required : \E m \in SentItems(d) : required[i] = d.items[m].video
          /\ \A m \in SentItems(d) : \E i \in DOMAIN required : required[i] = d.items[m].video
      BY RequiredAre DEF required
    <3>2. \A m \in 1 .. Len(d.items) : m \in SentItems(d) <=> Missing(d.items[m].video, d.c)
      BY DEF SentItems
    <3>3. SentItems(d) \subseteq 1 .. Len(d.items)
      BY DEF SentItems
    <3>4. QED BY <3>1, <3>2, <3>3
  <2>2. QED BY <2>1 DEF Stale
<1>3. NumbersFinite(P)
  <2>1. overdue \subseteq DOMAIN inp.remote.staging
    BY DEF DraftOK, ClassOK
  <2> HIDE DEF overdue
  <2>2. QED BY <2>1, StagedNumbers
<1>4. NumbersFinite(d.c.corrupt) /\ NumbersFinite(d.c.staged \ Needed(d)) /\ NumbersFinite(d.c.orphan)
  <2>1. d.c.staged \ Needed(d) \in SUBSET d.c.staged
    OBVIOUS
  <2>2. NumbersFinite(d.c.staged) /\ NumbersFinite(d.c.corrupt) /\ NumbersFinite(d.c.orphan)
    BY DEF DraftOK, ClassOK
  <2>3. QED BY <2>1, <2>2, FS_Subset DEF NumbersFinite
<1>5. ASSUME NEW S, NumbersFinite(S)
      PROVE  /\ Ascending(S) \in Seq(Int) /\ Acts(Ascending(S)) = S
             /\ DOMAIN Ascending(S) = 1 .. Len(Ascending(S)) /\ Len(Ascending(S)) \in Nat
  <2> DEFINE s == Ascending(S)
  <2>1. Enumerates(s, S) /\ S \subseteq Int
    BY <1>5, AscendingEnumerates DEF NumbersFinite
  <2>2. s \in Seq(Int) /\ Len(s) \in Nat /\ \A k \in 1 .. Len(s) : s[k] \in S
    BY <2>1, EnumeratedIn
  <2> HIDE DEF s
  <2>3. \A x \in S : \E i \in 1 .. Len(s) : s[i] = x
    BY <2>1 DEF Enumerates
  <2>4. DOMAIN s = 1 .. Len(s)
    BY <2>2
  <2>5. Acts(s) = S
    BY <2>2, <2>3 DEF Acts
  <2>6. QED BY <2>2, <2>4, <2>5 DEF s
<1> HIDE DEF P, overdue, required
<1>6. /\ c \in Seq(Int) /\ u \in Seq(Int) /\ o \in Seq(Int) /\ parts \in Seq(Int)
      /\ Acts(c) = d.c.corrupt /\ Acts(u) = d.c.staged \ Needed(d) /\ Acts(o) = d.c.orphan /\ Acts(parts) = P
      /\ DOMAIN parts = 1 .. Len(parts) /\ Len(parts) \in Nat
  BY <1>3, <1>4, <1>5
<1> HIDE DEF c, u, o, parts
<1>7. ASSUME NEW V, NEW x \in Seq(V), NEW y \in Seq(V) PROVE x \o y \in Seq(V) /\ Acts(x \o y) = Acts(x) \cup Acts(y)
  BY <1>7, JoinedActs
<1>8. whole \in Seq(Int) /\ Acts(whole) = d.c.corrupt \cup (d.c.staged \ Needed(d)) \cup d.c.orphan
  <2> DEFINE h == c \o u
  <2>1. h \in Seq(Int) /\ Acts(h) = Acts(c) \cup Acts(u) /\ whole = h \o o
    BY <1>6, <1>7
  <2> HIDE DEF h
  <2>2. QED BY <1>6, <1>7, <2>1
<1> HIDE DEF whole
<1>9. \A s \in Int : DeleteStaged(s) \in T /\ DeletePart(s) \in T
  BY QuietActions DEF Quiet
<1>10. Len(whole) \in Nat /\ DOMAIN whole = 1 .. Len(whole) /\ \A i \in DOMAIN whole : whole[i] \in Int
  BY <1>8
<1> HIDE DEF T
<1>11. W \in Seq(T) /\ Acts(W) = {DeleteStaged(x) : x \in Acts(whole)}
  <2> DEFINE n == Len(whole)
  <2>1. n \in Nat /\ W = [i \in 1 .. n |-> W[i]] /\ \A i \in 1 .. n : W[i] = DeleteStaged(whole[i]) /\ W[i] \in T
    BY <1>9, <1>10
  <2> HIDE DEF n, W
  <2>2. W \in Seq(T) /\ Acts(W) = {W[i] : i \in 1 .. n}
    BY <2>1, ListOf
  <2>3. Acts(whole) = {whole[i] : i \in 1 .. n}
    BY DEF Acts, n
  <2>4. QED BY <2>1, <2>2, <2>3
<1>12. X \in Seq(T) /\ Acts(X) = {DeletePart(x) : x \in Acts(parts)}
  <2> DEFINE n == Len(parts)
  <2>0. \A i \in 1 .. n : parts[i] \in Int
    BY <1>6
  <2>1. n \in Nat /\ X = [i \in 1 .. n |-> X[i]] /\ \A i \in 1 .. n : X[i] = DeletePart(parts[i]) /\ X[i] \in T
    BY <1>6, <1>9, <2>0
  <2> HIDE DEF n, X
  <2>2. X \in Seq(T) /\ Acts(X) = {X[i] : i \in 1 .. n}
    BY <2>1, ListOf
  <2>3. Acts(parts) = {parts[i] : i \in 1 .. n}
    BY DEF Acts, n
  <2>4. QED BY <2>1, <2>2, <2>3
<1> HIDE DEF W, X
<1>13. W \o X \in Seq(T) /\ Acts(W \o X) = Acts(W) \cup Acts(X)
  BY <1>7, <1>11, <1>12
<1>14. Acts(X) = {DeletePart(p.sha) : p \in Stale(d)}
  BY <1>2, <1>6, <1>12 DEF P
<1>15. Acts(W \o X) = DoClear(d)
  BY <1>8, <1>11, <1>13, <1>14 DEF DoClear
<1>16. QED BY <1>1, <1>13, <1>15 DEF T, required

(* What is done for each of the items that are picked.                     *)
ListsFor(g, T, items, I, F) == g \in Seq(T) /\ Acts(g) = {F[items[m]] : m \in I}

LEMMA ForEachPicked ==
  ASSUME NEW X, NEW items \in Seq(X), NEW I, I \subseteq DOMAIN items, NEW T, NEW F,
         \A m \in I : F[items[m]] \in T,
         NEW g, g = [k \in DOMAIN g |-> g[k]], DOMAIN g = DOMAIN Picked(items, I),
         \A k \in DOMAIN g : g[k] = F[Picked(items, I)[k]]
  PROVE  ListsFor(g, T, items, I, F)
<1> DEFINE s == Picked(items, I)
           n == Len(s)
<1>1. /\ n \in Nat /\ DOMAIN s = 1 .. n
      /\ \A k \in 1 .. n : \E m \in I : s[k] = items[m]
      /\ \A m \in I : \E k \in 1 .. n : s[k] = items[m]
  <2>1. Some(s, items, I)
    BY PickedAreSome
  <2> HIDE DEF s
  <2>2. QED BY <2>1 DEF Some
<1>2. DOMAIN g = DOMAIN s /\ \A k \in DOMAIN s : g[k] = F[s[k]]
  OBVIOUS
<1> HIDE DEF n, s
<1>3. DOMAIN g = 1 .. n /\ \A k \in 1 .. n : g[k] = F[s[k]]
  BY <1>1, <1>2
<1>4. ASSUME NEW k \in 1 .. n PROVE \E m \in I : g[k] = F[items[m]]
  <2>1. PICK m \in I : s[k] = items[m]
    BY <1>1
  <2>2. g[k] = F[s[k]]
    BY <1>3
  <2>3. QED BY <2>1, <2>2
<1>5. ASSUME NEW m \in I PROVE \E k \in 1 .. n : g[k] = F[items[m]]
  <2>1. PICK k \in 1 .. n : s[k] = items[m]
    BY <1>1
  <2>2. g[k] = F[s[k]]
    BY <1>3
  <2>3. QED BY <2>1, <2>2
<1> DEFINE h == g
<1>6. n \in Nat /\ h = [k \in 1 .. n |-> h[k]] /\ \A k \in 1 .. n : h[k] \in T
  BY <1>1, <1>3, <1>4
<1>7. (\A k \in 1 .. n : \E m \in I : h[k] = F[items[m]]) /\ \A m \in I : \E k \in 1 .. n : h[k] = F[items[m]]
  BY <1>4, <1>5
<1> HIDE DEF h
<1>8. h \in Seq(T) /\ Acts(h) = {h[k] : k \in 1 .. n}
  <2>1. h \in [1 .. n -> T]
    BY <1>6
  <2>2. h \in Seq(T) /\ Len(h) = n
    BY <1>6, <2>1
  <2>3. QED BY <2>2 DEF Acts
<1>9. {h[k] : k \in 1 .. n} = {F[items[m]] : m \in I}
  BY <1>7
<1>10. ListsFor(h, T, items, I, F)
  BY <1>8, <1>9 DEF ListsFor
<1>11. QED BY <1>10 DEF h

LEMMA SendsAre ==
  ASSUME NEW inp, InputOK(inp), NEW d, DraftOK(inp, d),
         NEW U, U = [k \in DOMAIN Required(d) |-> Upload(Required(d)[k])]
  PROVE  U \in Seq(ActionsOf(inp)) /\ Acts(U) = DoSend(d)
<1> DEFINE r == Required(d)
           n == Len(r)
           T == ActionsOf(inp)
<1>1. r \in Seq(inp.library)
  BY RequiredAre
<1>2. /\ \A i \in DOMAIN r : \E m \in SentItems(d) : r[i] = d.items[m].video
      /\ \A m \in SentItems(d) : \E i \in DOMAIN r : r[i] = d.items[m].video
  BY RequiredAre
<1>3. \A v \in inp.library : Upload(v) \in T
  BY QuietActions DEF Quiet
<1>4. U = [k \in DOMAIN r |-> Upload(r[k])]
  OBVIOUS
<1> HIDE DEF r, T
<1>5. n \in Nat /\ DOMAIN r = 1 .. n /\ \A k \in 1 .. n : r[k] \in inp.library
  BY <1>1
<1> HIDE DEF n
<1>6. U = [k \in 1 .. n |-> U[k]] /\ \A k \in 1 .. n : U[k] = Upload(r[k]) /\ U[k] \in T
  BY <1>3, <1>4, <1>5
<1>7. U \in Seq(T) /\ Acts(U) = {U[k] : k \in 1 .. n}
  BY <1>5, <1>6, ListOf
<1>8. Acts(U) = DoSend(d)
  BY <1>2, <1>5, <1>6, <1>7 DEF DoSend
<1>9. QED BY <1>7, <1>8 DEF T

LEMMA ShowsAre ==
  ASSUME NEW inp, InputOK(inp), NEW d, DraftOK(inp, d),
         NEW U, U = [k \in DOMAIN Entering(d, {}) |-> Activate(Entering(d, {})[k])]
  PROVE  /\ U \in Seq(ActionsOf(inp)) /\ Acts(U) = DoShow(d)
         /\ {item.video.sha : item \in ToSet(Entering(d, {}))}
              = {d.items[m].video.sha : m \in ShownItems(d)}
<1> DEFINE I == ShownItems(d)
           X == ItemsFor(inp)
           F == [x \in X |-> Activate(x)]
           T == ActionsOf(inp)
<1>1. d.items \in Seq(X) /\ DOMAIN d.items = 1 .. Len(d.items)
  BY DraftItems
<1>2. \A m \in 1 .. Len(d.items) :
        CurrentName(d.items[m].video, d.c) = None <=> d.items[m].video.id \notin DOMAIN d.c.managed
  BY DraftItems
<1>3. I = {m \in DOMAIN d.items : /\ d.items[m].video \notin {} /\ CurrentName(d.items[m].video, d.c) = None}
  BY <1>1, <1>2 DEF ShownItems
<1>4. Entering(d, {}) = Picked(d.items, I)
  BY <1>3 DEF Entering
<1>5. I \subseteq DOMAIN d.items
  BY <1>3
<1>6. \A m \in I : d.items[m] \in X /\ F[d.items[m]] = Activate(d.items[m])
  BY <1>1, <1>5
<1>7. \A m \in I : Activate(d.items[m]) \in T
  <2>1. \A m \in I : Enters(inp, d.items[m])
    BY DraftItems DEF ShownItems
  <2>2. QED BY <2>1, EntersQuietly DEF Quiet
<1> DEFINE s == Picked(d.items, I)
<1> HIDE DEF X
<1>8. /\ DOMAIN s = 1 .. Len(s)
      /\ \A k \in 1 .. Len(s) : \E m \in I : s[k] = d.items[m]
      /\ \A m \in I : \E k \in 1 .. Len(s) : s[k] = d.items[m]
  <2>1. Some(s, d.items, I)
    BY <1>1, <1>5, PickedAreSome
  <2> HIDE DEF s, I
  <2>2. QED BY <2>1 DEF Some
<1> HIDE DEF I, s
<1>9. \A k \in DOMAIN s : s[k] \in X /\ F[s[k]] = Activate(s[k])
  BY <1>6, <1>8
<1> HIDE DEF F, T
<1>10. U = [k \in DOMAIN s |-> F[s[k]]]
  BY <1>4, <1>9 DEF s
<1>11. U \in Seq(T) /\ Acts(U) = {F[d.items[m]] : m \in I}
  <2>1. \A m \in I : F[d.items[m]] \in T
    BY <1>6, <1>7
  <2>2. /\ U = [k \in DOMAIN U |-> U[k]] /\ DOMAIN U = DOMAIN Picked(d.items, I)
        /\ \A k \in DOMAIN U : U[k] = F[Picked(d.items, I)[k]]
    BY <1>10 DEF s
  <2>3. ListsFor(U, T, d.items, I, F)
    BY <1>1, <1>5, <2>1, <2>2, ForEachPicked
  <2>4. QED BY <2>3 DEF ListsFor
<1>12. Acts(U) = DoShow(d)
  BY <1>6, <1>11 DEF DoShow, I
<1>13. ToSet(s) = {d.items[m] : m \in I}
  BY <1>8 DEF ToSet
<1>14. {item.video.sha : item \in ToSet(s)} = {d.items[m].video.sha : m \in I}
  BY <1>13
<1>15. QED BY <1>4, <1>11, <1>12, <1>14 DEF T, s, I

LEMMA DropsAre ==
  ASSUME NEW inp, InputOK(inp), NEW d, DraftOK(inp, d)
  PROVE  /\ Mapped(DeleteActive, ByName(d.extra)) \in Seq(ActionsOf(inp))
         /\ Acts(Mapped(DeleteActive, ByName(d.extra))) = DoDrop(d)
<1> DEFINE s == ByName(d.extra)
           E == Mapped(DeleteActive, s)
           n == Len(s)
<1>1. d.extra \subseteq AppNames(inp) /\ IsFiniteSet(d.extra)
  BY TakenApart DEF Extra, DraftOK, ExtraOK
<1>2. Enumerates(s, d.extra)
  BY <1>1, AppNamesFinite, ByNameEnumerates DEF InputOK
<1>3. E = [i \in DOMAIN s |-> DeleteActive(s[i])]
  BY DEF Mapped
<1>4. E \in Seq(ActionsOf(inp))
  BY ExtraTaken DEF TakesOf
<1> HIDE DEF s, E
<1>5. s \in Seq(d.extra) /\ DOMAIN s = 1 .. n /\ n \in Nat
  BY <1>2 DEF Enumerates
<1>6. /\ \A x \in d.extra : \E i \in 1 .. n : s[i] = x
      /\ \A i \in 1 .. n : s[i] \in d.extra
  BY <1>2, <1>5 DEF Enumerates
<1>7. DOMAIN E = 1 .. n /\ \A i \in 1 .. n : E[i] = DeleteActive(s[i])
  BY <1>3, <1>5
<1> HIDE DEF n
<1>8. Len(E) = n
  BY <1>4, <1>5, <1>7
<1>9. Acts(E) = DoDrop(d)
  BY <1>6, <1>7, <1>8 DEF Acts, DoDrop
<1>10. QED BY <1>4, <1>9 DEF E, s

LEMMA MovesAre ==
  ASSUME NEW inp, InputOK(inp), NEW d, DraftOK(inp, d)
  PROVE  Reorders(d) \in Seq(ActionsOf(inp)) /\ Acts(Reorders(d)) = DoMove(d)
<1> DEFINE I == {m \in 1 .. Len(d.items) : Moves(d, m)}
           X == ItemsFor(inp)
           F == [x \in X |-> Move(d, x)]
           T == ActionsOf(inp)
           s == Picked(d.items, I)
<1>1. d.items \in Seq(X) /\ DOMAIN d.items = 1 .. Len(d.items)
  BY DraftItems
<1>2. Reorders(d) = [k \in DOMAIN s |-> Move(d, s[k])]
  BY <1>1 DEF Reorders
<1>3. I \subseteq DOMAIN d.items
  BY <1>1
<1>4. \A m \in I : d.items[m] \in X /\ F[d.items[m]] = Move(d, d.items[m])
  BY <1>1, <1>3
<1>5. \A m \in I : Move(d, d.items[m]) \in T
  BY MoveIsTaken DEF Move
<1> HIDE DEF X
<1>6. /\ DOMAIN s = 1 .. Len(s)
      /\ \A k \in 1 .. Len(s) : \E m \in I : s[k] = d.items[m]
  <2>1. Some(s, d.items, I)
    BY <1>1, <1>3, PickedAreSome
  <2> HIDE DEF s, I
  <2>2. QED BY <2>1 DEF Some
<1> HIDE DEF I, s
<1>7. \A k \in DOMAIN s : s[k] \in X /\ F[s[k]] = Move(d, s[k])
  BY <1>4, <1>6
<1> HIDE DEF F, T
<1>8. Reorders(d) = [k \in DOMAIN s |-> F[s[k]]]
  BY <1>2, <1>7
<1>9. Reorders(d) \in Seq(T) /\ Acts(Reorders(d)) = {F[d.items[m]] : m \in I}
  <2>1. \A m \in I : F[d.items[m]] \in T
    BY <1>4, <1>5
  <2>2. /\ Reorders(d) = [k \in DOMAIN Reorders(d) |-> Reorders(d)[k]]
        /\ DOMAIN Reorders(d) = DOMAIN Picked(d.items, I)
        /\ \A k \in DOMAIN Reorders(d) : Reorders(d)[k] = F[Picked(d.items, I)[k]]
    BY <1>8 DEF s
  <2>3. ListsFor(Reorders(d), T, d.items, I, F)
    BY <1>1, <1>3, <2>1, <2>2, ForEachPicked
  <2>4. QED BY <2>3 DEF ListsFor
<1>10. Acts(Reorders(d)) = DoMove(d)
  BY <1>4, <1>9 DEF DoMove, I
<1>11. QED BY <1>9, <1>10 DEF T

LEMMA RemovalsDo ==
  ASSUME NEW inp, InputOK(inp), NEW d, DraftOK(inp, d), NEW staged, NEW W,
         W = Removals(inp.remote, inp.library, d.c, inp.requests, Placed(d), d.keep, staged)
  PROVE  W \in Seq(ActionsOf(inp)) /\ Acts(W) = OutOf(d, staged)
<1> DEFINE ids == DOMAIN d.c.managed \ Placed(d)
           C   == CopiesOf(d.c, ids)
           s   == Copies(d.c, ids)
           t   == [i \in DOMAIN s |-> Retirement(d, staged, s[i])]
           a   == AskedFor(inp.remote, d.c, inp.requests)
           T   == ActionsOf(inp)
<1>1. W = t \o a
  BY RemovalsAre
<1>2. Enumerates(s, C) /\ \A x \in C : CopyAt(d.c, ids, x)
  BY CopiesEnumerate DEF DraftOK
<1>3. \A x \in C : Retirement(d, staged, x) \in T
  BY <1>2, RetirementTakes DEF T
<1> HIDE DEF C, s
<1> DEFINE n == Len(s)
<1>4. /\ DOMAIN s = 1 .. n /\ n \in Nat
      /\ \A i \in 1 .. n : s[i] \in C
      /\ \A x \in C : \E i \in 1 .. n : s[i] = x
  BY <1>2 DEF Enumerates
<1>5. n \in Nat /\ DOMAIN t = 1 .. n /\ \A i \in 1 .. n : t[i] = Retirement(d, staged, s[i]) /\ t[i] \in T
  BY <1>3, <1>4
<1>6. t = [i \in 1 .. n |-> t[i]]
  BY <1>4
<1> HIDE DEF n, t, T
<1>7. t \in Seq(T) /\ Acts(t) = {t[i] : i \in 1 .. n}
  BY <1>5, <1>6, ListOf
<1>8. Acts(t) = {Retirement(d, staged, x) : x \in C}
  BY <1>4, <1>5, <1>7
<1>9. a \in Seq(T) /\ Acts(a) = {DeleteLegacy(x) : x \in Asked(d)}
  <2> DEFINE S == {x \in d.c.legacy \cap inp.requests : ~ inp.remote.root[x].isDir}
             b == ByName(S)
             m == Len(b)
  <2>1. S = Asked(d)
    BY DEF Asked, DraftOK
  <2>2. a \in Seq(T)
    BY AskedForTaken DEF TakesOf, T
  <2>3. a = [i \in DOMAIN b |-> DeleteLegacy(b[i])]
    BY DEF AskedFor, Mapped
  <2>4. S \subseteq DOMAIN inp.remote.root
    BY DEF DraftOK, ClassOK
  <2> HIDE DEF S
  <2>5. Enumerates(b, S)
    <3>1. IsFiniteSet(S) /\ S \subseteq NamesFor(inp.library)
      BY <2>4, FS_Subset DEF InputOK
    <3>2. QED BY <3>1, ByNameEnumerates DEF InputOK
  <2> HIDE DEF a, b
  <2>6. /\ DOMAIN b = 1 .. m /\ m \in Nat
        /\ \A i \in 1 .. m : b[i] \in S
        /\ \A x \in S : \E i \in 1 .. m : b[i] = x
    BY <2>5 DEF Enumerates
  <2> HIDE DEF m
  <2>7. DOMAIN a = 1 .. m /\ \A i \in 1 .. m : a[i] = DeleteLegacy(b[i])
    BY <2>3, <2>6
  <2>8. Len(a) = m
    BY <2>2, <2>6, <2>7
  <2>9. Acts(a) = {DeleteLegacy(x) : x \in S}
    BY <2>6, <2>7, <2>8 DEF Acts
  <2>10. QED BY <2>1, <2>2, <2>9
<1> HIDE DEF a
<1>10. t \o a \in Seq(T) /\ Acts(t \o a) = Acts(t) \cup Acts(a)
  BY <1>7, <1>9, JoinedActs
<1>11. QED BY <1>1, <1>8, <1>9, <1>10 DEF C, T, OutOf

(* The videos staged ahead, one after another.                             *)
AheadOf(d, kept) ==
  {k \in 1 .. Len(d.keep) :
     /\ Missing(d.keep[k].video, d.c)
     /\ d.keep[k].video.sha \notin kept \cup BusyContents(d.inp.remote, d.inp.now)}
SentAhead(d, kept) == {Upload(d.keep[k].video) : k \in AheadOf(d, kept)}

LEMMA StagesDo ==
  ASSUME NEW inp, InputOK(inp), inp.maxBytes = None, NEW d, DraftOK(inp, d),
         NEW s, NEW X, Does(s, ActionsOf(inp), X),
         NEW kept, NoneUndoes(SentAhead(d, kept), X \cup SentAhead(d, kept))
  PROVE  Does(WithStagedAhead(d, kept, s), ActionsOf(inp), X \cup SentAhead(d, kept))
<1> DEFINE n == Len(d.keep)
           A == AheadOf(d, kept)
           T == ActionsOf(inp)
           u(k) == Upload(d.keep[k].video)
           upTo(k) == {j \in A : j <= k}
           sent(k) == X \cup {u(j) : j \in upTo(k)}
<1>1. n \in Nat /\ Schedule(d.keep, inp.wants) /\ d.inp = inp
  BY DEF DraftOK, Schedule
<1>2. Continues(inp, s, s) /\ s \in Seq(T)
  <2>1. s \in Seq(T)
    BY DEF Does
  <2> HIDE DEF T
  <2>2. Len(s) \in Nat
    BY <2>1
  <2>3. Len(s) + 1 .. Len(s) = {}
    BY <2>2
  <2>4. QED BY <2>1, <2>2, <2>3 DEF Continues, T
<1>3. PICK after : /\ StagedBy(d, kept, s, after)
                   /\ \A k \in 0 .. n : Continues(inp, s, after[k])
  BY <1>1, <1>2, StagedStepByStep DEF n
<1>4. /\ \A k \in 1 .. n : after[k] = Ahead(d, kept, after[k - 1], k)
      /\ after[0] = s
      /\ WithStagedAhead(d, kept, s) = after[n]
  BY <1>3 DEF StagedBy
<1>5. \A k \in 1 .. n : u(k) \in T
  <2>1. \A k \in 1 .. n : d.keep[k].video \in inp.library
    <3>1. \A k \in 1 .. n : d.keep[k] \in inp.wants
      BY <1>1 DEF Schedule
    <3>2. QED BY <3>1 DEF InputOK, WantsFor
  <2>2. QED BY <2>1, QuietActions DEF Quiet
<1>6. A \subseteq 1 .. n
  BY DEF AheadOf
<1>7. \A k \in 1 .. n : after[k] = IF k \in A THEN Append(after[k - 1], u(k)) ELSE after[k - 1]
  <2>1. ASSUME NEW k \in 1 .. n PROVE after[k] = IF k \in A THEN Append(after[k - 1], u(k)) ELSE after[k - 1]
    <3>1. \A acts : Fits(d, acts, d.keep[k].video)
      BY <1>1 DEF Fits
    <3>2. k \in A <=> /\ Missing(d.keep[k].video, d.c)
                     /\ d.keep[k].video.sha \notin kept \cup BusyContents(d.inp.remote, d.inp.now)
      BY DEF AheadOf
    <3> HIDE DEF A
    <3>3. QED BY <1>4, <3>1, <3>2 DEF Ahead
  <2>2. QED BY <2>1
<1>8. \A k \in A : NoneUndoes({u(k)}, X \cup {u(j) : j \in A})
  BY DEF NoneUndoes, SentAhead
<1>16. SentAhead(d, kept) = {u(k) : k \in A}
  BY DEF SentAhead
<1> HIDE DEF u, T, A
<1> DEFINE Good == {k \in 0 .. n : Does(after[k], T, sent(k))}
<1>9. 0 \in Good
  <2>1. upTo(0) = {}
    <3> HIDE DEF A, n
    <3>1. \A j \in A : j \in 1 .. n
      BY <1>6
    <3>2. \A j \in A : ~ j <= 0
      BY <1>1, <3>1
    <3>3. QED BY <3>2
  <2>2. sent(0) = X
    BY <2>1
  <2> HIDE DEF sent
  <2>3. Does(after[0], T, sent(0))
    BY <1>4, <2>2 DEF T
  <2>4. QED BY <1>1, <2>3
<1>10. ASSUME NEW k \in 1 .. n, k - 1 \in Good PROVE k \in Good
  <2>1. k \in 0 .. n /\ k - 1 \in 0 .. n /\ \A j \in 1 .. n : j <= k <=> j = k \/ j <= k - 1
    BY <1>1
  <2>2. Does(after[k - 1], T, sent(k - 1))
    BY <1>10
  <2>3. CASE k \notin A
    <3>1. upTo(k) = upTo(k - 1)
      BY <1>6, <2>1, <2>3
    <3>2. sent(k) = sent(k - 1) /\ after[k] = after[k - 1]
      BY <1>7, <2>3, <3>1
    <3> HIDE DEF sent
    <3>3. QED BY <2>1, <2>2, <3>2
  <2>4. CASE k \in A
    <3>1. upTo(k) = upTo(k - 1) \cup {k}
      BY <1>6, <2>1, <2>4
    <3>2. sent(k) = sent(k - 1) \cup {u(k)} /\ sent(k - 1) \subseteq X \cup {u(j) : j \in A}
      BY <3>1
    <3>3. after[k] = Append(after[k - 1], u(k))
      BY <1>7, <2>4
    <3> HIDE DEF sent
    <3> DEFINE a == after[k - 1]
               q == u(k)
    <3>4. a \in Seq(T) /\ q \in T
      BY <1>5, <2>2 DEF Does
    <3>5. NoneUndoes({q}, sent(k - 1)) /\ NoneUndoes({q}, {q})
      BY <1>8, <2>4, <3>2 DEF NoneUndoes
    <3> HIDE DEF a, q
    <3>6. Append(a, q) = a \o <<q>> /\ <<q>> \in Seq(T) /\ Len(<<q>>) = 1 /\ <<q>>[1] = q
      BY <3>4
    <3>7. Acts(<<q>>) = {q}
      BY <3>6 DEF Acts
    <3>8. Does(<<q>>, T, {q})
      BY <3>5, <3>6, <3>7, OrderlyAlone DEF Does
    <3>9. Does(a, T, sent(k - 1))
      BY <2>2 DEF a
    <3>10. Does(a \o <<q>>, T, sent(k - 1) \cup {q})
      BY <3>5, <3>8, <3>9, DoesBoth
    <3>11. Does(after[k], T, sent(k))
      BY <3>2, <3>3, <3>6, <3>10 DEF a, q
    <3>12. QED BY <2>1, <3>11
  <2>5. QED BY <2>3, <2>4
<1>11. n \in Good
  <2> HIDE DEF Good
  <2>1. \A k \in 0 .. n : k \in Good
    BY <1>1, <1>9, <1>10, Climb
  <2>2. QED BY <1>1, <2>1
<1>12. upTo(n) = A
  <2> HIDE DEF A, n
  <2>1. \A j \in A : j \in 1 .. n
    BY <1>6
  <2>2. \A j \in A : j <= n
    BY <1>1, <2>1
  <2>3. QED BY <2>2
<1>13. sent(n) = X \cup {u(k) : k \in A}
  BY <1>12
<1> HIDE DEF sent
<1>14. Does(after[n], T, X \cup {u(k) : k \in A})
  BY <1>11, <1>13
<1>15. QED BY <1>4, <1>14, <1>16 DEF T

(* What each action is.                                                    *)
LEMMA DoneFirst ==
  ASSUME NEW d
  PROVE  /\ \A a \in DoClear(d) :
              \/ a.kind = "delete_staged" /\ \E x \in d.c.corrupt \cup (d.c.staged \ Needed(d)) \cup d.c.orphan :
                                                a.src = Staged(x)
              \/ a.kind = "delete_part" /\ \E p \in Stale(d) : a.src = Part(p.sha)
         /\ \A a \in DoSend(d) :
              a.kind = "upload" /\ \E m \in SentItems(d) :
                                     a.video = d.items[m].video /\ a.dst = Staged(d.items[m].video.sha)
         /\ \A a \in DoShow(d) :
              a.kind = "activate" /\ \E m \in ShownItems(d) :
                                       a.src = Staged(d.items[m].video.sha) /\ a.dst = d.items[m].name
<1>1. ASSUME NEW a \in DoClear(d)
      PROVE  \/ a.kind = "delete_staged" /\ \E x \in d.c.corrupt \cup (d.c.staged \ Needed(d)) \cup d.c.orphan :
                                               a.src = Staged(x)
             \/ a.kind = "delete_part" /\ \E p \in Stale(d) : a.src = Part(p.sha)
  BY <1>1 DEF DoClear, DeleteStaged, DeletePart, Act
<1>2. ASSUME NEW a \in DoSend(d)
      PROVE  a.kind = "upload" /\ \E m \in SentItems(d) :
                a.video = d.items[m].video /\ a.dst = Staged(d.items[m].video.sha)
  BY <1>2 DEF DoSend, Upload, Act
<1>3. ASSUME NEW a \in DoShow(d)
      PROVE  a.kind = "activate" /\ \E m \in ShownItems(d) :
                a.src = Staged(d.items[m].video.sha) /\ a.dst = d.items[m].name
  BY <1>3 DEF DoShow, Activate, Act
<1>4. QED BY <1>1, <1>2, <1>3

(* A retirement to staging is that of a video to be kept ready.            *)
SetAside(d, a, x) ==
  /\ x.k = 1 /\ a.kind = "deactivate"
  /\ \E i \in DOMAIN d.keep : /\ d.keep[i].video.id = x.id
                              /\ d.keep[i].video.sha \notin ReadyIn(d)
                              /\ a.dst = Staged(d.keep[i].video.sha)

DoneLast(d, a) ==
  \/ /\ \E x \in CopiesOf(d.c, DOMAIN d.c.managed \ Placed(d)) :
          a.src = d.c.managed[x.id][x.k] /\ (a.kind = "delete_active" \/ SetAside(d, a, x))
  \/ a.kind = "delete_legacy" /\ a.src \in Asked(d)

LEMMA DoneNext ==
  ASSUME NEW inp, InputOK(inp), NEW d, DraftOK(inp, d)
  PROVE  /\ \A a \in DoDrop(d) : a.kind = "delete_active" /\ a.src \in d.extra
         /\ \A a \in DoMove(d) :
              a.kind = "reorder" /\ \E m \in 1 .. Len(d.items) :
                /\ Moves(d, m) /\ a.src = CurrentName(d.items[m].video, d.c) /\ a.dst = d.items[m].name
         /\ \A a \in DoRemove(d) : Lasts(d, {}) /\ DoneLast(d, a)
         /\ \A a \in DoStage(d) :
              a.kind = "upload" /\ \E k \in AheadOnes(d) :
                                     a.video = d.keep[k].video /\ a.dst = Staged(d.keep[k].video.sha)
<1>1. ASSUME NEW a \in DoDrop(d) PROVE a.kind = "delete_active" /\ a.src \in d.extra
  BY <1>1 DEF DoDrop, DeleteActive, Act
<1>2. ASSUME NEW a \in DoMove(d)
      PROVE  a.kind = "reorder" /\ \E m \in 1 .. Len(d.items) :
                /\ Moves(d, m) /\ a.src = CurrentName(d.items[m].video, d.c) /\ a.dst = d.items[m].name
  BY <1>2 DEF DoMove, Move, Reorder, Act
<1>3. ASSUME NEW a \in DoRemove(d) PROVE Lasts(d, {}) /\ DoneLast(d, a)
  <2>1. Lasts(d, {})
    BY <1>3 DEF DoRemove
  <2> DEFINE C == CopiesOf(d.c, DOMAIN d.c.managed \ Placed(d))
  <2>2. CASE \E n \in Asked(d) : a = DeleteLegacy(n)
    BY <2>1, <2>2 DEF DeleteLegacy, Act, DoneLast
  <2>3. CASE \E x \in C : a = Retirement(d, ReadyIn(d), x)
    <3>1. PICK x \in C : a = Retirement(d, ReadyIn(d), x)
      BY <2>3
    <3> DEFINE v == CHOOSE w \in d.inp.library : w.id = x.id
               n == d.c.managed[x.id][x.k]
               out == x.k = 1 /\ (\E i \in DOMAIN d.keep : d.keep[i].video = v) /\ v.sha \notin ReadyIn(d)
    <3>2. a = IF out THEN Deactivate(v, n) ELSE DeleteActive(n)
      BY <3>1 DEF Retirement
    <3>3. v.id = x.id
      <4>1. CopyAt(d.c, DOMAIN d.c.managed \ Placed(d), x)
        BY CopiesEnumerate DEF DraftOK
      <4>2. \E w \in inp.library : w.id = x.id
        BY <4>1 DEF CopyAt, DraftOK, ClassOK, CopiesApart
      <4>3. QED BY <4>2 DEF DraftOK
    <3> HIDE DEF C, v, n
    <3>4. CASE out
      <4>1. a.kind = "deactivate" /\ a.src = n /\ a.dst = Staged(v.sha)
        BY <3>2, <3>4 DEF Deactivate, Act
      <4>2. SetAside(d, a, x)
        BY <3>3, <3>4, <4>1 DEF SetAside
      <4>3. QED BY <2>1, <4>1, <4>2 DEF DoneLast, C, n
    <3>5. CASE ~ out
      <4>1. a.kind = "delete_active" /\ a.src = n
        BY <3>2, <3>5 DEF DeleteActive, Act
      <4>2. QED BY <2>1, <4>1 DEF DoneLast, C, n
    <3>6. QED BY <3>4, <3>5
  <2>4. QED BY <1>3, <2>1, <2>2, <2>3 DEF DoRemove, OutOf
<1>4. ASSUME NEW a \in DoStage(d)
      PROVE  a.kind = "upload" /\ \E k \in AheadOnes(d) :
                a.video = d.keep[k].video /\ a.dst = Staged(d.keep[k].video.sha)
  BY <1>4 DEF DoStage, Upload, Act
<1>5. QED BY <1>1, <1>2, <1>3, <1>4

(* What is kept ready is needed, and nothing that plays or waits to.       *)
LEMMA KeptApart ==
  ASSUME NEW inp, InputOK(inp), NEW d, d = DraftIn(inp)
  PROVE  /\ \A k \in DOMAIN d.keep : /\ d.keep[k].video.sha \in Needed(d)
                                     /\ d.keep[k].video \in inp.library
                                     /\ \A i \in 1 .. Len(d.wants) : d.wants[i].video.sha # d.keep[k].video.sha
                                     /\ \A m \in 1 .. Len(d.items) : d.items[m].video.sha # d.keep[k].video.sha
         /\ \A m, l \in 1 .. Len(d.items) : d.items[m].video.sha = d.items[l].video.sha => m = l
         /\ \A m \in 1 .. Len(d.items) : \E i \in 1 .. Len(d.wants) : d.items[m].video = d.wants[i].video
         /\ \A m \in ShownItems(d) : d.items[m].video.sha \in Needed(d)
         /\ SentItems(d) \subseteq ShownItems(d)
         /\ DOMAIN d.keep = 1 .. Len(d.keep) /\ DOMAIN d.items = 1 .. Len(d.items)
<1>1. DraftOK(inp, d) /\ d.keep = KeepStaged(inp.wants, inp.now) /\ d.wants = DesiredWants(inp.wants, inp.now)
  BY DraftIsOK DEF DraftIn, DraftOf
<1>2. /\ d.keep \in Seq(inp.wants) /\ d.wants \in Seq(inp.wants)
      /\ DOMAIN d.keep = 1 .. Len(d.keep) /\ DOMAIN d.wants = 1 .. Len(d.wants)
  BY <1>1 DEF DraftOK, Schedule
<1>3. \A k \in DOMAIN d.keep : d.keep[k].video.sha \in Needed(d)
  BY DEF Needed
<1>4. \A k \in DOMAIN d.keep : d.keep[k].video \in inp.library
  BY <1>2 DEF InputOK, WantsFor
<1>5. ASSUME NEW k \in DOMAIN d.keep, NEW i \in 1 .. Len(d.wants), d.wants[i].video.sha = d.keep[k].video.sha
      PROVE  FALSE
  <2>1. d.keep[k].video.sha \in ContentsIn(ToSet(d.keep)) /\ d.wants[i].video.sha \in ContentsIn(ToSet(d.wants))
    BY <1>2 DEF ContentsIn, ToSet
  <2>2. QED BY <1>1, <1>5, <2>1, KeptContents
<1>6. \A m \in 1 .. Len(d.items) : \E i \in 1 .. Len(d.wants) : d.items[m].video = d.wants[i].video
  BY <1>1 DEF DraftOK, PlacedUpTo
<1>7. \A k \in DOMAIN d.keep : \A m \in 1 .. Len(d.items) : d.items[m].video.sha # d.keep[k].video.sha
  BY <1>5, <1>6
<1>8. ASSUME NEW m \in 1 .. Len(d.items), NEW l \in 1 .. Len(d.items), d.items[m].video.sha = d.items[l].video.sha
      PROVE  m = l
  <2>1. PICK i \in 1 .. Len(d.wants) : d.items[m].video = d.wants[i].video
    BY <1>6
  <2>2. PICK j \in 1 .. Len(d.wants) : d.items[l].video = d.wants[j].video
    BY <1>6
  <2>3. i = j
    BY <1>1, <1>8, <2>1, <2>2 DEF DraftOK, Schedule
  <2>4. d.items[m].video.id = d.items[l].video.id
    BY <2>1, <2>2, <2>3
  <2>5. QED BY <1>1, <2>4, DraftItems DEF OncePerVideo
<1>9. DOMAIN d.items = 1 .. Len(d.items)
  BY <1>1, DraftItems
<1>10. \A m \in ShownItems(d) : d.items[m].video.sha \in Needed(d)
  BY <1>9 DEF ShownItems, Needed, ToSet
<1>11. SentItems(d) \subseteq ShownItems(d)
  BY DEF SentItems, ShownItems, Missing
<1>12. QED BY <1>2, <1>3, <1>4, <1>5, <1>6, <1>7, <1>8, <1>9, <1>10, <1>11

(* Where the actions take files from and put them, as far as the order     *)
(* matters; S: the staged contents to be kept ready.                       *)
PutAside(S, a) == \E x \in S : a.dst = Staged(x)
Places(inp, d, S) ==
  /\ \A a \in DoClear(d) : a.kind \in StagingDeletes /\ \A x \in Needed(d) : a.src # Staged(x)
  /\ \A a \in DoSend(d) : a.kind = "upload" /\ PutAside(Needed(d), a)
  /\ \A a \in DoShow(d) : /\ a.kind = "activate" /\ a.dst \notin DOMAIN inp.remote.root
                          /\ \A x \in S : a.src # Staged(x)
  /\ \A a \in DoDrop(d) : a.kind = "delete_active" /\ a.src \in DOMAIN inp.remote.root
  /\ \A a \in DoMove(d) : /\ a.kind = "reorder" /\ a.src \in DOMAIN inp.remote.root \ Extra(d)
                          /\ a.dst \notin DOMAIN inp.remote.root \ Extra(d)
  /\ \A a \in DoRemove(d) : /\ a.kind \in Drops /\ a.src \in DOMAIN inp.remote.root \ Extra(d)
                            /\ a.kind = "deactivate" => PutAside(S, a)
  /\ \A a \in DoStage(d) : a.kind = "upload" /\ PutAside(S, a)

LEMMA DoneInPlaces ==
  ASSUME NEW inp, InputOK(inp), NEW d, d = DraftIn(inp), d.c.corrupt = {}, d.c.orphan = {},
         NEW S, S = {d.keep[k].video.sha : k \in DOMAIN d.keep}
  PROVE  Places(inp, d, S) /\ S \subseteq Needed(d)
<1> DEFINE R == DOMAIN inp.remote.root
<1>1. DraftOK(inp, d) /\ d.inp = inp
  BY DraftIsOK DEF DraftOK
<1>2. \A x, y : Staged(x) = Staged(y) => x = y
  <2>1. \A x : Staged(x).sha = x
    BY DEF Staged
  <2>2. QED BY <2>1
<1>3. \A x, y : Staged(x) # Part(y)
  <2>1. \A x : Staged(x).part = FALSE /\ Part(x).part = TRUE
    BY DEF Staged, Part
  <2>2. QED BY <2>1
<1>4. S \subseteq Needed(d)
  BY KeptApart
<1>5. ASSUME NEW a \in DoClear(d) PROVE a.kind \in StagingDeletes /\ \A x \in Needed(d) : a.src # Staged(x)
  <2>1. \/ a.kind = "delete_staged" /\ \E x \in d.c.corrupt \cup (d.c.staged \ Needed(d)) \cup d.c.orphan :
                                          a.src = Staged(x)
        \/ a.kind = "delete_part" /\ \E p \in Stale(d) : a.src = Part(p.sha)
    BY DoneFirst
  <2>2. \/ a.kind = "delete_staged" /\ \E x : x \notin Needed(d) /\ a.src = Staged(x)
        \/ a.kind = "delete_part" /\ \E y : a.src = Part(y)
    BY <2>1
  <2>3. QED BY <1>2, <1>3, <2>2 DEF StagingDeletes
<1>6. ASSUME NEW a \in DoSend(d) PROVE a.kind = "upload" /\ PutAside(Needed(d), a)
  <2>1. a.kind = "upload" /\ \E m \in SentItems(d) : a.dst = Staged(d.items[m].video.sha)
    BY DoneFirst
  <2>2. \A m \in SentItems(d) : d.items[m].video.sha \in Needed(d)
    BY KeptApart
  <2>3. QED BY <2>1, <2>2 DEF PutAside
<1>7. ASSUME NEW a \in DoShow(d)
      PROVE  a.kind = "activate" /\ a.dst \notin R /\ \A x \in S : a.src # Staged(x)
  <2>1. PICK m \in ShownItems(d) : a.src = Staged(d.items[m].video.sha) /\ a.dst = d.items[m].name
    BY DoneFirst
  <2>2. m \in 1 .. Len(d.items) /\ d.items[m].video.id \notin DOMAIN d.c.managed
    BY DEF ShownItems
  <2>3. d.items[m].name \notin R
    BY <1>1, <2>2, TargetIsFree
  <2>4. d.items[m].video.sha \notin S
    BY <2>2, KeptApart
  <2>5. a.kind = "activate"
    BY DoneFirst
  <2>6. QED BY <1>2, <2>1, <2>3, <2>4, <2>5
<1>8. ASSUME NEW a \in DoDrop(d) PROVE a.kind = "delete_active" /\ a.src \in R
  <2>1. a.kind = "delete_active" /\ a.src \in Extra(d)
    BY <1>1, DoneNext DEF Extra
  <2>2. Extra(d) \subseteq R
    BY <1>1, TakenApart DEF AppNames
  <2>3. QED BY <2>1, <2>2
<1>9. ASSUME NEW a \in DoMove(d)
      PROVE  a.kind = "reorder" /\ a.src \in R \ Extra(d) /\ a.dst \notin R \ Extra(d)
  <2>1. PICK m \in 1 .. Len(d.items) :
          Moves(d, m) /\ a.src = CurrentName(d.items[m].video, d.c) /\ a.dst = d.items[m].name
    BY <1>1, DoneNext
  <2>2. a.src \in Moving(d)
    BY <1>1, <2>1, MoveIsTaken
  <2>3. a.src \in R \ Extra(d)
    BY <1>1, <2>2, TakenApart DEF AppNames
  <2>4. a.dst \notin R \/ a.dst \in Extra(d)
    BY <1>1, <2>1, TargetIsFree DEF Moves
  <2>5. a.kind = "reorder"
    BY <1>1, DoneNext
  <2>6. QED BY <2>3, <2>4, <2>5
<1>10. ASSUME NEW a \in DoRemove(d)
       PROVE  a.kind \in Drops /\ a.src \in R \ Extra(d) /\ (a.kind = "deactivate" => PutAside(S, a))
  <2>1. DoneLast(d, a)
    BY <1>1, DoneNext
  <2>2. Leaving(d) \subseteq R \ Extra(d)
    BY <1>1, TakenApart
  <2>3. CASE a.kind = "delete_legacy" /\ a.src \in Asked(d)
    <3>1. a.src \in Leaving(d)
      BY <2>3 DEF Asked, Leaving
    <3>2. QED BY <2>2, <2>3, <3>1 DEF Drops
  <2>4. CASE \E x \in CopiesOf(d.c, DOMAIN d.c.managed \ Placed(d)) :
               a.src = d.c.managed[x.id][x.k] /\ (a.kind = "delete_active" \/ SetAside(d, a, x))
    <3>1. PICK x \in CopiesOf(d.c, DOMAIN d.c.managed \ Placed(d)) :
               a.src = d.c.managed[x.id][x.k] /\ (a.kind = "delete_active" \/ SetAside(d, a, x))
      BY <2>4
    <3>2. CopyAt(d.c, DOMAIN d.c.managed \ Placed(d), x)
      BY <1>1, CopiesEnumerate DEF DraftOK
    <3>3. a.src \in Leaving(d)
      BY <1>1, <3>1, <3>2, RetirementTakes DEF Leaving
    <3>4. SetAside(d, a, x) => a.kind = "deactivate" /\ PutAside(S, a)
      BY DEF SetAside, PutAside
    <3>5. QED BY <2>2, <3>1, <3>3, <3>4 DEF Drops
  <2>5. QED BY <2>1, <2>3, <2>4 DEF DoneLast
<1>11. ASSUME NEW a \in DoStage(d) PROVE a.kind = "upload" /\ PutAside(S, a)
  <2>1. a.kind = "upload" /\ \E k \in AheadOnes(d) : a.dst = Staged(d.keep[k].video.sha)
    BY <1>1, DoneNext
  <2>2. AheadOnes(d) \subseteq DOMAIN d.keep
    BY KeptApart DEF AheadOnes
  <2>3. QED BY <2>1, <2>2 DEF PutAside
<1>12. QED BY <1>4, <1>5, <1>6, <1>7, <1>8, <1>9, <1>10, <1>11 DEF Places

(* Every part of a plan undoes nothing of the parts before, or of itself.  *)
NoneUndone(d) ==
  /\ NoneUndoes(DoClear(d), DoClear(d))
  /\ NoneUndoes(DoSend(d), DoSend(d)) /\ NoneUndoes(DoSend(d), DoClear(d))
  /\ NoneUndoes(DoShow(d), DoShow(d)) /\ NoneUndoes(DoShow(d), DoClear(d) \cup DoSend(d))
  /\ NoneUndoes(DoDrop(d), DoDrop(d)) /\ NoneUndoes(DoDrop(d), DoClear(d) \cup DoSend(d) \cup DoShow(d))
  /\ NoneUndoes(DoMove(d), DoMove(d))
  /\ NoneUndoes(DoMove(d), DoClear(d) \cup DoSend(d) \cup DoShow(d) \cup DoDrop(d))
  /\ NoneUndoes(DoRemove(d), DoRemove(d))
  /\ NoneUndoes(DoRemove(d), DoClear(d) \cup DoSend(d) \cup DoShow(d) \cup DoDrop(d) \cup DoMove(d))
  /\ NoneUndoes(DoStage(d), DoStage(d))
  /\ NoneUndoes(DoStage(d), DoClear(d) \cup DoSend(d) \cup DoShow(d) \cup DoDrop(d) \cup DoMove(d)
                              \cup DoRemove(d))

LEMMA NothingUndone ==
  ASSUME NEW inp, NEW d, NEW S, Places(inp, d, S), S \subseteq Needed(d)
  PROVE  NoneUndone(d)
<1> USE DEF Places, PutAside, Takes, Puts, Drops, Staging, StagingDeletes, FromStaging
<1>1. \A a \in DoClear(d), b \in DoClear(d) : ~ Undoes(b, a)
  BY DEF Undoes
<1>2. \A a \in DoSend(d), b \in DoSend(d) : ~ Undoes(b, a)
  BY DEF Undoes
<1>3. \A a \in DoClear(d), b \in DoSend(d) : ~ Undoes(b, a)
  BY DEF Undoes
<1>4. \A a \in DoClear(d) \cup DoSend(d) \cup DoShow(d), b \in DoShow(d) : ~ Undoes(b, a)
  BY DEF Undoes
<1>5. \A a \in DoClear(d) \cup DoSend(d) \cup DoShow(d) \cup DoDrop(d), b \in DoDrop(d) : ~ Undoes(b, a)
  BY DEF Undoes
<1>6. \A a \in DoClear(d) \cup DoSend(d) \cup DoShow(d) \cup DoDrop(d) \cup DoMove(d), b \in DoMove(d) : ~ Undoes(b, a)
  BY DEF Undoes
<1>7. \A a \in DoClear(d), b \in DoRemove(d) \cup DoStage(d) : ~ Undoes(b, a)
  BY DEF Undoes
<1>8. \A a \in DoShow(d), b \in DoRemove(d) \cup DoStage(d) : ~ Undoes(b, a)
  BY DEF Undoes
<1>9. \A a \in DoSend(d) \cup DoDrop(d) \cup DoMove(d) \cup DoRemove(d), b \in DoRemove(d) : ~ Undoes(b, a)
  BY DEF Undoes
<1>10. \A a \in DoSend(d) \cup DoDrop(d) \cup DoMove(d) \cup DoRemove(d) \cup DoStage(d), b \in DoStage(d) : ~ Undoes(b, a)
  BY DEF Undoes
<1>11. QED BY <1>1, <1>2, <1>3, <1>4, <1>5, <1>6, <1>7, <1>8, <1>9, <1>10 DEF NoneUndone, NoneUndoes

(* The count of what goes on playing.                                      *)
Remaining(d, wished) ==
  Len(Picked(d.items, {m \in DOMAIN d.items : d.items[m].video \notin {}}))
    + Cardinality(d.c.playable \ {x.src : x \in ToSet(wished)})

LEMMA CountIs ==
  ASSUME NEW inp, InputOK(inp), NEW d, DraftOK(inp, d), NEW wished, TakesOf(inp, wished, Leaving(d)),
         \A n \in Asked(d) : \E i \in 1 .. Len(wished) : wished[i].src = n
  PROVE  Remaining(d, wished) = 0 <=> ~ Lasts(d, {})
<1> DEFINE J       == {m \in DOMAIN d.items : d.items[m].video \notin {}}
           onTime  == Picked(d.items, J)
           playing == d.c.playable \ {x.src : x \in ToSet(wished)}
           X       == ItemsFor(inp)
<1>1. d.items \in Seq(X) /\ DOMAIN d.items = 1 .. Len(d.items)
  BY DraftItems
<1>2. J \subseteq DOMAIN d.items
  OBVIOUS
<1> HIDE DEF X
<1>3. onTime \in Seq(X) /\ (onTime = <<>> <=> J = {})
  <2> HIDE DEF J
  <2>1. QED BY <1>1, <1>2, NothingPicked, PickedInOrder
<1>4. J = {} <=> ~ \E m \in 1 .. Len(d.items) : d.items[m].video \notin {}
  BY <1>1
<1>5. playing \in SUBSET DOMAIN inp.remote.root
  BY DEF DraftOK, ClassOK
<1>6. (\E n \in d.c.playable : n \notin d.inp.requests) <=> playing # {}
  <2>1. ASSUME NEW n \in d.c.playable, n \notin d.inp.requests PROVE n \in playing
    BY <2>1, NotAskedFor DEF DraftOK
  <2>2. ASSUME NEW n \in playing, n \in d.inp.requests PROVE FALSE
    <3>1. n \in Asked(d)
      BY <2>2 DEF Asked, DraftOK, ClassOK
    <3>2. PICK i \in 1 .. Len(wished) : wished[i].src = n
      BY <3>1
    <3>3. wished[i] \in ToSet(wished)
      <4> DEFINE T == ActionsOf(inp)
      <4>1. wished \in Seq(T)
        BY DEF TakesOf
      <4> HIDE DEF T
      <4>2. QED BY <4>1 DEF ToSet
    <3>4. QED BY <2>2, <3>2, <3>3
  <2>3. QED BY <2>1, <2>2
<1> HIDE DEF J, onTime, playing
<1>8. Len(onTime) \in Nat /\ (Len(onTime) = 0 <=> onTime = <<>>)
  BY <1>3
<1>9. Cardinality(playing) \in Nat /\ (Cardinality(playing) = 0 <=> playing = {})
  <2>1. IsFiniteSet(playing)
    BY <1>5, FS_Subset DEF InputOK
  <2>2. QED BY <2>1, FS_CardinalityType, FS_EmptySet
<1>10. Len(onTime) + Cardinality(playing) = 0 <=> onTime = <<>> /\ playing = {}
  <2> DEFINE a == Len(onTime)
             b == Cardinality(playing)
  <2>1. a \in Nat /\ b \in Nat /\ (a = 0 <=> onTime = <<>>) /\ (b = 0 <=> playing = {})
    BY <1>8, <1>9
  <2> HIDE DEF a, b
  <2>2. a + b = 0 <=> a = 0 /\ b = 0
    BY <2>1
  <2>3. QED BY <2>1, <2>2 DEF a, b
<1>11. Len(onTime) + Cardinality(playing) = 0 <=> ~ Lasts(d, {})
  BY <1>3, <1>4, <1>6, <1>10 DEF Lasts
<1>12. QED BY <1>11 DEF onTime, J, playing, Remaining

LEMMA PlanDoes ==
  ASSUME NEW inp, InputOK(inp), inp.maxBytes = None, NEW d, d = DraftIn(inp),
         d.c.corrupt = {}, d.c.orphan = {}
  PROVE  \E s : /\ Does(s, ActionsOf(inp), Doings(d))
                /\ Plan(inp) = WithStagingDir(s, inp.remote.stagingExists)
<1> DEFINE required == Required(d)
           cleanup  == Cleanup(d, required)
           inTime   == Fitting(required, Usage(inp.remote, cleanup), inp.maxBytes)
           late     == ToSet(required) \ ToSet(inTime)
           main     == MainPart(d, cleanup, inTime, late)
           wished   == Removals(inp.remote, inp.library, d.c, inp.requests, Placed(d), d.keep, main.ready)
           T        == ActionsOf(inp)
           S        == {d.keep[k].video.sha : k \in DOMAIN d.keep}
           U        == [k \in DOMAIN required |-> Upload(required[k])]
           V        == [k \in DOMAIN Entering(d, {}) |-> Activate(Entering(d, {})[k])]
           E        == Mapped(DeleteActive, ByName(d.extra))
           R        == Reorders(d)
<1>1. Plan(inp) = PlanUploading(d, cleanup, required, inTime)
  BY DEF Plan, DraftIn
<1>2. DraftOK(inp, d) /\ d.inp = inp
  BY DraftIsOK DEF DraftOK
<1>3. PlanUploading(d, cleanup, required, inTime) = Completed(d, late, main, wished)
  BY <1>2 DEF PlanUploading
<1>4. inTime = required /\ late = {}
  BY DEF Fitting
<1>5. NoneUndone(d)
  BY DoneInPlaces, NothingUndone
<1>6. main.actions = cleanup \o U \o V \o E \o R
  <2>1. main.actions = Opening(d, cleanup, inTime, late) \o E \o R
    <3> HIDE DEF cleanup, inTime, late
    <3>1. MainPart(d, cleanup, inTime, late).actions
            = Opening(d, cleanup, inTime, late) \o Mapped(DeleteActive, ByName(d.extra)) \o Reorders(d)
      BY MainPartOpens
    <3>2. QED BY <3>1
  <2> HIDE DEF main, cleanup, inTime, late, required, E, R
  <2>2. QED BY <1>4, <2>1 DEF Opening
<1>7. main.ready = ReadyIn(d)
  <2>1. main.ready = ((d.c.staged \cap Needed(d)) \cup {v.sha : v \in ToSet(inTime)})
                \ {item.video.sha : item \in ToSet(Entering(d, late))}
    BY DEF MainPart, Entering, ItemsWith
  <2>2. {v.sha : v \in ToSet(required)} = {d.items[m].video.sha : m \in SentItems(d)}
    <3> HIDE DEF required
    <3>1. /\ \A i \in DOMAIN required : \E m \in SentItems(d) : required[i] = d.items[m].video
          /\ \A m \in SentItems(d) : \E i \in DOMAIN required : required[i] = d.items[m].video
      BY <1>2, RequiredAre DEF required
    <3>2. ToSet(required) = {d.items[m].video : m \in SentItems(d)}
      BY <3>1 DEF ToSet
    <3>3. QED BY <3>2
  <2>3. {item.video.sha : item \in ToSet(Entering(d, {}))} = {d.items[m].video.sha : m \in ShownItems(d)}
    BY <1>2, ShowsAre
  <2> HIDE DEF main, required, inTime, late
  <2>4. QED BY <1>4, <2>1, <2>2, <2>3 DEF ReadyIn
<1>8. cleanup \in Seq(T) /\ Acts(cleanup) = DoClear(d)
  BY <1>2, CleanupDoes
<1>9. U \in Seq(T) /\ Acts(U) = DoSend(d)
  BY <1>2, SendsAre
<1>10. V \in Seq(T) /\ Acts(V) = DoShow(d)
  BY <1>2, ShowsAre
<1>11. E \in Seq(T) /\ Acts(E) = DoDrop(d)
  BY <1>2, DropsAre
<1>12. R \in Seq(T) /\ Acts(R) = DoMove(d)
  BY <1>2, MovesAre
<1>13. wished \in Seq(T) /\ Acts(wished) = OutOf(d, ReadyIn(d))
  <2> DEFINE W == wished
  <2>1. W = Removals(inp.remote, inp.library, d.c, inp.requests, Placed(d), d.keep, ReadyIn(d))
    <3> HIDE DEF main
    <3>1. QED BY <1>7
  <2> HIDE DEF W
  <2>2. W \in Seq(ActionsOf(inp)) /\ Acts(W) = OutOf(d, ReadyIn(d))
    <3> HIDE DEF wished, main
    <3>1. QED BY <1>2, <2>1, RemovalsDo
  <2>3. QED BY <2>2 DEF W
<1>14. TakesOf(inp, wished, Leaving(d))
  BY <1>2, RemovalsTaken
<1> HIDE DEF required, cleanup, inTime, late, main, T, U, V, E, R
<1> DEFINE isLate(item)   == item.video \in late
           isOnTime(item) == item.video \notin late
           later    == ItemsWith(d, isLate)
           playing  == d.c.playable \ {x.src : x \in ToSet(wished)}
           remains  == Len(ItemsWith(d, isOnTime)) + Cardinality(playing)
           W        == IF remains = 0 THEN <<>> ELSE wished
           moved    == {y \in ToSet(W) : y.kind = "deactivate"}
           kept     == main.ready \cup {x.dst.sha : x \in moved}
           s0       == main.actions \o W
           s1       == WithLate(d, later, remains, s0)
           s2       == WithStagedAhead(d, kept, s1)
<1>15. Completed(d, late, main, wished) = WithStagingDir(s2, inp.remote.stagingExists)
  BY <1>2 DEF Completed
<1>16. remains = 0 <=> ~ Lasts(d, {})
  <2>1. \A n \in Asked(d) : \E i \in 1 .. Len(wished) : wished[i].src = n
    <3>1. \A n \in Asked(d) : DeleteLegacy(n) \in Acts(wished) /\ DeleteLegacy(n).src = n
      <4>1. \A n : DeleteLegacy(n).src = n
        BY DEF DeleteLegacy, Act
      <4>2. QED BY <1>13, <4>1 DEF OutOf
    <3> HIDE DEF wished
    <3>2. QED BY <3>1 DEF Acts
  <2>2. remains = Remaining(d, wished)
    <3>1. ItemsWith(d, isOnTime) = Picked(d.items, {m \in DOMAIN d.items : d.items[m].video \notin {}})
      BY <1>4 DEF ItemsWith
    <3>2. QED BY <3>1 DEF Remaining
  <2> HIDE DEF wished, remains
  <2>3. Remaining(d, wished) = 0 <=> ~ Lasts(d, {})
    BY <1>2, <1>14, <2>1, CountIs
  <2>4. QED BY <2>2, <2>3
<1> HIDE DEF remains, wished
<1>17. W \in Seq(T) /\ Acts(W) = DoRemove(d)
  <2>1. CASE Lasts(d, {})
    BY <1>13, <1>16, <2>1 DEF DoRemove
  <2>2. CASE ~ Lasts(d, {})
    <3>1. W = <<>>
      BY <1>16, <2>2
    <3>2. <<>> \in Seq(T) /\ 1 .. Len(<<>>) = {}
      OBVIOUS
    <3>3. QED BY <2>2, <3>1, <3>2 DEF DoRemove, Acts
  <2>3. QED BY <2>1, <2>2
<1> HIDE DEF W
<1>18. kept = ReadyIn(d) \cup MovedOut(d)
  <2>1. ToSet(W) = DoRemove(d)
    <3>1. DOMAIN W = 1 .. Len(W)
      BY <1>17
    <3>2. QED BY <1>17, <3>1 DEF ToSet, Acts
  <2> HIDE DEF ReadyIn, DoRemove
  <2>2. QED BY <1>7, <2>1 DEF MovedOut
<1>19. later = <<>>
  <2>1. later = Picked(d.items, {m \in DOMAIN d.items : d.items[m].video \in late})
    BY DEF ItemsWith
  <2>2. {m \in DOMAIN d.items : d.items[m].video \in late} = {}
    BY <1>4
  <2>3. d.items \in Seq(ItemsFor(inp)) /\ {} \subseteq DOMAIN d.items
    BY <1>2, DraftItems
  <2>4. QED BY <2>1, <2>2, <2>3, NothingPicked
<1>20. s1 = s0
  <2> HIDE DEF s0, later
  <2>1. Len(later) = 0 /\ Len(later) \in Nat
    BY <1>19
  <2>2. \A k \in 1 .. Len(later) : Enters(inp, later[k])
    BY <2>1
  <2> HIDE DEF remains
  <2>3. s0 \in Seq(T)
    <3>1. cleanup \o U \in Seq(T) /\ V \in Seq(T)
      BY <1>8, <1>9, <1>10
    <3> DEFINE x == cleanup \o U
    <3> HIDE DEF x
    <3>2. x \o V \in Seq(T)
      BY <1>10, <3>1 DEF x
    <3> DEFINE y == x \o V
    <3> HIDE DEF y
    <3>3. y \o E \in Seq(T)
      BY <1>11, <3>2 DEF y
    <3> DEFINE z == y \o E
    <3> HIDE DEF z
    <3>4. z \o R \in Seq(T)
      BY <1>12, <3>3 DEF z
    <3>5. main.actions = z \o R
      BY <1>6 DEF x, y, z
    <3>6. QED BY <1>17, <3>4, <3>5 DEF s0
  <2>4. PICK after : EnteredBy(d, later, remains, s0, after)
    <3>1. s0 \in Seq(ActionsOf(inp))
      BY <2>3 DEF T
    <3>2. QED BY <2>1, <2>2, <3>1, LateStepByStep
  <2>5. QED BY <2>1, <2>4 DEF EnteredBy
<1>21. Does(s0, T, DoClear(d) \cup DoSend(d) \cup DoShow(d) \cup DoDrop(d) \cup DoMove(d) \cup DoRemove(d))
  <2>1. /\ Does(cleanup, T, DoClear(d)) /\ Does(U, T, DoSend(d)) /\ Does(V, T, DoShow(d))
        /\ Does(E, T, DoDrop(d)) /\ Does(R, T, DoMove(d)) /\ Does(W, T, DoRemove(d))
    BY <1>5, <1>8, <1>9, <1>10, <1>11, <1>12, <1>17, OrderlyAlone DEF NoneUndone, Does
  <2> DEFINE x == cleanup \o U
             y == x \o V
             z == y \o E
             w == z \o R
  <2>2. Does(x, T, DoClear(d) \cup DoSend(d))
    BY <1>5, <2>1, DoesBoth DEF NoneUndone
  <2> HIDE DEF x
  <2>3. Does(y, T, DoClear(d) \cup DoSend(d) \cup DoShow(d))
    BY <1>5, <2>1, <2>2, DoesBoth DEF NoneUndone
  <2> HIDE DEF y
  <2>4. Does(z, T, DoClear(d) \cup DoSend(d) \cup DoShow(d) \cup DoDrop(d))
    BY <1>5, <2>1, <2>3, DoesBoth DEF NoneUndone
  <2> HIDE DEF z
  <2>5. Does(w, T, DoClear(d) \cup DoSend(d) \cup DoShow(d) \cup DoDrop(d) \cup DoMove(d))
    BY <1>5, <2>1, <2>4, DoesBoth DEF NoneUndone
  <2>6. main.actions = w
    BY <1>6 DEF x, y, z
  <2> HIDE DEF w
  <2>7. QED BY <1>5, <2>1, <2>5, <2>6, DoesBoth DEF NoneUndone
<1> DEFINE X == DoClear(d) \cup DoSend(d) \cup DoShow(d) \cup DoDrop(d) \cup DoMove(d) \cup DoRemove(d)
<1> HIDE DEF kept, s0, s1, later
<1>22. Does(s2, T, X \cup DoStage(d))
  <2>1. SentAhead(d, kept) = DoStage(d)
    <3>1. AheadOf(d, kept) = AheadOnes(d)
      BY <1>18 DEF AheadOnes, AheadOf
    <3>2. QED BY <3>1 DEF DoStage, SentAhead
  <2>2. NoneUndoes(DoStage(d), X \cup DoStage(d))
    BY <1>5 DEF NoneUndone, NoneUndoes
  <2>3. Does(s1, ActionsOf(inp), X)
    BY <1>20, <1>21 DEF T
  <2> HIDE DEF X
  <2>4. NoneUndoes(SentAhead(d, kept), X \cup SentAhead(d, kept))
    BY <2>1, <2>2
  <2>5. Does(WithStagedAhead(d, kept, s1), ActionsOf(inp), X \cup SentAhead(d, kept))
    BY <1>2, <2>3, <2>4, StagesDo
  <2>6. QED BY <2>1, <2>5 DEF T
<1>23. X \cup DoStage(d) = Doings(d)
  BY DEF Doings
<1> HIDE DEF X, s2
<1>24. QED BY <1>1, <1>3, <1>15, <1>22, <1>23 DEF T

(* The plan as a list: its parts one after another, undoing nothing.       *)
LEMMA PlanInOrder ==
  ASSUME NEW inp, InputOK(inp), inp.maxBytes = None, NEW d, d = DraftIn(inp),
         d.c.corrupt = {}, d.c.orphan = {}
  PROVE  /\ Orderly(Plan(inp)) /\ Plan(inp) \in Seq(ActionsOf(inp))
         /\ RootTaken(Acts(Plan(inp))) = RootTaken(Doings(d))
         /\ RootPut(Acts(Plan(inp))) = RootPut(Doings(d))
         /\ StagingPut(Acts(Plan(inp))) = StagingPut(Doings(d))
         /\ StagingTaken(Acts(Plan(inp))) = StagingTaken(Doings(d))
         /\ Doings(d) = {} => Plan(inp) = <<>>
<1> DEFINE exists == inp.remote.stagingExists
           T == ActionsOf(inp)
<1>1. PICK s : Does(s, T, Doings(d)) /\ Plan(inp) = WithStagingDir(s, exists)
  BY PlanDoes
<1>2. s \in Seq(T) /\ Orderly(s) /\ Acts(s) = Doings(d)
  BY <1>1 DEF Does
<1>3. /\ Orderly(WithStagingDir(s, exists))
      /\ RootTaken(Acts(WithStagingDir(s, exists))) = RootTaken(Acts(s))
      /\ RootPut(Acts(WithStagingDir(s, exists))) = RootPut(Acts(s))
      /\ StagingPut(Acts(WithStagingDir(s, exists))) = StagingPut(Acts(s))
      /\ StagingTaken(Acts(WithStagingDir(s, exists))) = StagingTaken(Acts(s))
  <2> HIDE DEF exists
  <2>1. QED BY <1>2, OrderlyWithStagingDir DEF T
<1>4. ASSUME Doings(d) = {} PROVE Plan(inp) = <<>>
  <2>1. s = <<>>
    <3> HIDE DEF T
    <3>1. Len(s) \in Nat /\ ~ \E i \in 1 .. Len(s) : TRUE
      BY <1>2, <1>4 DEF Acts
    <3>2. Len(s) = 0
      BY <3>1
    <3>3. QED BY <1>2, <3>2
  <2>2. {i \in DOMAIN s : s[i].kind \in {"upload", "deactivate"}} = {}
    BY <2>1
  <2>3. WithStagingDir(s, exists) = s
    BY <2>2 DEF WithStagingDir
  <2>4. QED BY <1>1, <2>1, <2>3
<1>5. Plan(inp) \in Seq(T)
  BY PlansAreSafe DEF Safe
<1>6. QED BY <1>1, <1>2, <1>3, <1>4, <1>5

-----------------------------------------------------------------------------
(* Which names the items have                                              *)

NumbersIn(d) ==
  LET ids     == [i \in DOMAIN d.wants |-> d.wants[i].video.id]
      current == [id \in ToSet(ids) \cap DOMAIN d.c.managed |-> Head(d.c.managed[id]).nnn]
  IN  AssignPrefixes(ids, current)

(* A video that is put off, as its .part may still be growing.             *)
PutOff(v, c, busy) == v.id \notin DOMAIN c.managed /\ v.sha \notin c.staged /\ v.sha \in busy

(* Each of the first k wants that is not put off has the name it is to     *)
(* have, and nothing else is there.                                        *)
GivenTo(inp, c, wants, prefixes, busy, k, items) ==
  /\ items \in Seq(ItemsFor(inp))
  /\ \A m \in 1 .. Len(items) : \E i \in 1 .. k :
       /\ items[m].video = wants[i].video /\ ~ PutOff(wants[i].video, c, busy)
       /\ items[m].name = ActiveName(prefixes[wants[i].video.id], wants[i].video)
  /\ \A i \in 1 .. k : ~ PutOff(wants[i].video, c, busy) =>
       \E m \in 1 .. Len(items) : items[m].video = wants[i].video

(* A name with a title of its own is taken by nothing but its video.       *)
OwnNamesOnly(c, wants, occupied) ==
  \A i \in 1 .. Len(wants) : \A p : ActiveName(p, wants[i].video) \in occupied =>
    ActiveName(p, wants[i].video) = CurrentName(wants[i].video, c)

LEMMA NextGiven ==
  ASSUME NEW inp, InputOK(inp), NEW c, ClassOK(inp, c),
         NEW wants, Schedule(wants, inp.wants), NEW occupied, NEW prefixes, NEW busy,
         \A i \in 1 .. Len(wants) : prefixes[wants[i].video.id] \in 1 .. MaxPrefix,
         OwnNamesOnly(c, wants, occupied),
         NEW i \in 1 .. Len(wants), NEW items, GivenTo(inp, c, wants, prefixes, busy, i - 1, items)
  PROVE  GivenTo(inp, c, wants, prefixes, busy, i, PlaceNext(items, i, wants, c, prefixes, occupied, busy))
<1> DEFINE next     == PlaceNext(items, i, wants, c, prefixes, occupied, busy)
           v        == wants[i].video
           current  == CurrentName(v, c)
           wanted   == prefixes[v.id]
           name     == ActiveName(wanted, v)
           item     == [video |-> v, name |-> name]
           clash(n) == \/ \E k \in DOMAIN items : items[k].name = n
                       \/ n \in occupied /\ n # current
           waits    == current = None /\ v.sha \in busy /\ Missing(v, c)
<1>1. /\ items \in Seq(ItemsFor(inp)) /\ Len(items) \in Nat /\ DOMAIN items = 1 .. Len(items)
      /\ i \in Nat /\ Len(wants) \in Nat /\ i >= 1 /\ i <= Len(wants)
  BY DEF GivenTo, Schedule
<1>2. \A k \in 1 .. i - 1 : k \in 1 .. Len(wants) /\ k # i /\ k \in 1 .. i
  BY <1>1
<1>3. \A k \in 1 .. Len(items) : items[k].name # name
  <2>1. ASSUME NEW k \in 1 .. Len(items), items[k].name = name PROVE FALSE
    <3>1. PICK j \in 1 .. i - 1 : items[k].name = ActiveName(prefixes[wants[j].video.id], wants[j].video)
      BY DEF GivenTo
    <3>2. items[k].name.sha = wants[j].video.sha
      BY <3>1 DEF ActiveName
    <3>3. name.sha = v.sha
      BY DEF ActiveName
    <3>4. wants[j].video.sha = wants[i].video.sha
      BY <2>1, <3>2, <3>3
    <3>5. QED BY <1>2, <3>4 DEF Schedule
  <2>2. QED BY <2>1
<1>4. ~ clash(name)
  BY <1>1, <1>3 DEF OwnNamesOnly
<1>5. v \in inp.library /\ wanted \in Nat
  <2>1. wants[i] \in inp.wants /\ wanted \in 1 .. MaxPrefix
    BY DEF Schedule
  <2>2. QED BY <2>1, PrefixAssumption DEF InputOK, WantsFor
<1>6. name \in NamesFor(inp.library) /\ name # None
  <2>1. name \in NamesFor(inp.library)
    <3> HIDE DEF v, wanted
    <3>1. QED BY <1>5, NameOfVideo
  <2>2. QED BY <2>1 DEF InputOK
<1>7. waits <=> PutOff(v, c, busy)
  <2>1. current = None <=> v.id \notin DOMAIN c.managed
    BY CurrentIsAName
  <2>2. QED BY <2>1 DEF PutOff, Missing
<1>8. next = IF waits THEN items ELSE Append(items, item)
  BY <1>4, <1>6 DEF PlaceNext
<1>9. item \in ItemsFor(inp) /\ item.video = v /\ item.name = name
  BY <1>5, <1>6 DEF ItemsFor
<1>10. \A k \in 1 .. i : k = i \/ k \in 1 .. i - 1
  BY <1>1
<1>11. CASE waits
  <2>1. next = items /\ PutOff(wants[i].video, c, busy)
    BY <1>7, <1>8, <1>11
  <2> HIDE DEF next
  <2>2. GivenTo(inp, c, wants, prefixes, busy, i, items)
    BY <1>2, <1>10, <2>1 DEF GivenTo
  <2>3. QED BY <2>1, <2>2 DEF next
<1>12. CASE ~ waits
  <2> DEFINE T == ItemsFor(inp)
             n == Len(items)
  <2>1. items \in Seq(T) /\ item \in T /\ next = Append(items, item) /\ ~ PutOff(wants[i].video, c, busy)
    BY <1>1, <1>7, <1>8, <1>9, <1>12
  <2> HIDE DEF next, item, T
  <2>2. /\ next \in Seq(T) /\ Len(next) = n + 1 /\ n \in Nat /\ next[n + 1] = item
        /\ \A m \in 1 .. n : next[m] = items[m]
    BY <2>1
  <2>3. \A m \in 1 .. n + 1 : m = n + 1 \/ m \in 1 .. n
    BY <2>2
  <2>4. \A m \in 1 .. n : m \in 1 .. n + 1
    BY <2>2
  <2>5. n + 1 \in 1 .. n + 1
    BY <2>2
  <2>6. ASSUME NEW m \in 1 .. n + 1
        PROVE  \E k \in 1 .. i : /\ next[m].video = wants[k].video /\ ~ PutOff(wants[k].video, c, busy)
                                 /\ next[m].name = ActiveName(prefixes[wants[k].video.id], wants[k].video)
    <3>1. CASE m = n + 1
      <4>1. next[m].video = wants[i].video /\ next[m].name = ActiveName(prefixes[wants[i].video.id], wants[i].video)
        BY <1>9, <2>2, <3>1
      <4>2. i \in 1 .. i
        BY <1>1
      <4>3. QED BY <2>1, <4>1, <4>2
    <3>2. CASE m # n + 1
      <4>1. m \in 1 .. n /\ next[m] = items[m]
        BY <2>2, <2>3, <3>2
      <4>2. PICK k \in 1 .. i - 1 : /\ items[m].video = wants[k].video /\ ~ PutOff(wants[k].video, c, busy)
                                    /\ items[m].name = ActiveName(prefixes[wants[k].video.id], wants[k].video)
        BY <4>1 DEF GivenTo
      <4>3. QED BY <1>2, <4>1, <4>2
    <3>3. QED BY <3>1, <3>2
  <2>7. ASSUME NEW k \in 1 .. i, ~ PutOff(wants[k].video, c, busy)
        PROVE  \E m \in 1 .. n + 1 : next[m].video = wants[k].video
    <3>1. CASE k = i
      <4>1. next[n + 1].video = wants[k].video
        BY <1>9, <2>2, <3>1
      <4>2. QED BY <2>5, <4>1
    <3>2. CASE k # i
      <4>1. PICK m \in 1 .. n : items[m].video = wants[k].video
        BY <1>10, <2>7, <3>2 DEF GivenTo
      <4>2. QED BY <2>2, <2>4, <4>1
    <3>3. QED BY <3>1, <3>2
  <2>8. GivenTo(inp, c, wants, prefixes, busy, i, next)
    BY <2>2, <2>6, <2>7 DEF GivenTo, T
  <2>9. QED BY <2>8 DEF next
<1>13. QED BY <1>11, <1>12

LEMMA AllGiven ==
  ASSUME NEW inp, InputOK(inp), NEW c, ClassOK(inp, c),
         NEW wants, Schedule(wants, inp.wants), NEW occupied, NEW prefixes, NEW busy,
         \A i \in 1 .. Len(wants) : prefixes[wants[i].video.id] \in 1 .. MaxPrefix,
         OwnNamesOnly(c, wants, occupied)
  PROVE  GivenTo(inp, c, wants, prefixes, busy, Len(wants), PlacedItems(wants, c, prefixes, occupied, busy))
<1> DEFINE n == Len(wants)
           step(items, k) == PlaceNext(items, k, wants, c, prefixes, occupied, busy)
<1>1. n \in Nat
  BY DEF Schedule
<1>2. PICK placed : PlacedBy(wants, c, prefixes, occupied, busy, placed)
  BY PlacedStepByStep
<1>3. placed[0] = <<>> /\ \A k \in 1 .. n : placed[k] = step(placed[k - 1], k)
  BY <1>2 DEF PlacedBy
<1>4. \A k \in 1 .. n : GivenTo(inp, c, wants, prefixes, busy, k - 1, placed[k - 1]) =>
        GivenTo(inp, c, wants, prefixes, busy, k, step(placed[k - 1], k))
  BY NextGiven
<1> HIDE DEF step, n
<1> DEFINE Good == {k \in 0 .. n : GivenTo(inp, c, wants, prefixes, busy, k, placed[k])}
<1>5. 0 \in Good
  <2>1. <<>> \in Seq(ItemsFor(inp)) /\ Len(<<>>) = 0 /\ 1 .. 0 = {}
    OBVIOUS
  <2>2. GivenTo(inp, c, wants, prefixes, busy, 0, <<>>)
    BY <2>1 DEF GivenTo
  <2>3. QED BY <1>1, <1>3, <2>2
<1>6. \A k \in 1 .. n : k - 1 \in Good => k \in Good
  <2>1. \A k \in 1 .. n : k \in 0 .. n
    BY <1>1
  <2>2. QED BY <1>3, <1>4, <2>1
<1>7. n \in Good
  <2> HIDE DEF Good
  <2>1. \A k \in 0 .. n : k \in Good
    BY <1>1, <1>5, <1>6, Climb
  <2>2. QED BY <1>1, <2>1
<1>8. QED BY <1>2, <1>7 DEF PlacedBy, n

(* The items of a draft.                                                   *)
LEMMA ItemsGiven ==
  ASSUME NEW inp, InputOK(inp), OwnTitles(inp), NEW d, d = DraftIn(inp)
  PROVE  GivenTo(inp, d.c, d.wants, NumbersIn(d), BusyContents(inp.remote, inp.now), Len(d.wants), d.items)
<1> DEFINE ids     == [i \in DOMAIN d.wants |-> d.wants[i].video.id]
           current == [id \in ToSet(ids) \cap DOMAIN d.c.managed |-> Head(d.c.managed[id]).nnn]
           numbers == AssignPrefixes(ids, current)
           occupied == DOMAIN inp.remote.root \ d.extra
<1>1. DraftOK(inp, d) /\ d.c = Classify(inp.remote, inp.library)
  BY DraftIsOK DEF DraftIn, DraftOf
<1>2. ClassOK(inp, d.c) /\ Schedule(d.wants, inp.wants)
  BY <1>1 DEF DraftOK
<1>3. d.items = PlacedItems(d.wants, d.c, numbers, occupied, BusyContents(inp.remote, inp.now))
  BY DEF DraftIn, DraftOf, DesiredItems
<1>4. numbers = NumbersIn(d)
  BY DEF NumbersIn
<1>5. \A i \in 1 .. Len(d.wants) : NumbersIn(d)[d.wants[i].video.id] \in 1 .. MaxPrefix
  BY <1>2, <1>4, PrefixesGiven
<1> DEFINE owned == {d.wants[i].video.id : i \in DOMAIN d.wants}
<1>6. d.extra = FurtherCopies(d.c, owned)
  BY DEF DraftIn, DraftOf
<1>7. OwnNamesOnly(d.c, d.wants, occupied)
  <2>1. ASSUME NEW i \in 1 .. Len(d.wants), NEW p, ActiveName(p, d.wants[i].video) \in occupied
        PROVE  ActiveName(p, d.wants[i].video) = CurrentName(d.wants[i].video, d.c)
    <3>1. DOMAIN d.wants = 1 .. Len(d.wants) /\ d.wants[i] \in inp.wants
      BY <1>2 DEF Schedule
    <3>2. d.wants[i].video \in inp.library /\ d.wants[i].video.id \in owned
      BY <3>1 DEF InputOK, WantsFor
    <3> HIDE DEF owned
    <3>3. QED BY <1>1, <1>6, <2>1, <3>2, OnlyItsOwnName
  <2>2. QED BY <2>1 DEF OwnNamesOnly
<1> HIDE DEF numbers, occupied
<1>8. QED BY <1>2, <1>3, <1>4, <1>5, <1>7, AllGiven

-----------------------------------------------------------------------------
(* What a folder with one's own titles only is read as                     *)

NameOf(v, n)   == v.slug = n.slug /\ v.sha = n.sha
Titled(inp, n) == \E v \in inp.library : NameOf(v, n)

LEMMA CopiesAreTitled ==
  ASSUME NEW inp, InputOK(inp), OwnTitles(inp), NEW c, c = Classify(inp.remote, inp.library)
  PROVE  /\ AppNames(inp) = {n \in DOMAIN inp.remote.root : Titled(inp, n)}
         /\ \A v \in inp.library :
              /\ v.id \in DOMAIN c.managed =>
                   \A k \in 1 .. Len(c.managed[v.id]) :
                     c.managed[v.id][k] \in DOMAIN inp.remote.root /\ NameOf(v, c.managed[v.id][k])
              /\ \A n \in DOMAIN inp.remote.root : NameOf(v, n) =>
                   v.id \in DOMAIN c.managed /\ \E k \in 1 .. Len(c.managed[v.id]) : c.managed[v.id][k] = n
         /\ \A id \in DOMAIN c.managed : Len(c.managed[id]) >= 1 /\ \E v \in inp.library : v.id = id
<1> DEFINE managed == c.managed
           R == DOMAIN inp.remote.root
<1>1. ClassOK(inp, c)
  BY ClassifyIsOK
<1>2. AppNames(inp) = {n \in R : Titled(inp, n)}
  BY DEF AppNames, Matches, OwnTitles, Titled, NameOf
<1>3. \A id \in DOMAIN managed :
        /\ managed[id] \in Seq(AppNames(inp)) /\ Len(managed[id]) >= 1
        /\ \E u \in inp.library : u.id = id /\ \A k \in 1 .. Len(managed[id]) : Matches(u, managed[id][k], inp.remote.root)
  BY <1>1 DEF ClassOK, CopiesApart
<1>4. ASSUME NEW v \in inp.library, v.id \in DOMAIN managed, NEW k \in 1 .. Len(managed[v.id])
      PROVE  managed[v.id][k] \in R /\ NameOf(v, managed[v.id][k])
  <2> DEFINE s == managed[v.id]
             S == AppNames(inp)
  <2>1. PICK u \in inp.library : u.id = v.id /\ Matches(u, s[k], inp.remote.root)
    BY <1>3, <1>4
  <2>2. u = v
    BY <2>1 DEF InputOK, LibraryOK
  <2>3. s \in Seq(S) /\ k \in 1 .. Len(s)
    BY <1>3, <1>4
  <2> HIDE DEF s, S
  <2>4. s[k] \in S
    BY <2>3
  <2>5. s[k] \in R
    BY <1>2, <2>4 DEF S
  <2>6. QED BY <2>1, <2>2, <2>5 DEF Matches, NameOf, s
<1>5. ASSUME NEW v \in inp.library, NEW n \in R, NameOf(v, n)
      PROVE  v.id \in DOMAIN managed /\ \E k \in 1 .. Len(managed[v.id]) : managed[v.id][k] = n
  <2>1. n \in AppNames(inp)
    BY <1>2, <1>5 DEF Titled
  <2>2. PICK id \in DOMAIN managed : \E k \in 1 .. Len(managed[id]) : managed[id][k] = n
    BY <2>1, EveryCopyIsListed
  <2>3. PICK u \in inp.library : u.id = id /\ Matches(u, n, inp.remote.root)
    BY <1>3, <2>2
  <2>4. u = v
    BY <1>5, <2>3 DEF Matches, NameOf, OwnTitles
  <2>5. QED BY <2>2, <2>3, <2>4
<1>6. QED BY <1>2, <1>3, <1>4, <1>5

(* Every file with a whole name in staging is a whole library video.       *)
Whole(inp) ==
  \A s \in DOMAIN inp.remote.staging : ~ s.part =>
    \E v \in inp.library : v.sha = s.sha /\ v.size = inp.remote.staging[s].size

LEMMA WholeIsStaged ==
  ASSUME NEW inp, InputOK(inp), Whole(inp), NEW c, c = Classify(inp.remote, inp.library)
  PROVE  /\ c.corrupt = {} /\ c.orphan = {}
         /\ \A x : x \in c.staged <=> Staged(x) \in DOMAIN inp.remote.staging
         /\ c.parts = {s \in DOMAIN inp.remote.staging : s.part}
<1> DEFINE S           == DOMAIN inp.remote.staging
           whole       == {s \in S : ~ s.part}
           known(s)    == {v \in inp.library : v.sha = s.sha}
           complete(s) == \E v \in known(s) : v.size = inp.remote.staging[s].size
<1>1. /\ c.staged = {s.sha : s \in {t \in whole : complete(t)}}
      /\ c.corrupt = {s.sha : s \in {t \in whole : known(t) # {} /\ ~ complete(t)}}
      /\ c.orphan = {s.sha : s \in {t \in whole : known(t) = {}}}
      /\ c.parts = {s \in S : s.part}
  BY DEF Classify
<1>2. \A s \in whole : complete(s) /\ known(s) # {}
  BY DEF Whole
<1>3. {t \in whole : known(t) # {} /\ ~ complete(t)} = {} /\ {t \in whole : known(t) = {}} = {}
  BY <1>2
<1>4. {t \in whole : complete(t)} = whole
  BY <1>2
<1>5. c.corrupt = {} /\ c.orphan = {}
  BY <1>1, <1>3
<1>6. c.staged = {s.sha : s \in whole}
  BY <1>1, <1>4
<1>7. ASSUME NEW x \in c.staged PROVE Staged(x) \in S
  <2>1. PICK s \in S : ~ s.part /\ s.sha = x
    BY <1>6, <1>7
  <2>2. s = Staged(x)
    BY <2>1 DEF InputOK, Staged
  <2>3. QED BY <2>1, <2>2
<1>8. ASSUME NEW x, Staged(x) \in S PROVE x \in c.staged
  <2>1. ~ Staged(x).part /\ Staged(x).sha = x
    BY DEF Staged
  <2> DEFINE s == Staged(x)
  <2> HIDE DEF s
  <2>2. s \in whole /\ s.sha = x
    BY <1>8, <2>1 DEF s
  <2>3. QED BY <1>6, <2>2
<1>9. QED BY <1>1, <1>5, <1>7, <1>8

-----------------------------------------------------------------------------
(* What a plan takes from the folders and puts into them                   *)

RootTakenAre(d) ==
  \A n : n \in RootTaken(Doings(d)) <=>
           \/ n \in d.extra
           \/ \E m \in 1 .. Len(d.items) : Moves(d, m) /\ n = CurrentName(d.items[m].video, d.c)
           \/ Lasts(d, {}) /\ n \in Retired(d) \cup Asked(d)
RootPutAre(d) ==
  \A n : n \in RootPut(Doings(d)) <=>
           \E m \in 1 .. Len(d.items) : n = d.items[m].name /\ (m \in ShownItems(d) \/ Moves(d, m))

KindsDone(d) ==
  /\ \A a \in DoClear(d) : a.kind \in StagingDeletes
  /\ \A a \in DoSend(d) : a.kind = "upload"
  /\ \A a \in DoShow(d) : a.kind = "activate"
  /\ \A a \in DoDrop(d) : a.kind = "delete_active"
  /\ \A a \in DoMove(d) : a.kind = "reorder"
  /\ \A a \in DoRemove(d) : a.kind \in Drops
  /\ \A a \in DoStage(d) : a.kind = "upload"

LEMMA KindsAre ==
  ASSUME NEW inp, InputOK(inp), NEW d, DraftOK(inp, d)
  PROVE  KindsDone(d)
<1>1. \A a \in DoClear(d) : a.kind \in StagingDeletes
  BY DoneFirst DEF StagingDeletes
<1>2. \A a \in DoSend(d) : a.kind = "upload"
  BY DoneFirst
<1>3. \A a \in DoShow(d) : a.kind = "activate"
  BY DoneFirst
<1>4. \A a \in DoDrop(d) : a.kind = "delete_active"
  BY DoneNext
<1>5. \A a \in DoMove(d) : a.kind = "reorder"
  BY DoneNext
<1>6. \A a \in DoRemove(d) : a.kind \in Drops
  BY DoneNext DEF DoneLast, SetAside, Drops
<1>7. \A a \in DoStage(d) : a.kind = "upload"
  BY DoneNext
<1>8. QED BY <1>1, <1>2, <1>3, <1>4, <1>5, <1>6, <1>7 DEF KindsDone

LEMMA RootDone ==
  ASSUME NEW inp, InputOK(inp), NEW d, DraftOK(inp, d)
  PROVE  RootTakenAre(d) /\ RootPutAre(d)
<1> DEFINE D == Doings(d)
           C == CopiesOf(d.c, DOMAIN d.c.managed \ Placed(d))
<1>1. KindsDone(d)
  BY KindsAre
<1>2. {a \in D : a.kind \in Takes} = DoDrop(d) \cup DoMove(d) \cup DoRemove(d)
  BY <1>1 DEF KindsDone, Doings, Takes, Drops, StagingDeletes
<1>3. {a \in D : a.kind \in Puts} = DoShow(d) \cup DoMove(d)
  BY <1>1 DEF KindsDone, Doings, Puts, Drops, StagingDeletes
<1> HIDE DEF D
<1>4. RootTaken(D) = {a.src : a \in DoDrop(d) \cup DoMove(d) \cup DoRemove(d)}
  BY <1>2 DEF RootTaken
<1>5. RootPut(D) = {a.dst : a \in DoShow(d) \cup DoMove(d)}
  BY <1>3 DEF RootPut
<1>6. \A n : n \in {a.src : a \in DoDrop(d)} <=> n \in d.extra
  <2>1. \A n : DeleteActive(n).src = n
    BY DEF DeleteActive, Act
  <2>2. QED BY <2>1 DEF DoDrop
<1>7. \A n : /\ n \in {a.src : a \in DoMove(d)}
               <=> \E m \in 1 .. Len(d.items) : Moves(d, m) /\ n = CurrentName(d.items[m].video, d.c)
             /\ n \in {a.dst : a \in DoMove(d)}
               <=> \E m \in 1 .. Len(d.items) : Moves(d, m) /\ n = d.items[m].name
  <2>1. \A m : /\ Move(d, d.items[m]).src = CurrentName(d.items[m].video, d.c)
               /\ Move(d, d.items[m]).dst = d.items[m].name
    BY DEF Move, Reorder, Act
  <2>2. \A a : a \in DoMove(d) <=> \E m \in 1 .. Len(d.items) : Moves(d, m) /\ a = Move(d, d.items[m])
    BY DEF DoMove
  <2>3. QED BY <2>1, <2>2
<1>8. \A n : n \in {a.dst : a \in DoShow(d)} <=> \E m \in ShownItems(d) : n = d.items[m].name
  <2>1. \A m : Activate(d.items[m]).dst = d.items[m].name
    BY DEF Activate, Act
  <2>2. QED BY <2>1 DEF DoShow
<1>9. ASSUME Lasts(d, {}) PROVE \A n : n \in {a.src : a \in DoRemove(d)} <=> n \in Retired(d) \cup Asked(d)
  <2>1. DoRemove(d) = {Retirement(d, ReadyIn(d), x) : x \in C} \cup {DeleteLegacy(n) : n \in Asked(d)}
    BY <1>9 DEF DoRemove, OutOf
  <2>2. \A n : DeleteLegacy(n).src = n
    BY DEF DeleteLegacy, Act
  <2>3. \A x \in C : CopyAt(d.c, DOMAIN d.c.managed \ Placed(d), x)
    BY CopiesEnumerate DEF DraftOK
  <2>4. \A x \in C : /\ Retirement(d, ReadyIn(d), x).src = d.c.managed[x.id][x.k]
                     /\ d.c.managed[x.id][x.k] \in Retired(d)
    BY <2>3, RetirementTakes
  <2>5. ASSUME NEW n \in Retired(d) PROVE \E x \in C : n = d.c.managed[x.id][x.k]
    <3>1. PICK id \in DOMAIN d.c.managed \ Placed(d) : \E k \in 1 .. Len(d.c.managed[id]) : n = d.c.managed[id][k]
      BY DEF Retired
    <3>2. PICK k \in 1 .. Len(d.c.managed[id]) : n = d.c.managed[id][k]
      BY <3>1
    <3>3. DOMAIN d.c.managed[id] = 1 .. Len(d.c.managed[id])
      <4>1. d.c.managed[id] \in Seq(AppNames(inp))
        BY <3>1 DEF DraftOK, ClassOK, CopiesApart
      <4> HIDE DEF AppNames
      <4>2. QED BY <4>1
    <3> DEFINE x == [id |-> id, k |-> k]
    <3>4. x \in C /\ x.id = id /\ x.k = k
      BY <3>2, <3>3 DEF CopiesOf
    <3>5. QED BY <3>2, <3>4
  <2> HIDE DEF C
  <2>6. QED BY <2>1, <2>2, <2>4, <2>5
<1>10. ~ Lasts(d, {}) => DoRemove(d) = {}
  BY DEF DoRemove
<1>11. RootTakenAre(d)
  <2>1. \A n : n \in RootTaken(D) <=> \/ n \in {a.src : a \in DoDrop(d)} \/ n \in {a.src : a \in DoMove(d)}
                                      \/ n \in {a.src : a \in DoRemove(d)}
    BY <1>4
  <2>2. QED BY <1>6, <1>7, <1>9, <1>10, <2>1 DEF RootTakenAre, D
<1>12. RootPutAre(d)
  <2>1. \A n : n \in RootPut(D) <=> n \in {a.dst : a \in DoShow(d)} \/ n \in {a.dst : a \in DoMove(d)}
    BY <1>5
  <2>2. ShownItems(d) \subseteq 1 .. Len(d.items)
    BY DEF ShownItems
  <2>3. QED BY <1>7, <1>8, <2>1, <2>2 DEF RootPutAre, D
<1>13. QED BY <1>11, <1>12

(* What it puts into staging, and what it takes from there.                *)
StagingPutAre(d) ==
  /\ \A y \in StagingPut(Doings(d)) :
       \/ \E m \in SentItems(d) : y = Staged(d.items[m].video.sha)
       \/ \E k \in DOMAIN d.keep : y = Staged(d.keep[k].video.sha)
  /\ \A k \in AheadOnes(d) : Staged(d.keep[k].video.sha) \in StagingPut(Doings(d))
  /\ \A a \in DoRemove(d) : a.kind = "deactivate" => a.dst \in StagingPut(Doings(d))
StagingTakenAre(d) ==
  /\ \A y \in StagingTaken(Doings(d)) :
       \/ \E x \in d.c.staged \ Needed(d) : y = Staged(x)
       \/ \E p \in Stale(d) : y = Part(p.sha)
       \/ \E m \in ShownItems(d) : y = Staged(d.items[m].video.sha)
       \/ \E m \in SentItems(d) : y = Part(d.items[m].video.sha)
       \/ \E k \in AheadOnes(d) : y = Part(d.keep[k].video.sha)
  /\ \A x \in d.c.staged \ Needed(d) : Staged(x) \in StagingTaken(Doings(d))
  /\ \A p \in Stale(d) : Part(p.sha) \in StagingTaken(Doings(d))
  /\ \A m \in ShownItems(d) : Staged(d.items[m].video.sha) \in StagingTaken(Doings(d))
  /\ \A m \in SentItems(d) : Part(d.items[m].video.sha) \in StagingTaken(Doings(d))

LEMMA StagingDone ==
  ASSUME NEW inp, InputOK(inp), NEW d, d = DraftIn(inp), d.c.corrupt = {}, d.c.orphan = {}
  PROVE  StagingPutAre(d) /\ StagingTakenAre(d)
<1> DEFINE D == Doings(d)
           U == DoSend(d) \cup DoStage(d)
           O == {a \in DoRemove(d) : a.kind = "deactivate"}
<1>1. DraftOK(inp, d)
  BY DraftIsOK
<1>2. KindsDone(d)
  BY <1>1, KindsAre
<1>3. {a \in D : a.kind \in Staging} = U \cup O
  BY <1>2 DEF KindsDone, Doings, Staging, Drops, StagingDeletes
<1>4. {a \in D : a.kind \in FromStaging} = DoClear(d) \cup DoShow(d)
  BY <1>2 DEF KindsDone, Doings, FromStaging, Drops, StagingDeletes
<1>5. {a \in D : a.kind = "upload"} = U
  BY <1>2 DEF KindsDone, Doings, Drops, StagingDeletes
<1> HIDE DEF D
<1>6. StagingPut(D) = {a.dst : a \in U \cup O}
  BY <1>3 DEF StagingPut
<1>7. StagingTaken(D) = {a.src : a \in DoClear(d) \cup DoShow(d)} \cup {Part(a.video.sha) : a \in U}
  BY <1>4, <1>5 DEF StagingTaken
<1>8. \A v : Upload(v).dst = Staged(v.sha) /\ Upload(v).video = v
  BY DEF Upload, Act
<1>9. \A m : Activate(d.items[m]).src = Staged(d.items[m].video.sha)
  BY DEF Activate, Act
<1>10. \A x : DeleteStaged(x).src = Staged(x) /\ DeletePart(x).src = Part(x)
  BY DEF DeleteStaged, DeletePart, Act
<1>11. /\ \A a \in DoSend(d) : \E m \in SentItems(d) : a.video = d.items[m].video /\ a.dst = Staged(d.items[m].video.sha)
       /\ \A a \in DoStage(d) : \E k \in AheadOnes(d) : a.video = d.keep[k].video /\ a.dst = Staged(d.keep[k].video.sha)
  BY <1>1, DoneFirst, DoneNext
<1>12. AheadOnes(d) \subseteq DOMAIN d.keep
  BY KeptApart DEF AheadOnes
<1>13. ASSUME NEW a \in O PROVE \E k \in DOMAIN d.keep : a.dst = Staged(d.keep[k].video.sha)
  <2>1. DoneLast(d, a) /\ a.kind = "deactivate"
    BY <1>1, DoneNext
  <2>2. \E x : SetAside(d, a, x)
    BY <2>1 DEF DoneLast
  <2>3. QED BY <2>2 DEF SetAside
<1>14. /\ \A a \in DoClear(d) : \/ \E x \in d.c.staged \ Needed(d) : a.src = Staged(x)
                                \/ \E p \in Stale(d) : a.src = Part(p.sha)
       /\ \A a \in DoShow(d) : \E m \in ShownItems(d) : a.src = Staged(d.items[m].video.sha)
  BY DoneFirst
<1>15. \A k \in AheadOnes(d) : Upload(d.keep[k].video) \in U
  BY DEF DoStage
<1>16. \A m \in SentItems(d) : Upload(d.items[m].video) \in U
  BY DEF DoSend
<1>17. \A m \in ShownItems(d) : Activate(d.items[m]) \in DoShow(d)
  BY DEF DoShow
<1>18. /\ \A x \in d.c.staged \ Needed(d) : DeleteStaged(x) \in DoClear(d)
       /\ \A p \in Stale(d) : DeletePart(p.sha) \in DoClear(d)
  BY DEF DoClear
<1>19. StagingPutAre(d)
  <2>1. ASSUME NEW y \in StagingPut(D)
        PROVE  \/ \E m \in SentItems(d) : y = Staged(d.items[m].video.sha)
               \/ \E k \in DOMAIN d.keep : y = Staged(d.keep[k].video.sha)
    <3>1. PICK a \in U \cup O : y = a.dst
      BY <1>6
    <3>2. QED BY <1>11, <1>12, <1>13, <3>1
  <2>2. \A k \in AheadOnes(d) : Staged(d.keep[k].video.sha) \in StagingPut(D)
    BY <1>6, <1>8, <1>15
  <2>3. \A a \in DoRemove(d) : a.kind = "deactivate" => a.dst \in StagingPut(D)
    BY <1>6
  <2>4. QED BY <2>1, <2>2, <2>3 DEF StagingPutAre, D
<1>20. StagingTakenAre(d)
  <2>1. ASSUME NEW y \in StagingTaken(D)
        PROVE  \/ \E x \in d.c.staged \ Needed(d) : y = Staged(x)
               \/ \E p \in Stale(d) : y = Part(p.sha)
               \/ \E m \in ShownItems(d) : y = Staged(d.items[m].video.sha)
               \/ \E m \in SentItems(d) : y = Part(d.items[m].video.sha)
               \/ \E k \in AheadOnes(d) : y = Part(d.keep[k].video.sha)
    <3>1. CASE \E a \in DoClear(d) \cup DoShow(d) : y = a.src
      BY <1>14, <3>1
    <3>2. CASE \E a \in U : y = Part(a.video.sha)
      BY <1>11, <3>2
    <3>3. QED BY <1>7, <2>1, <3>1, <3>2
  <2>2. \A x \in d.c.staged \ Needed(d) : Staged(x) \in StagingTaken(D)
    BY <1>7, <1>10, <1>18
  <2>3. \A p \in Stale(d) : Part(p.sha) \in StagingTaken(D)
    BY <1>7, <1>10, <1>18
  <2>4. \A m \in ShownItems(d) : Staged(d.items[m].video.sha) \in StagingTaken(D)
    BY <1>7, <1>9, <1>17
  <2>5. \A m \in SentItems(d) : Part(d.items[m].video.sha) \in StagingTaken(D)
    BY <1>7, <1>8, <1>16
  <2>6. QED BY <2>1, <2>2, <2>3, <2>4, <2>5 DEF StagingTakenAre, D
<1>21. QED BY <1>19, <1>20

-----------------------------------------------------------------------------
(* Staging when a plan is done                                             *)

Growing(inp) == BusyContents(inp.remote, inp.now)

LEMMA GrowingAre ==
  ASSUME NEW inp, InputOK(inp), NEW x
  PROVE  x \in Growing(inp) <=> /\ Part(x) \in DOMAIN inp.remote.staging
                             /\ inp.now - inp.remote.staging[Part(x)].mtime \in 0 .. (PartBusyWindow - 1)
<1> DEFINE S == DOMAIN inp.remote.staging
           young(p) == inp.now - inp.remote.staging[p].mtime \in 0 .. (PartBusyWindow - 1)
<1>1. Growing(inp) = {s.sha : s \in {p \in S : p.part /\ young(p)}}
  BY DEF Growing, BusyContents
<1>2. \A p \in S : p.part => p = Part(p.sha)
  BY DEF InputOK, Part
<1>3. Part(x).part /\ Part(x).sha = x
  BY DEF Part
<1> HIDE DEF S, young
<1>4. x \in Growing(inp) <=> \E p \in S : p.part /\ young(p) /\ p.sha = x
  BY <1>1
<1>5. (\E p \in S : p.part /\ young(p) /\ p.sha = x) <=> Part(x) \in S /\ young(Part(x))
  BY <1>2, <1>3
<1>6. QED BY <1>4, <1>5 DEF S, young

(* next has the staging folder of inp when the plan of inp is done: the    *)
(* .part files that are still there are the old ones.                      *)
StagingFollows(inp, d, next) ==
  /\ next.now = inp.now
  /\ DOMAIN next.remote.staging = StagingAfter(DOMAIN inp.remote.staging, Doings(d))
  /\ \A p \in DOMAIN next.remote.staging : p.part =>
       p \in DOMAIN inp.remote.staging /\ next.remote.staging[p].mtime = inp.remote.staging[p].mtime

LEMMA GrowingStays ==
  ASSUME NEW inp, InputOK(inp), NEW next, InputOK(next), NEW d, DraftOK(inp, d),
         StagingTakenAre(d), StagingFollows(inp, d, next), \A p \in d.c.parts : p.part,
         NEW x \in Growing(inp), \A m \in SentItems(d) : d.items[m].video.sha # x
  PROVE  x \in Growing(next)
<1> DEFINE age == inp.now - inp.remote.staging[Part(x)].mtime
<1>1. Part(x) \in DOMAIN inp.remote.staging /\ age \in 0 .. (PartBusyWindow - 1)
  BY GrowingAre
<1>2. Part(x).part /\ Part(x).sha = x /\ \A y : Part(x) # Staged(y) /\ Part(y).sha = y
  BY DEF Part, Staged
<1>3. ASSUME Part(x) \in StagingTaken(Doings(d)) PROVE FALSE
  <2>1. \/ \E p \in Stale(d) : Part(x) = Part(p.sha)
        \/ \E m \in SentItems(d) : Part(x) = Part(d.items[m].video.sha)
        \/ \E k \in AheadOnes(d) : Part(x) = Part(d.keep[k].video.sha)
    BY <1>2, <1>3 DEF StagingTakenAre
  <2>2. \A y : Part(x) = Part(y) => x = y
    BY <1>2
  <2>3. CASE \E p \in Stale(d) : Part(x) = Part(p.sha)
    <3>1. PICK p \in Stale(d) : p.sha = x
      BY <2>2, <2>3
    <3>2. p \in d.c.parts /\ d.inp.now - d.inp.remote.staging[p].mtime > PartMaxAge
      BY <3>1 DEF Stale
    <3>3. d.inp = inp
      BY DEF DraftOK
    <3>4. p \in DOMAIN inp.remote.staging
      BY <3>2 DEF DraftOK, ClassOK
    <3>5. p = Part(x)
      BY <3>1, <3>2, <3>4 DEF InputOK, Part
    <3>6. age > PartMaxAge
      BY <3>2, <3>3, <3>5
    <3> HIDE DEF age
    <3>7. QED BY <1>1, <3>6, PlannerAssumption
  <2>4. CASE \E m \in SentItems(d) : Part(x) = Part(d.items[m].video.sha)
    BY <2>2, <2>4
  <2>5. CASE \E k \in AheadOnes(d) : Part(x) = Part(d.keep[k].video.sha)
    <3>1. PICK k \in AheadOnes(d) : d.keep[k].video.sha = x
      BY <2>2, <2>5
    <3>2. x \notin BusyContents(d.inp.remote, d.inp.now) /\ d.inp = inp
      BY <3>1 DEF AheadOnes, DraftOK
    <3>3. QED BY <3>2 DEF Growing
  <2>6. QED BY <2>1, <2>3, <2>4, <2>5
<1>4. Part(x) \in DOMAIN next.remote.staging
  BY <1>1, <1>3 DEF StagingFollows, StagingAfter
<1>5. next.now - next.remote.staging[Part(x)].mtime = age
  BY <1>2, <1>4 DEF StagingFollows
<1>6. QED BY <1>1, <1>4, <1>5, GrowingAre

(* What is kept ready is there, or about to be retired when something can  *)
(* play on, or may still be growing; nothing else is there, and nothing    *)
(* is too old.                                                             *)
StagingIs(inp, d, next) ==
  /\ \A x : Staged(x) \in DOMAIN next.remote.staging => \E k \in DOMAIN d.keep : x = d.keep[k].video.sha
  /\ \A i \in 1 .. Len(d.wants) : PutOff(d.wants[i].video, d.c, Growing(inp)) => d.wants[i].video.sha \in Growing(next)
  /\ \A p \in DOMAIN next.remote.staging :
       p.part => ~ next.now - next.remote.staging[p].mtime > PartMaxAge
  /\ \A k \in DOMAIN d.keep :
       \/ ~ Lasts(d, {}) /\ d.keep[k].video.id \in DOMAIN d.c.managed
       \/ Staged(d.keep[k].video.sha) \in DOMAIN next.remote.staging
       \/ d.keep[k].video.sha \in Growing(next)

(* A video to be kept ready that leaves the screen goes to staging.        *)
LEMMA KeptGoesOut ==
  ASSUME NEW inp, InputOK(inp), NEW d, DraftOK(inp, d), NEW k \in DOMAIN d.keep,
         d.keep[k].video \in inp.library,
         d.keep[k].video.id \in DOMAIN d.c.managed \ Placed(d),
         d.keep[k].video.sha \notin ReadyIn(d), Lasts(d, {})
  PROVE  \E a \in DoRemove(d) : a.kind = "deactivate" /\ a.dst = Staged(d.keep[k].video.sha)
<1> DEFINE v == d.keep[k].video
           ids == DOMAIN d.c.managed \ Placed(d)
           x == [id |-> v.id, k |-> 1]
           a == Retirement(d, ReadyIn(d), x)
           u == CHOOSE w \in d.inp.library : w.id = x.id
<1>1. x.id = v.id /\ x.k = 1 /\ d.inp = inp
  BY DEF DraftOK
<1>2. 1 \in DOMAIN d.c.managed[v.id]
  <2> DEFINE s == d.c.managed[v.id]
             S == AppNames(inp)
  <2>1. s \in Seq(S) /\ Len(s) >= 1
    BY DEF DraftOK, ClassOK, CopiesApart
  <2> HIDE DEF s, S
  <2>2. 1 \in DOMAIN s
    BY <2>1
  <2>3. QED BY <2>2 DEF s
<1>3. x \in CopiesOf(d.c, ids)
  BY <1>2 DEF CopiesOf
<1>4. a \in DoRemove(d)
  BY <1>3 DEF DoRemove, OutOf
<1>5. u = v
  BY <1>1 DEF InputOK, LibraryOK
<1>6. a = Deactivate(v, d.c.managed[v.id][1])
  <2>1. a = IF x.k = 1 /\ (\E i \in DOMAIN d.keep : d.keep[i].video = u) /\ u.sha \notin ReadyIn(d)
              THEN Deactivate(u, d.c.managed[x.id][x.k]) ELSE DeleteActive(d.c.managed[x.id][x.k])
    BY DEF Retirement
  <2> HIDE DEF a, u
  <2>2. QED BY <1>1, <1>5, <2>1
<1> HIDE DEF a
<1>7. a.kind = "deactivate" /\ a.dst = Staged(v.sha)
  BY <1>6 DEF Deactivate, Act
<1>8. QED BY <1>4, <1>7

LEMMA StagingSettles ==
  ASSUME NEW inp, InputOK(inp), OwnTitles(inp), Whole(inp), NEW d, d = DraftIn(inp),
         NEW next, InputOK(next), StagingFollows(inp, d, next)
  PROVE  StagingIs(inp, d, next)
<1> DEFINE S1 == DOMAIN inp.remote.staging
           S2 == DOMAIN next.remote.staging
           P  == StagingPut(Doings(d))
           G  == StagingTaken(Doings(d))
<1>1. DraftOK(inp, d) /\ d.inp = inp /\ d.c = Classify(inp.remote, inp.library)
  <2>1. DraftOK(inp, d)
    BY DraftIsOK
  <2>2. d.c = Classify(inp.remote, inp.library)
    BY DEF DraftIn, DraftOf
  <2>3. QED BY <2>1, <2>2 DEF DraftOK
<1>2. /\ d.c.corrupt = {} /\ d.c.orphan = {} /\ d.c.parts = {s \in S1 : s.part}
      /\ \A x : x \in d.c.staged <=> Staged(x) \in S1
  BY <1>1, WholeIsStaged
<1>3. StagingPutAre(d) /\ StagingTakenAre(d)
  BY <1>2, StagingDone
<1>4. S2 = (S1 \cup P) \ G
  BY DEF StagingFollows, StagingAfter
<1>5. /\ \A k \in DOMAIN d.keep : /\ d.keep[k].video.sha \in Needed(d)
                                  /\ d.keep[k].video \in inp.library
                                  /\ \A i \in 1 .. Len(d.wants) : d.wants[i].video.sha # d.keep[k].video.sha
                                  /\ \A m \in 1 .. Len(d.items) : d.items[m].video.sha # d.keep[k].video.sha
      /\ SentItems(d) \subseteq ShownItems(d) /\ ShownItems(d) \subseteq 1 .. Len(d.items)
      /\ DOMAIN d.keep = 1 .. Len(d.keep) /\ DOMAIN d.items = 1 .. Len(d.items)
      /\ \A m \in ShownItems(d) : d.items[m].video.sha \in Needed(d)
  BY KeptApart DEF ShownItems
<1>6. GivenTo(inp, d.c, d.wants, NumbersIn(d), Growing(inp), Len(d.wants), d.items)
  BY ItemsGiven DEF Growing
<1>7. /\ \A x, y : Staged(x) = Staged(y) => x = y
      /\ \A x, y : Part(x) = Part(y) => x = y
      /\ \A x, y : Staged(x) # Part(y)
      /\ \A x : Part(x).part /\ ~ Staged(x).part
  <2>1. \A x : Staged(x).sha = x /\ Staged(x).part = FALSE /\ Part(x).sha = x /\ Part(x).part = TRUE
    BY DEF Staged, Part
  <2>2. QED BY <2>1
<1>8. DOMAIN d.wants = 1 .. Len(d.wants) /\ d.wants \in Seq(inp.wants)
  BY <1>1 DEF DraftOK, Schedule
<1> HIDE DEF S1, S2, P, G
<1>9. ASSUME NEW i \in 1 .. Len(d.wants), PutOff(d.wants[i].video, d.c, Growing(inp)),
             NEW m \in 1 .. Len(d.items)
      PROVE  d.items[m].video.sha # d.wants[i].video.sha
  <2>1. PICK j \in 1 .. Len(d.wants) : d.items[m].video = d.wants[j].video /\ ~ PutOff(d.wants[j].video, d.c, Growing(inp))
    BY <1>6 DEF GivenTo
  <2>2. ASSUME d.wants[j].video.sha = d.wants[i].video.sha PROVE FALSE
    <3>1. i = j
      BY <1>1, <2>2 DEF DraftOK, Schedule
    <3>2. QED BY <1>9, <2>1, <3>1
  <2>3. QED BY <2>1, <2>2
<1>10. ASSUME NEW i \in 1 .. Len(d.wants), PutOff(d.wants[i].video, d.c, Growing(inp))
       PROVE  d.wants[i].video.sha \in Growing(next)
  <2>1. d.wants[i].video.sha \in Growing(inp)
    BY <1>10 DEF PutOff
  <2>2. \A m \in SentItems(d) : d.items[m].video.sha # d.wants[i].video.sha
    BY <1>5, <1>9, <1>10
  <2>3. \A p \in d.c.parts : p.part
    BY <1>2
  <2>4. QED BY <1>1, <1>3, <2>1, <2>2, <2>3, GrowingStays
<1>11. ASSUME NEW i \in 1 .. Len(d.wants), d.wants[i].video.id \notin Placed(d)
       PROVE  PutOff(d.wants[i].video, d.c, Growing(inp))
  <2>1. ASSUME ~ PutOff(d.wants[i].video, d.c, Growing(inp)) PROVE FALSE
    <3>1. PICK m \in 1 .. Len(d.items) : d.items[m].video = d.wants[i].video
      BY <1>6, <2>1 DEF GivenTo
    <3>2. QED BY <1>5, <1>11, <3>1 DEF Placed
  <2>2. QED BY <2>1
<1>12. ASSUME NEW x, Staged(x) \in S2 PROVE \E k \in DOMAIN d.keep : x = d.keep[k].video.sha
  <2>1. Staged(x) \in S1 \cup P /\ Staged(x) \notin G
    BY <1>4, <1>12
  <2>2. CASE Staged(x) \in P
    <3>1. CASE \E m \in SentItems(d) : x = d.items[m].video.sha
      BY <1>3, <1>5, <2>1, <3>1 DEF StagingTakenAre, G
    <3>2. QED BY <1>3, <1>7, <2>2, <3>1 DEF StagingPutAre, P
  <2>3. CASE Staged(x) \in S1
    <3>1. x \in d.c.staged
      BY <1>2, <2>3 DEF S1
    <3>2. x \in Needed(d)
      BY <1>3, <2>1, <3>1 DEF StagingTakenAre, G
    <3>3. ASSUME NEW item \in ToSet(d.items), item.video.id \notin DOMAIN d.c.managed, x = item.video.sha
          PROVE  FALSE
      <4>1. PICK m \in 1 .. Len(d.items) : item = d.items[m]
        BY <1>5 DEF ToSet
      <4>2. m \in ShownItems(d)
        BY <3>3, <4>1 DEF ShownItems
      <4>3. QED BY <1>3, <2>1, <3>3, <4>1, <4>2 DEF StagingTakenAre, G
    <3>4. ASSUME NEW w \in ToSet(d.wants), w.video.id \notin Placed(d), x = w.video.sha
          PROVE  FALSE
      <4>1. PICK i \in 1 .. Len(d.wants) : w = d.wants[i]
        BY <1>8 DEF ToSet
      <4>2. PutOff(d.wants[i].video, d.c, Growing(inp))
        BY <1>11, <3>4, <4>1
      <4>3. QED BY <3>1, <3>4, <4>1, <4>2 DEF PutOff
    <3>5. QED BY <3>2, <3>3, <3>4 DEF Needed
  <2>4. QED BY <2>1, <2>2, <2>3
<1>13. ASSUME NEW p \in S2, p.part, next.now - next.remote.staging[p].mtime > PartMaxAge PROVE FALSE
  <2>1. p \in S1 /\ next.remote.staging[p].mtime = inp.remote.staging[p].mtime /\ next.now = inp.now
    BY <1>13 DEF StagingFollows, S1, S2
  <2>2. p = Part(p.sha) /\ p \in d.c.parts
    BY <1>2, <1>13, <2>1 DEF InputOK, Part, S1
  <2>3. inp.now - inp.remote.staging[p].mtime > PartMaxAge
    BY <1>13, <2>1
  <2>4. p \notin G
    BY <1>4
  <2>5. p \notin Stale(d)
    BY <1>3, <2>2, <2>4 DEF StagingTakenAre, G
  <2>6. PICK m \in 1 .. Len(d.items) : Missing(d.items[m].video, d.c) /\ d.items[m].video.sha = p.sha
    BY <1>1, <2>2, <2>3, <2>5 DEF Stale
  <2>7. m \in SentItems(d)
    BY <2>6 DEF SentItems
  <2>8. QED BY <1>3, <2>2, <2>4, <2>6, <2>7 DEF StagingTakenAre, G
<1>14. ASSUME NEW k \in DOMAIN d.keep, Staged(d.keep[k].video.sha) \in S1 \cup P
       PROVE  Staged(d.keep[k].video.sha) \in S2
  <2> DEFINE x == d.keep[k].video.sha
  <2>1. ASSUME Staged(x) \in G PROVE FALSE
    <3>1. \/ x \notin Needed(d)
          \/ \E m \in ShownItems(d) : x = d.items[m].video.sha
      BY <1>3, <1>7, <2>1 DEF StagingTakenAre, G
    <3>2. QED BY <1>5, <3>1
  <2>2. QED BY <1>4, <1>14, <2>1
<1>15. ASSUME NEW k \in DOMAIN d.keep,
              ~ (~ Lasts(d, {}) /\ d.keep[k].video.id \in DOMAIN d.c.managed),
              Staged(d.keep[k].video.sha) \notin S2
       PROVE  d.keep[k].video.sha \in Growing(next)
  <2> DEFINE v == d.keep[k].video
             x == v.sha
  <2>1. Staged(x) \notin S1 /\ Staged(x) \notin P
    BY <1>14, <1>15
  <2>2. x \notin d.c.staged
    BY <1>2, <2>1 DEF S1
  <2>3. x \notin ReadyIn(d)
    BY <1>5, <2>2 DEF ReadyIn
  <2>4. v.id \notin Placed(d)
    <3>1. ASSUME NEW m \in DOMAIN d.items, d.items[m].video.id = v.id PROVE FALSE
      <4>1. d.items[m].video \in inp.library /\ v \in inp.library
        BY <1>1, <1>5, <3>1, DraftItems
      <4>2. d.items[m].video = v
        BY <3>1, <4>1 DEF InputOK, LibraryOK
      <4>3. QED BY <1>5, <4>2
    <3>2. QED BY <3>1 DEF Placed
  <2>5. v.id \notin DOMAIN d.c.managed
    <3>1. ASSUME v.id \in DOMAIN d.c.managed PROVE FALSE
      <4>1. Lasts(d, {})
        BY <1>15, <3>1
      <4>2. \E a \in DoRemove(d) : a.kind = "deactivate" /\ a.dst = Staged(x)
        BY <1>1, <1>5, <2>3, <2>4, <3>1, <4>1, KeptGoesOut
      <4>3. QED BY <1>3, <2>1, <4>2 DEF StagingPutAre, P
    <3>2. QED BY <3>1
  <2>6. Missing(v, d.c)
    BY <2>2, <2>5 DEF Missing
  <2>7. k \notin AheadOnes(d)
    BY <1>3, <2>1 DEF StagingPutAre, P
  <2>8. x \notin MovedOut(d)
    <3>1. ASSUME x \in MovedOut(d) PROVE FALSE
      <4>1. PICK a \in DoRemove(d) : a.kind = "deactivate" /\ a.dst.sha = x
        BY <3>1 DEF MovedOut
      <4>2. a.dst \in P
        BY <1>3, <4>1 DEF StagingPutAre, P
      <4>3. PICK y : a.dst = Staged(y)
        BY <1>3, <4>2 DEF StagingPutAre, P
      <4>4. a.dst = Staged(x)
        <5>1. Staged(y).sha = y
          BY DEF Staged
        <5>2. y = x
          BY <4>1, <4>3, <5>1
        <5>3. QED BY <4>3, <5>2
      <4>5. QED BY <2>1, <4>2, <4>4
    <3>2. QED BY <3>1
  <2>9. x \in Growing(inp)
    BY <1>1, <1>5, <2>3, <2>6, <2>7, <2>8 DEF AheadOnes, Growing
  <2>10. \A m \in SentItems(d) : d.items[m].video.sha # x
    BY <1>5
  <2>11. \A p \in d.c.parts : p.part
    BY <1>2
  <2>12. QED BY <1>1, <1>3, <2>9, <2>10, <2>11, GrowingStays
<1>16. QED BY <1>10, <1>12, <1>13, <1>15 DEF StagingIs, S2

-----------------------------------------------------------------------------
(* The video folder when a plan is done                                    *)

(* next has the video folder of inp when the plan of inp is done: the      *)
(* files that are not the app's are the old ones.                          *)
RootFollows(inp, d, next) ==
  /\ next.library = inp.library
  /\ DOMAIN next.remote.root = RootAfter(DOMAIN inp.remote.root, Doings(d))
  /\ \A n \in DOMAIN next.remote.root : ~ Titled(inp, n) =>
       /\ n \in DOMAIN inp.remote.root /\ next.remote.root[n] = inp.remote.root[n]
       /\ n \in next.requests <=> n \in inp.requests

ItemNamed(inp, d) ==
  \A m \in 1 .. Len(d.items) : d.items[m].video \in inp.library /\ NameOf(d.items[m].video, d.items[m].name)

LEMMA ItemsAreNamed ==
  ASSUME NEW inp, InputOK(inp), OwnTitles(inp), NEW d, d = DraftIn(inp)
  PROVE  ItemNamed(inp, d)
<1>1. GivenTo(inp, d.c, d.wants, NumbersIn(d), Growing(inp), Len(d.wants), d.items)
  BY ItemsGiven DEF Growing
<1>2. DraftOK(inp, d)
  BY DraftIsOK
<1>3. \A m \in 1 .. Len(d.items) : d.items[m].video \in inp.library
  BY <1>2, DraftItems
<1>4. ASSUME NEW m \in 1 .. Len(d.items) PROVE NameOf(d.items[m].video, d.items[m].name)
  <2>1. PICK i \in 1 .. Len(d.wants) :
          /\ d.items[m].video = d.wants[i].video
          /\ d.items[m].name = ActiveName(NumbersIn(d)[d.wants[i].video.id], d.wants[i].video)
    BY <1>1 DEF GivenTo
  <2>2. QED BY <2>1 DEF NameOf, ActiveName
<1>5. QED BY <1>3, <1>4 DEF ItemNamed

(* With something that plays on: the titled names are those of the items.  *)
LEMMA OnlyItemsShown ==
  ASSUME NEW inp, InputOK(inp), OwnTitles(inp), NEW d, d = DraftIn(inp), Lasts(d, {}),
         NEW next, RootFollows(inp, d, next)
  PROVE  /\ \A n \in DOMAIN next.remote.root : Titled(inp, n) => \E m \in 1 .. Len(d.items) : n = d.items[m].name
         /\ \A m \in 1 .. Len(d.items) : d.items[m].name \in DOMAIN next.remote.root
<1> DEFINE R1 == DOMAIN inp.remote.root
           R2 == DOMAIN next.remote.root
           G  == RootTaken(Doings(d))
           P  == RootPut(Doings(d))
           managed == d.c.managed
<1>1. DraftOK(inp, d) /\ d.c = Classify(inp.remote, inp.library)
  <2>1. DraftOK(inp, d)
    BY DraftIsOK
  <2>2. QED BY <2>1 DEF DraftIn, DraftOf
<1>2. RootTakenAre(d) /\ RootPutAre(d)
  BY <1>1, RootDone
<1>3. R2 = (R1 \ G) \cup P
  BY DEF RootFollows, RootAfter
<1>4. /\ \A n \in R1 : Titled(inp, n) => n \in AppNames(inp)
      /\ \A id \in DOMAIN managed : Len(managed[id]) >= 1
  BY <1>1, CopiesAreTitled
<1>5. DOMAIN d.items = 1 .. Len(d.items)
  BY <1>1, DraftItems
<1>6. d.extra = FurtherCopies(d.c, {d.wants[i].video.id : i \in DOMAIN d.wants})
  BY DEF DraftIn, DraftOf
<1>7. \A v : v.id \in DOMAIN managed => CurrentName(v, d.c) = managed[v.id][1] /\ CurrentName(v, d.c) # None
  BY <1>1, CurrentIsAName DEF DraftOK
<1> HIDE DEF R1, R2, G, P
<1>8. ASSUME NEW n \in R2, Titled(inp, n) PROVE \E m \in 1 .. Len(d.items) : n = d.items[m].name
  <2>1. CASE n \in P
    BY <1>2, <2>1 DEF RootPutAre, P
  <2>2. CASE n \notin P
    <3>1. n \in R1 /\ n \notin G
      BY <1>3, <2>2
    <3>2. n \in AppNames(inp)
      BY <1>4, <1>8, <3>1
    <3>3. PICK id \in DOMAIN managed : \E k \in 1 .. Len(managed[id]) : managed[id][k] = n
      BY <1>1, <3>2, EveryCopyIsListed
    <3>4. PICK k \in 1 .. Len(managed[id]) : managed[id][k] = n
      BY <3>3
    <3>5. n \notin d.extra /\ n \notin Retired(d)
      BY <1>2, <3>1 DEF RootTakenAre, G
    <3>6. id \in Placed(d)
      BY <3>4, <3>5 DEF Retired
    <3>7. PICK m \in 1 .. Len(d.items) : d.items[m].video.id = id
      BY <1>5, <3>6 DEF Placed
    <3>8. k = 1
      <4>1. ASSUME k # 1 PROVE FALSE
        <5> DEFINE s == managed[id]
                   S == AppNames(inp)
        <5>1. s \in Seq(S) /\ Len(s) >= 1 /\ k \in 1 .. Len(s)
          BY <1>1, <3>4 DEF DraftOK, ClassOK, CopiesApart
        <5> HIDE DEF s, S
        <5>2. k - 1 \in DOMAIN Tail(s) /\ Tail(s)[k - 1] = s[k]
          BY <4>1, <5>1
        <5>3. n \in ToSet(Tail(s))
          BY <3>4, <5>2 DEF ToSet, s
        <5>4. PICK i \in 1 .. Len(d.wants) : d.items[m].video = d.wants[i].video
          BY KeptApart
        <5>5. id \in {d.wants[j].video.id : j \in DOMAIN d.wants}
          <6>1. DOMAIN d.wants = 1 .. Len(d.wants)
            BY <1>1 DEF DraftOK, Schedule
          <6>2. QED BY <3>7, <5>4, <6>1
        <5>6. n \in d.extra
          BY <1>6, <5>3, <5>5 DEF FurtherCopies, s
        <5>7. QED BY <3>5, <5>6
      <4>2. QED BY <4>1
    <3>9. n = CurrentName(d.items[m].video, d.c) /\ n # None
      BY <1>7, <3>4, <3>7, <3>8
    <3>10. ~ Moves(d, m)
      BY <1>2, <3>1, <3>9 DEF RootTakenAre, G
    <3>11. n = d.items[m].name
      BY <3>9, <3>10 DEF Moves
    <3>12. QED BY <3>11
  <2>3. QED BY <2>1, <2>2
<1>9. ASSUME NEW m \in 1 .. Len(d.items) PROVE d.items[m].name \in R2
  <2> DEFINE v == d.items[m].video
             n == d.items[m].name
  <2>1. CASE m \in ShownItems(d) \/ Moves(d, m)
    BY <1>2, <1>3, <2>1 DEF RootPutAre, P
  <2>2. CASE ~ (m \in ShownItems(d) \/ Moves(d, m))
    <3>1. v.id \in DOMAIN managed
      BY <2>2 DEF ShownItems
    <3>2. n = CurrentName(v, d.c)
      BY <1>7, <2>2, <3>1 DEF Moves
    <3>3. n = managed[v.id][1] /\ n \in Moving(d)
      <4>1. n = managed[v.id][1]
        BY <1>7, <3>1, <3>2
      <4>2. QED BY <3>1, <4>1 DEF Moving
    <3>4. n \notin d.extra /\ n \notin Leaving(d) /\ n \in R1
      BY <1>1, <3>3, TakenApart DEF Extra, AppNames, R1
    <3>5. Asked(d) \subseteq Leaving(d) /\ Retired(d) \subseteq Leaving(d)
      BY DEF Asked, Leaving
    <3>6. ASSUME NEW l \in 1 .. Len(d.items), Moves(d, l), n = CurrentName(d.items[l].video, d.c) PROVE FALSE
      <4>1. d.items[l].video.id \in DOMAIN managed /\ n = managed[d.items[l].video.id][1]
        BY <1>1, <3>6, MoveIsTaken
      <4>2. Len(managed[v.id]) \in Nat /\ Len(managed[d.items[l].video.id]) \in Nat
        <5> DEFINE S == AppNames(inp)
                   x == managed[v.id]
                   y == managed[d.items[l].video.id]
        <5>1. x \in Seq(S) /\ y \in Seq(S)
          BY <1>1, <3>1, <4>1 DEF DraftOK, ClassOK, CopiesApart
        <5> HIDE DEF S, x, y
        <5>2. Len(x) \in Nat /\ Len(y) \in Nat
          BY <5>1
        <5>3. QED BY <5>2 DEF x, y
      <4>3. 1 \in 1 .. Len(managed[v.id]) /\ 1 \in 1 .. Len(managed[d.items[l].video.id])
        BY <1>4, <3>1, <4>1, <4>2
      <4>4. v.id = d.items[l].video.id
        <5>1. \A id, jd \in DOMAIN managed :
                \A g \in 1 .. Len(managed[id]), h \in 1 .. Len(managed[jd]) :
                  managed[id][g] = managed[jd][h] => id = jd
          BY <1>1 DEF DraftOK, ClassOK, CopiesApart
        <5>2. managed[v.id][1] = managed[d.items[l].video.id][1]
          BY <3>3, <4>1
        <5> HIDE DEF v, managed
        <5>3. QED BY <3>1, <4>1, <4>3, <5>1, <5>2
      <4>5. l = m
        BY <1>1, <4>4, DraftItems DEF OncePerVideo
      <4>6. QED BY <2>2, <3>6, <4>5
    <3>7. n \notin G
      BY <1>2, <3>4, <3>5, <3>6 DEF RootTakenAre, G
    <3>8. QED BY <1>3, <3>4, <3>7
  <2>3. QED BY <2>1, <2>2
<1>10. QED BY <1>8, <1>9 DEF R2

(* With nothing that plays on: nothing is taken and nothing is put.        *)
LEMMA NothingShown ==
  ASSUME NEW inp, InputOK(inp), NEW d, d = DraftIn(inp), ~ Lasts(d, {}),
         NEW next, RootFollows(inp, d, next)
  PROVE  /\ 1 .. Len(d.items) = {} /\ d.extra = {}
         /\ DOMAIN next.remote.root = DOMAIN inp.remote.root
         /\ d.c.playable \subseteq inp.requests
<1>1. DraftOK(inp, d) /\ d.inp = inp
  <2>1. DraftOK(inp, d)
    BY DraftIsOK
  <2>2. QED BY <2>1 DEF DraftOK
<1>2. 1 .. Len(d.items) = {} /\ d.c.playable \subseteq inp.requests
  BY <1>1 DEF Lasts
<1>3. d.extra = {}
  <2>1. ASSUME NEW n \in d.extra PROVE FALSE
    <3>1. PICK i \in 1 .. Len(d.wants) : d.wants[i].video.id \in DOMAIN d.c.managed
      BY <1>1, <2>1 DEF DraftOK, ExtraOK
    <3>2. \E m \in 1 .. Len(d.items) : d.items[m].video = d.wants[i].video
      BY <1>1, <3>1 DEF DraftOK, PlacedUpTo
    <3>3. QED BY <1>2, <3>2
  <2>2. QED BY <2>1
<1>4. RootTakenAre(d) /\ RootPutAre(d)
  BY <1>1, RootDone
<1>5. RootTaken(Doings(d)) = {}
  BY <1>2, <1>3, <1>4 DEF RootTakenAre
<1>6. RootPut(Doings(d)) = {}
  BY <1>2, <1>4 DEF RootPutAre
<1>7. QED BY <1>2, <1>3, <1>5, <1>6 DEF RootFollows, RootAfter

-----------------------------------------------------------------------------
(* The draft of the next plan                                              *)

Follows(inp, next) ==
  /\ next.now = inp.now /\ next.wants = inp.wants
  /\ RootFollows(inp, DraftIn(inp), next)
  /\ StagingFollows(inp, DraftIn(inp), next)

(* Every video in the folder is that of an item, with its name alone.      *)
OneNameEach(d, e) ==
  /\ DOMAIN e.c.managed = Placed(d)
  /\ \A m \in 1 .. Len(d.items) :
       LET names == e.c.managed[d.items[m].video.id]
       IN  Len(names) = 1 /\ names[1] = d.items[m].name /\ Tail(names) = <<>> /\ Head(names) = d.items[m].name

(* A list of one thing, without repetitions.                               *)
LEMMA OneLeft ==
  ASSUME NEW S, NEW s \in Seq(S), Len(s) >= 1, \A k, l \in 1 .. Len(s) : s[k] = s[l] => k = l,
         NEW x, \A k \in 1 .. Len(s) : s[k] = x
  PROVE  Len(s) = 1 /\ s[1] = x /\ Tail(s) = <<>> /\ Head(s) = x
<1> DEFINE l == Len(s)
<1>1. l \in Nat /\ l >= 1
  OBVIOUS
<1>2. ASSUME l # 1 PROVE FALSE
  <2> HIDE DEF l
  <2>1. 1 \in 1 .. l /\ 2 \in 1 .. l
    BY <1>1, <1>2
  <2>2. s[1] = s[2]
    <3>1. s[1] = x
      BY <2>1 DEF l
    <3>2. s[2] = x
      BY <2>1 DEF l
    <3>3. QED BY <3>1, <3>2
  <2>3. s[1] = s[2] => 1 = 2
    BY <2>1 DEF l
  <2>4. QED BY <2>2, <2>3
<1>3. Len(s) = 1 /\ 1 \in 1 .. Len(s)
  BY <1>1, <1>2
<1>4. s[1] = x
  BY <1>3
<1>5. Head(s) = s[1]
  BY <1>3
<1>6. Tail(s) = <<>>
  <2>1. s # <<>>
    BY <1>3
  <2>2. Tail(s) \in Seq(S) /\ Len(Tail(s)) = 0
    BY <1>3, <2>1
  <2> DEFINE t == Tail(s)
  <2>3. t \in Seq(S) /\ Len(t) = 0
    BY <2>2
  <2> HIDE DEF t
  <2>4. t = <<>>
    BY <2>3
  <2>5. QED BY <2>4 DEF t
<1>7. QED BY <1>3, <1>4, <1>5, <1>6

LEMMA ShownOnce ==
  ASSUME NEW inp, InputOK(inp), OwnTitles(inp), NEW d, d = DraftIn(inp), Lasts(d, {}),
         NEW next, InputOK(next), OwnTitles(next), RootFollows(inp, d, next),
         NEW e, e = DraftIn(next)
  PROVE  OneNameEach(d, e)
<1> DEFINE managed == e.c.managed
           R2 == DOMAIN next.remote.root
<1>1. DraftOK(inp, d) /\ DraftOK(next, e) /\ e.c = Classify(next.remote, next.library)
  <2>1. DraftOK(inp, d) /\ DraftOK(next, e)
    BY DraftIsOK
  <2>2. QED BY <2>1 DEF DraftIn, DraftOf
<1>2. next.library = inp.library
  BY DEF RootFollows
<1>3. /\ \A v \in inp.library :
           /\ v.id \in DOMAIN managed =>
                \A k \in 1 .. Len(managed[v.id]) : managed[v.id][k] \in R2 /\ NameOf(v, managed[v.id][k])
           /\ \A n \in R2 : NameOf(v, n) => v.id \in DOMAIN managed
      /\ \A id \in DOMAIN managed : Len(managed[id]) >= 1 /\ \E v \in inp.library : v.id = id
  BY <1>1, <1>2, CopiesAreTitled
<1>4. /\ \A n \in R2 : Titled(inp, n) => \E m \in 1 .. Len(d.items) : n = d.items[m].name
      /\ \A m \in 1 .. Len(d.items) : d.items[m].name \in R2
  BY OnlyItemsShown
<1>5. \A m \in 1 .. Len(d.items) : d.items[m].video \in inp.library /\ NameOf(d.items[m].video, d.items[m].name)
  BY ItemsAreNamed DEF ItemNamed
<1>6. \A v, w \in inp.library : \A n : NameOf(v, n) /\ NameOf(w, n) => v = w
  BY DEF OwnTitles, NameOf
<1>7. DOMAIN d.items = 1 .. Len(d.items) /\ OncePerVideo(d.items)
  BY <1>1, DraftItems
<1>8. \A id \in DOMAIN managed : managed[id] \in Seq(AppNames(next)) /\ Len(managed[id]) \in Nat
  <2>1. ASSUME NEW id \in DOMAIN managed PROVE managed[id] \in Seq(AppNames(next)) /\ Len(managed[id]) \in Nat
    <3> DEFINE s == managed[id]
               S == AppNames(next)
    <3>1. s \in Seq(S)
      BY <1>1 DEF DraftOK, ClassOK, CopiesApart
    <3> HIDE DEF s, S
    <3>2. Len(s) \in Nat
      BY <3>1
    <3>3. QED BY <3>1, <3>2 DEF s, S
  <2>2. QED BY <2>1
<1>9. \A id \in DOMAIN managed : \A k, l \in 1 .. Len(managed[id]) : managed[id][k] = managed[id][l] => k = l
  BY <1>1 DEF DraftOK, ClassOK, CopiesApart
<1> HIDE DEF managed, R2
<1>10. ASSUME NEW id \in DOMAIN managed, NEW k \in 1 .. Len(managed[id])
       PROVE  \E m \in 1 .. Len(d.items) : d.items[m].video.id = id /\ managed[id][k] = d.items[m].name
  <2>1. PICK v \in inp.library : v.id = id
    BY <1>3
  <2>2. managed[id][k] \in R2 /\ NameOf(v, managed[id][k])
    BY <1>3, <2>1
  <2>3. PICK m \in 1 .. Len(d.items) : managed[id][k] = d.items[m].name
    BY <1>4, <2>2 DEF Titled
  <2>4. d.items[m].video = v
    BY <1>5, <1>6, <2>2, <2>3
  <2>5. QED BY <2>1, <2>3, <2>4
<1>11. ASSUME NEW id \in DOMAIN managed PROVE id \in Placed(d)
  <2>1. 1 \in 1 .. Len(managed[id])
    BY <1>3, <1>8
  <2>2. PICK m \in 1 .. Len(d.items) : d.items[m].video.id = id
    BY <1>10, <2>1
  <2>3. QED BY <1>7, <2>2 DEF Placed
<1>12. ASSUME NEW m \in 1 .. Len(d.items) PROVE d.items[m].video.id \in DOMAIN managed
  BY <1>3, <1>4, <1>5
<1>13. DOMAIN managed = Placed(d)
  BY <1>7, <1>11, <1>12 DEF Placed
<1>14. ASSUME NEW m \in 1 .. Len(d.items)
       PROVE  LET names == managed[d.items[m].video.id]
              IN  Len(names) = 1 /\ names[1] = d.items[m].name /\ Tail(names) = <<>> /\ Head(names) = d.items[m].name
  <2> DEFINE id == d.items[m].video.id
             s == managed[id]
             S == AppNames(next)
  <2>1. id \in DOMAIN managed
    BY <1>12
  <2>2. \A k \in 1 .. Len(s) : s[k] = d.items[m].name
    <3>1. ASSUME NEW k \in 1 .. Len(s) PROVE s[k] = d.items[m].name
      <4>1. PICK l \in 1 .. Len(d.items) : d.items[l].video.id = id /\ s[k] = d.items[l].name
        BY <1>10, <2>1
      <4>2. l = m
        BY <1>7, <4>1 DEF OncePerVideo
      <4>3. QED BY <4>1, <4>2
    <3>2. QED BY <3>1
  <2>3. Len(s) \in Nat /\ Len(s) >= 1 /\ s \in Seq(S) /\ \A k, l \in 1 .. Len(s) : s[k] = s[l] => k = l
    BY <1>3, <1>8, <1>9, <2>1
  <2> HIDE DEF s, S
  <2>4. Len(s) = 1 /\ s[1] = d.items[m].name /\ Tail(s) = <<>> /\ Head(s) = d.items[m].name
    BY <2>2, <2>3, OneLeft
  <2>5. QED BY <2>4 DEF s, id
<1>15. QED BY <1>13, <1>14 DEF OneNameEach, managed

(* ... and the numbers of those videos are what they were.                 *)
LEMMA NumbersKept ==
  ASSUME NEW inp, InputOK(inp), OwnTitles(inp), NEW d, d = DraftIn(inp),
         NEW e, e.wants = d.wants, OneNameEach(d, e)
  PROVE  \A m \in 1 .. Len(d.items) :
           NumbersIn(e)[d.items[m].video.id] = NumbersIn(d)[d.items[m].video.id]
<1> DEFINE ids     == [i \in DOMAIN d.wants |-> d.wants[i].video.id]
           current == [id \in ToSet(ids) \cap DOMAIN d.c.managed |-> Head(d.c.managed[id]).nnn]
           after   == [id \in ToSet(ids) \cap DOMAIN e.c.managed |-> Head(e.c.managed[id]).nnn]
           numbers == NumbersIn(d)
           n       == Len(d.wants)
           f       == [i \in 1 .. n |-> numbers[d.wants[i].video.id]]
<1>1. DraftOK(inp, d)
  BY DraftIsOK
<1>2. /\ ClassOK(inp, d.c) /\ Schedule(d.wants, inp.wants)
      /\ d.wants \in Seq(inp.wants) /\ DOMAIN d.wants = 1 .. n /\ n \in Nat
  BY <1>1 DEF DraftOK, Schedule
<1>3. numbers = AssignPrefixes(ids, current) /\ NumbersIn(e) = AssignPrefixes(ids, after)
  BY DEF NumbersIn
<1>4. \A i \in 1 .. n : /\ numbers[d.wants[i].video.id] \in 1 .. MaxPrefix
                        /\ \A j \in 1 .. n : i < j => numbers[d.wants[i].video.id] < numbers[d.wants[j].video.id]
  <2>1. \A i \in 1 .. Len(d.wants) :
          /\ AssignPrefixes(ids, current)[d.wants[i].video.id] \in 1 .. MaxPrefix
          /\ \A j \in 1 .. Len(d.wants) : i < j =>
               AssignPrefixes(ids, current)[d.wants[i].video.id] < AssignPrefixes(ids, current)[d.wants[j].video.id]
    BY <1>2, PrefixesGiven
  <2>2. QED BY <1>3, <2>1
<1>5. GivenTo(inp, d.c, d.wants, numbers, Growing(inp), n, d.items)
  BY ItemsGiven DEF Growing
<1> HIDE DEF numbers
<1>6. \A i \in 1 .. n : d.wants[i].video \in inp.library /\ d.wants[i].video.id \in Nat
  <2>1. \A i \in 1 .. n : d.wants[i].video \in inp.library
    BY <1>2 DEF InputOK, WantsFor
  <2>2. QED BY <2>1 DEF InputOK, LibraryOK, Videos
<1>7. ids \in [1 .. n -> Nat]
  BY <1>2, <1>6
<1>8. ids \in Seq(Nat) /\ Len(ids) = n /\ \A i \in 1 .. n : ids[i] = d.wants[i].video.id
  <2>1. \A i \in 1 .. n : ids[i] = d.wants[i].video.id
    BY <1>2
  <2> HIDE DEF ids, n
  <2>2. QED BY <1>2, <1>7, <2>1
<1>9. \A i, j \in 1 .. n : ids[i] = ids[j] => i = j
  <2>1. ASSUME NEW i \in 1 .. n, NEW j \in 1 .. n, ids[i] = ids[j] PROVE i = j
    <3>1. d.wants[i].video.id = d.wants[j].video.id
      BY <1>8, <2>1
    <3>2. d.wants[i].video = d.wants[j].video
      BY <1>6, <3>1 DEF InputOK, LibraryOK
    <3>3. QED BY <1>2, <3>2 DEF Schedule
  <2>2. QED BY <2>1
<1>10. \A i \in 1 .. n : f[i] = numbers[ids[i]] /\ f[i] \in 1 .. MaxPrefix /\ \A j \in 1 .. n : i < j => f[i] < f[j]
  BY <1>4, <1>8
<1>11. /\ DOMAIN after = ToSet(ids) \cap DOMAIN e.c.managed
       /\ \A id \in DOMAIN after : after[id] = Head(e.c.managed[id]).nnn
  OBVIOUS
<1>12. \A i \in 1 .. n : ids[i] \in ToSet(ids)
  BY <1>2 DEF ToSet
<1> HIDE DEF after
<1>13. \A i \in 1 .. n : ids[i] \in DOMAIN after => after[ids[i]] = f[i]
  <2>1. ASSUME NEW i \in 1 .. n, ids[i] \in DOMAIN after PROVE after[ids[i]] = f[i]
    <3>1. ids[i] \in DOMAIN e.c.managed /\ after[ids[i]] = Head(e.c.managed[ids[i]]).nnn
      BY <1>11, <2>1
    <3>2. PICK m \in 1 .. Len(d.items) : d.items[m].video.id = ids[i]
      <4>1. ids[i] \in Placed(d)
        BY <3>1 DEF OneNameEach
      <4>2. DOMAIN d.items = 1 .. Len(d.items)
        BY <1>1, DraftItems
      <4>3. QED BY <4>1, <4>2 DEF Placed
    <3>3. Head(e.c.managed[ids[i]]) = d.items[m].name
      <4>1. Head(e.c.managed[d.items[m].video.id]) = d.items[m].name
        BY DEF OneNameEach
      <4>2. QED BY <3>2, <4>1
    <3>4. PICK j \in 1 .. n : /\ d.items[m].video = d.wants[j].video
                              /\ d.items[m].name = ActiveName(numbers[d.wants[j].video.id], d.wants[j].video)
      BY <1>5 DEF GivenTo
    <3>5. d.items[m].name.nnn = numbers[d.wants[j].video.id]
      BY <3>4 DEF ActiveName
    <3>6. d.wants[j].video.id = ids[i]
      BY <3>2, <3>4
    <3>7. f[i] = numbers[ids[i]]
      BY <1>10
    <3>8. QED BY <3>1, <3>3, <3>5, <3>6, <3>7
  <2>2. QED BY <2>1
<1> HIDE DEF ids, f, n
<1>14. \A i \in 1 .. n : ids[i] \in DOMAIN after => AssignPrefixes(ids, after)[ids[i]] = f[i]
  <2>1. \A i, j \in 1 .. Len(ids) : ids[i] = ids[j] => i = j
    BY <1>8, <1>9
  <2>2. \A i \in 1 .. Len(ids) :
          f[i] \in 1 .. MaxPrefix /\ \A j \in 1 .. Len(ids) : i < j => f[i] < f[j]
    BY <1>8, <1>10
  <2>3. \A i \in 1 .. Len(ids) : ids[i] \in DOMAIN after => after[ids[i]] = f[i]
    BY <1>8, <1>13
  <2>4. \A i \in 1 .. Len(ids) : ids[i] \in DOMAIN after => AssignPrefixes(ids, after)[ids[i]] = f[i]
    <3>1. ids \in Seq(Nat)
      BY <1>8
    <3>2. QED BY <2>1, <2>2, <2>3, <3>1, NumbersStay
  <2>5. QED BY <1>8, <2>4
<1>15. ASSUME NEW m \in 1 .. Len(d.items) PROVE NumbersIn(e)[d.items[m].video.id] = numbers[d.items[m].video.id]
  <2>1. PICK i \in 1 .. n : d.items[m].video = d.wants[i].video
    BY <1>5 DEF GivenTo
  <2>2. d.items[m].video.id = ids[i]
    BY <1>8, <2>1
  <2>3. ids[i] \in DOMAIN after
    <3>1. ids[i] \in ToSet(ids)
      BY <1>12
    <3>2. ids[i] \in Placed(d)
      <4>1. DOMAIN d.items = 1 .. Len(d.items)
        BY <1>1, DraftItems
      <4>2. QED BY <2>2, <4>1 DEF Placed
    <3>3. QED BY <1>11, <3>1, <3>2 DEF OneNameEach
  <2>4. AssignPrefixes(ids, after)[ids[i]] = f[i] /\ f[i] = numbers[ids[i]]
    BY <1>10, <1>14, <2>3
  <2>5. QED BY <1>3, <2>2, <2>4
<1>16. QED BY <1>15 DEF numbers

(* The next plan finds the video folder settled: it has nothing to show,   *)
(* to drop, to rename or, when something can play on, to remove.           *)
RootSettled(d, e) ==
  /\ \A m \in 1 .. Len(e.items) : e.items[m].video.id \in DOMAIN e.c.managed /\ ~ Moves(e, m)
  /\ e.extra = {}
  /\ Lasts(e, {}) => DOMAIN e.c.managed \subseteq Placed(e) /\ Asked(e) = {}
  /\ ~ Lasts(d, {}) => DOMAIN d.c.managed \subseteq DOMAIN e.c.managed

(* A video that was put off is put off again, unless it is shown by then.  *)
LEMMA PutOffAgain ==
  ASSUME NEW inp, InputOK(inp), NEW d, d = DraftIn(inp),
         NEW next, InputOK(next), Whole(next), StagingIs(inp, d, next), NEW e, e = DraftIn(next),
         NEW i \in 1 .. Len(d.wants), PutOff(d.wants[i].video, d.c, Growing(inp)),
         d.wants[i].video.id \notin DOMAIN e.c.managed
  PROVE  PutOff(d.wants[i].video, e.c, Growing(next))
<1>1. e.c = Classify(next.remote, next.library)
  BY DEF DraftIn, DraftOf
<1>2. d.wants[i].video.sha \in e.c.staged <=> Staged(d.wants[i].video.sha) \in DOMAIN next.remote.staging
  BY <1>1, WholeIsStaged
<1>3. \A k \in DOMAIN d.keep : d.wants[i].video.sha # d.keep[k].video.sha
  BY KeptApart
<1>4. Staged(d.wants[i].video.sha) \notin DOMAIN next.remote.staging
  BY <1>3 DEF StagingIs
<1>5. d.wants[i].video.sha \in Growing(next)
  BY DEF StagingIs
<1>6. QED BY <1>2, <1>4, <1>5 DEF PutOff

LEMMA ItemsAgain ==
  ASSUME NEW inp, InputOK(inp), OwnTitles(inp), NEW d, d = DraftIn(inp), Lasts(d, {}),
         NEW next, InputOK(next), OwnTitles(next), Whole(next), RootFollows(inp, d, next),
         StagingIs(inp, d, next), NEW e, e = DraftIn(next), e.wants = d.wants
  PROVE  /\ \A l \in 1 .. Len(e.items) : \E m \in 1 .. Len(d.items) : e.items[l] = d.items[m]
         /\ Placed(d) \subseteq Placed(e) /\ OneNameEach(d, e)
<1>1. DraftOK(inp, d) /\ DraftOK(next, e)
  BY DraftIsOK
<1>2. OneNameEach(d, e)
  BY ShownOnce
<1>3. \A m \in 1 .. Len(d.items) :
        NumbersIn(e)[d.items[m].video.id] = NumbersIn(d)[d.items[m].video.id]
  BY <1>2, NumbersKept
<1>4. GivenTo(inp, d.c, d.wants, NumbersIn(d), Growing(inp), Len(d.wants), d.items)
  BY ItemsGiven DEF Growing
<1>5. GivenTo(next, e.c, d.wants, NumbersIn(e), Growing(next), Len(d.wants), e.items)
  <2>1. GivenTo(next, e.c, e.wants, NumbersIn(e), Growing(next), Len(e.wants), e.items)
    BY ItemsGiven DEF Growing
  <2>2. QED BY <2>1
<1>6. DOMAIN d.items = 1 .. Len(d.items) /\ DOMAIN e.items = 1 .. Len(e.items)
  BY <1>1, DraftItems
<1>7. \A i \in 1 .. Len(d.wants) : d.wants[i].video \in inp.library
  <2>1. d.wants \in Seq(inp.wants) /\ \A w \in inp.wants : w.video \in inp.library
    BY <1>1 DEF DraftOK, Schedule, InputOK, WantsFor
  <2>2. QED BY <2>1
<1>8. ASSUME NEW i \in 1 .. Len(d.wants), d.wants[i].video.id \in Placed(d)
      PROVE  \E m \in 1 .. Len(d.items) : d.items[m].video = d.wants[i].video
  <2>1. PICK m \in 1 .. Len(d.items) : d.items[m].video.id = d.wants[i].video.id
    BY <1>6, <1>8 DEF Placed
  <2>2. d.items[m].video \in inp.library
    BY <1>1, DraftItems
  <2>3. d.items[m].video = d.wants[i].video
    BY <1>7, <2>1, <2>2 DEF InputOK, LibraryOK
  <2>4. QED BY <2>3
<1>9. ASSUME NEW l \in 1 .. Len(e.items)
      PROVE  \E m \in 1 .. Len(d.items) : e.items[l] = d.items[m]
  <2>1. PICK i \in 1 .. Len(d.wants) :
          /\ e.items[l].video = d.wants[i].video /\ ~ PutOff(d.wants[i].video, e.c, Growing(next))
          /\ e.items[l].name = ActiveName(NumbersIn(e)[d.wants[i].video.id], d.wants[i].video)
    BY <1>5 DEF GivenTo
  <2>2. \E m \in 1 .. Len(d.items) : d.items[m].video = d.wants[i].video
    <3>1. CASE PutOff(d.wants[i].video, d.c, Growing(inp))
      <4>1. d.wants[i].video.id \in DOMAIN e.c.managed
        BY <2>1, <3>1, PutOffAgain
      <4>2. QED BY <1>2, <1>8, <4>1 DEF OneNameEach
    <3>2. CASE ~ PutOff(d.wants[i].video, d.c, Growing(inp))
      BY <1>4, <3>2 DEF GivenTo
    <3>3. QED BY <3>1, <3>2
  <2>3. PICK m \in 1 .. Len(d.items) : d.items[m].video = d.wants[i].video
    BY <2>2
  <2>4. d.items[m].name = ActiveName(NumbersIn(d)[d.items[m].video.id], d.items[m].video)
    <3>1. PICK j \in 1 .. Len(d.wants) :
            /\ d.items[m].video = d.wants[j].video
            /\ d.items[m].name = ActiveName(NumbersIn(d)[d.wants[j].video.id], d.wants[j].video)
      BY <1>4 DEF GivenTo
    <3>2. QED BY <3>1
  <2>5. NumbersIn(e)[d.items[m].video.id] = NumbersIn(d)[d.items[m].video.id]
    BY <1>3
  <2>6. e.items[l].video = d.items[m].video /\ e.items[l].name = d.items[m].name
    <3>1. e.items[l].video = d.items[m].video
      BY <2>1, <2>3
    <3>2. e.items[l].name = ActiveName(NumbersIn(e)[d.items[m].video.id], d.items[m].video)
      BY <2>1, <2>3
    <3>3. QED BY <2>4, <2>5, <3>1, <3>2
  <2>7. e.items[l] \in ItemsFor(next) /\ d.items[m] \in ItemsFor(inp)
    <3>1. e.items \in Seq(ItemsFor(next)) /\ d.items \in Seq(ItemsFor(inp))
      BY <1>1, DraftItems
    <3>2. QED BY <3>1
  <2>8. e.items[l] = d.items[m]
    BY <2>6, <2>7 DEF ItemsFor
  <2>9. QED BY <2>8
<1>10. ASSUME NEW id \in Placed(d) PROVE id \in Placed(e)
  <2>1. PICK m \in 1 .. Len(d.items) : d.items[m].video.id = id
    BY <1>6 DEF Placed
  <2>2. PICK i \in 1 .. Len(d.wants) : d.items[m].video = d.wants[i].video
    BY <1>4 DEF GivenTo
  <2>3. d.wants[i].video.id \in DOMAIN e.c.managed
    BY <1>2, <2>1, <2>2 DEF OneNameEach
  <2>4. PICK l \in 1 .. Len(e.items) : e.items[l].video = d.wants[i].video
    BY <1>5, <2>3 DEF GivenTo, PutOff
  <2>5. QED BY <1>6, <2>1, <2>2, <2>4 DEF Placed
<1>11. QED BY <1>2, <1>9, <1>10

LEMMA RootSettles ==
  ASSUME NEW inp, InputOK(inp), OwnTitles(inp), NEW d, d = DraftIn(inp), Lasts(d, {}),
         NEW next, InputOK(next), OwnTitles(next), Whole(next), RootFollows(inp, d, next),
         StagingIs(inp, d, next), NEW e, e = DraftIn(next), e.wants = d.wants
  PROVE  RootSettled(d, e)
<1>1. DraftOK(inp, d) /\ DraftOK(next, e) /\ d.inp = inp /\ e.inp = next
  <2>1. DraftOK(inp, d) /\ DraftOK(next, e)
    BY DraftIsOK
  <2>2. QED BY <2>1 DEF DraftOK
<1>2. /\ \A l \in 1 .. Len(e.items) : \E m \in 1 .. Len(d.items) : e.items[l] = d.items[m]
      /\ Placed(d) \subseteq Placed(e) /\ OneNameEach(d, e)
  BY ItemsAgain
<1>3. DOMAIN d.items = 1 .. Len(d.items)
  BY <1>1, DraftItems
<1>4. \A m \in 1 .. Len(d.items) : /\ d.items[m].video.id \in DOMAIN e.c.managed
                                   /\ Head(e.c.managed[d.items[m].video.id]) = d.items[m].name
                                   /\ Len(e.c.managed[d.items[m].video.id]) = 1
  BY <1>2, <1>3 DEF OneNameEach, Placed
<1>5. ASSUME NEW l \in 1 .. Len(e.items)
      PROVE  e.items[l].video.id \in DOMAIN e.c.managed /\ ~ Moves(e, l)
  <2>1. PICK m \in 1 .. Len(d.items) : e.items[l] = d.items[m]
    BY <1>2
  <2>2. /\ d.items[m].video.id \in DOMAIN e.c.managed
        /\ CurrentName(d.items[m].video, e.c) = d.items[m].name
    BY <1>4 DEF CurrentName
  <2>3. QED BY <2>1, <2>2 DEF Moves
<1>6. ASSUME NEW n \in e.extra PROVE FALSE
  <2>1. PICK i \in 1 .. Len(e.wants) :
          /\ e.wants[i].video.id \in DOMAIN e.c.managed
          /\ \E k \in 2 .. Len(e.c.managed[e.wants[i].video.id]) :
               n = e.c.managed[e.wants[i].video.id][k]
    BY <1>1, <1>6 DEF DraftOK, ExtraOK
  <2>2. e.wants[i].video.id \in Placed(d)
    BY <1>2, <2>1 DEF OneNameEach
  <2>3. PICK m \in 1 .. Len(d.items) : d.items[m].video.id = e.wants[i].video.id
    BY <1>3, <2>2 DEF Placed
  <2>4. Len(e.c.managed[e.wants[i].video.id]) = 1
    BY <1>4, <2>3
  <2>5. QED BY <2>1, <2>4
<1>7. ASSUME NEW n \in Asked(e) PROVE FALSE
  <2>1. n \in e.c.legacy /\ n \in next.requests /\ ~ next.remote.root[n].isDir
    BY <1>1, <1>7 DEF Asked
  <2>2. n \in DOMAIN next.remote.root /\ ~ Titled(inp, n)
    <3>1. n \in DOMAIN next.remote.root \ AppNames(next)
      BY <1>1, <2>1 DEF DraftOK, ClassOK
    <3>2. \A v \in next.library : v.slug # n.slug \/ v.sha # n.sha
      BY <3>1 DEF OwnTitles
    <3>3. QED BY <3>1, <3>2 DEF Titled, NameOf, RootFollows
  <2>3. n \in DOMAIN inp.remote.root /\ next.remote.root[n] = inp.remote.root[n] /\ n \in inp.requests
    BY <2>1, <2>2 DEF RootFollows
  <2>4. n \in d.c.legacy
    <3>1. n \notin AppNames(inp)
      BY <2>2 DEF AppNames, Matches, Titled, NameOf
    <3>2. QED BY <1>1, <2>3, <3>1 DEF DraftOK, ClassOK
  <2>5. n \in Asked(d)
    BY <1>1, <2>1, <2>3, <2>4 DEF Asked
  <2>6. RootTakenAre(d) /\ RootPutAre(d)
    BY <1>1, RootDone
  <2>7. n \in RootTaken(Doings(d))
    BY <2>5, <2>6 DEF RootTakenAre
  <2>8. n \in RootPut(Doings(d))
    BY <2>2, <2>7 DEF RootFollows, RootAfter
  <2>9. PICK m \in 1 .. Len(d.items) : n = d.items[m].name
    BY <2>6, <2>8 DEF RootPutAre
  <2>10. Titled(inp, n)
    BY <2>9, ItemsAreNamed DEF ItemNamed, Titled
  <2>11. QED BY <2>2, <2>10
<1>8. DOMAIN e.c.managed \subseteq Placed(e)
  BY <1>2 DEF OneNameEach
<1>9. Asked(e) = {} /\ e.extra = {}
  BY <1>6, <1>7
<1>10. QED BY <1>5, <1>8, <1>9 DEF RootSettled

(* The same when nothing can play on.                                      *)
LEMMA PlayableAgain ==
  ASSUME NEW inp, InputOK(inp), OwnTitles(inp), NEW next, InputOK(next), OwnTitles(next),
         NEW d, RootFollows(inp, d, next),
         NEW n \in Classify(next.remote, next.library).playable
  PROVE  /\ n \in Classify(inp.remote, inp.library).playable
         /\ n \in inp.requests => n \in next.requests
<1> DEFINE c == Classify(inp.remote, inp.library)
           e == Classify(next.remote, next.library)
<1>1. ClassOK(inp, c) /\ ClassOK(next, e)
  BY ClassifyIsOK
<1>2. n \in e.legacy
  BY <1>1 DEF ClassOK
<1>3. n \in DOMAIN next.remote.root \ AppNames(next)
  BY <1>1, <1>2 DEF ClassOK
<1>4. \A v \in inp.library : v.slug # n.slug \/ v.sha # n.sha
  BY <1>3 DEF OwnTitles, RootFollows
<1>5. ~ Titled(inp, n)
  BY <1>4 DEF Titled, NameOf
<1>6. /\ n \in DOMAIN inp.remote.root /\ next.remote.root[n] = inp.remote.root[n]
      /\ n \in inp.requests => n \in next.requests
  BY <1>3, <1>5 DEF RootFollows
<1>7. n \in c.legacy
  <2>1. n \notin AppNames(inp)
    BY <1>4 DEF AppNames, Matches
  <2>2. QED BY <1>1, <1>6, <2>1 DEF ClassOK
<1>8. n.slug \notin Unplayable /\ ~ next.remote.root[n].isDir /\ next.remote.root[n].size # 0
  BY <1>1 DEF ClassOK
<1>9. c.playable = {x \in c.legacy : /\ ~ inp.remote.root[x].isDir
                                     /\ inp.remote.root[x].size # 0
                                     /\ x.slug \notin Unplayable
                                     /\ {v \in inp.library : v.slug = x.slug /\ v.sha = x.sha} = {}}
  BY DEF Classify
<1>10. {v \in inp.library : v.slug = n.slug /\ v.sha = n.sha} = {}
  BY <1>4
<1> HIDE DEF c, e
<1>11. n \in c.playable
  BY <1>6, <1>7, <1>8, <1>9, <1>10
<1>12. QED BY <1>6, <1>11 DEF c

LEMMA NothingSettles ==
  ASSUME NEW inp, InputOK(inp), OwnTitles(inp), NEW d, d = DraftIn(inp), ~ Lasts(d, {}),
         NEW next, InputOK(next), OwnTitles(next), Whole(next), RootFollows(inp, d, next),
         StagingIs(inp, d, next), NEW e, e = DraftIn(next), e.wants = d.wants
  PROVE  RootSettled(d, e)
<1>1. /\ DraftOK(inp, d) /\ DraftOK(next, e) /\ d.inp = inp /\ e.inp = next
      /\ d.c = Classify(inp.remote, inp.library) /\ e.c = Classify(next.remote, next.library)
  <2>1. DraftOK(inp, d) /\ DraftOK(next, e)
    BY DraftIsOK
  <2>2. d.c = Classify(inp.remote, inp.library) /\ e.c = Classify(next.remote, next.library)
    BY DEF DraftIn, DraftOf
  <2>3. QED BY <2>1, <2>2 DEF DraftOK
<1>2. /\ 1 .. Len(d.items) = {} /\ d.extra = {}
      /\ DOMAIN next.remote.root = DOMAIN inp.remote.root
      /\ d.c.playable \subseteq inp.requests
  BY NothingShown
<1>3. next.library = inp.library
  BY DEF RootFollows
<1>4. ASSUME NEW id \in DOMAIN e.c.managed PROVE id \in DOMAIN d.c.managed
  <2>1. PICK v \in inp.library : v.id = id
    <3>1. \E v \in next.library : v.id = id
      BY <1>1, CopiesAreTitled
    <3>2. QED BY <1>3, <3>1
  <2>2. e.c.managed[id][1] \in DOMAIN next.remote.root /\ NameOf(v, e.c.managed[id][1])
    <3>1. 1 \in 1 .. Len(e.c.managed[id])
      BY <1>1 DEF DraftOK, ClassOK, CopiesApart
    <3>2. QED BY <1>1, <1>3, <2>1, <3>1, CopiesAreTitled
  <2>3. QED BY <1>1, <1>2, <2>1, <2>2, CopiesAreTitled
<1>5. ASSUME NEW id \in DOMAIN d.c.managed PROVE id \in DOMAIN e.c.managed
  <2>1. PICK v \in inp.library : v.id = id
    BY <1>1, CopiesAreTitled
  <2>2. d.c.managed[id][1] \in DOMAIN inp.remote.root /\ NameOf(v, d.c.managed[id][1])
    <3>1. 1 \in 1 .. Len(d.c.managed[id])
      BY <1>1 DEF DraftOK, ClassOK, CopiesApart
    <3>2. QED BY <1>1, <2>1, <3>1, CopiesAreTitled
  <2>3. QED BY <1>1, <1>2, <1>3, <2>1, <2>2, CopiesAreTitled
<1>6. GivenTo(inp, d.c, d.wants, NumbersIn(d), Growing(inp), Len(d.wants), d.items)
  BY ItemsGiven DEF Growing
<1>7. GivenTo(next, e.c, d.wants, NumbersIn(e), Growing(next), Len(d.wants), e.items)
  <2>1. GivenTo(next, e.c, e.wants, NumbersIn(e), Growing(next), Len(e.wants), e.items)
    BY ItemsGiven DEF Growing
  <2>2. QED BY <2>1
<1>8. ASSUME NEW i \in 1 .. Len(d.wants)
      PROVE  PutOff(d.wants[i].video, e.c, Growing(next)) /\ d.wants[i].video.id \notin DOMAIN e.c.managed
  <2>1. PutOff(d.wants[i].video, d.c, Growing(inp))
    BY <1>2, <1>6 DEF GivenTo
  <2>2. d.wants[i].video.id \notin DOMAIN e.c.managed
    BY <1>4, <2>1 DEF PutOff
  <2>3. QED BY <2>1, <2>2, PutOffAgain
<1>9. ASSUME NEW l \in 1 .. Len(e.items) PROVE FALSE
  BY <1>7, <1>8 DEF GivenTo
<1>10. ASSUME NEW n \in e.extra PROVE FALSE
  <2>1. PICK i \in 1 .. Len(e.wants) : e.wants[i].video.id \in DOMAIN e.c.managed
    BY <1>1, <1>10 DEF DraftOK, ExtraOK
  <2>2. QED BY <1>8, <2>1
<1>11. ASSUME Lasts(e, {}) PROVE FALSE
  <2>1. PICK n \in e.c.playable : n \notin next.requests
    BY <1>1, <1>9, <1>11 DEF Lasts
  <2>2. n \in d.c.playable /\ (n \in inp.requests => n \in next.requests)
    BY <1>1, <2>1, PlayableAgain
  <2>3. QED BY <1>2, <2>1, <2>2
<1>12. QED BY <1>5, <1>9, <1>10, <1>11 DEF RootSettled

-----------------------------------------------------------------------------
(* Nothing is left to do                                                   *)
LEMMA NothingLeft ==
  ASSUME NEW inp, InputOK(inp), NEW d, d = DraftIn(inp),
         NEW next, InputOK(next), Whole(next), StagingIs(inp, d, next), next.now = inp.now,
         NEW e, e = DraftIn(next), e.wants = d.wants, e.keep = d.keep,
         RootSettled(d, e)
  PROVE  Doings(e) = {}
<1>1. /\ DraftOK(inp, d) /\ DraftOK(next, e) /\ e.inp = next
      /\ e.c = Classify(next.remote, next.library)
  <2>1. DraftOK(inp, d) /\ DraftOK(next, e)
    BY DraftIsOK
  <2>2. e.c = Classify(next.remote, next.library)
    BY DEF DraftIn, DraftOf
  <2>3. QED BY <2>1, <2>2 DEF DraftOK
<1>2. /\ e.c.corrupt = {} /\ e.c.orphan = {}
      /\ \A x : x \in e.c.staged <=> Staged(x) \in DOMAIN next.remote.staging
      /\ e.c.parts = {s \in DOMAIN next.remote.staging : s.part}
  BY <1>1, WholeIsStaged
<1>3. DOMAIN d.keep = 1 .. Len(d.keep) /\ DOMAIN e.keep = 1 .. Len(e.keep) /\ DOMAIN e.items = 1 .. Len(e.items)
  BY KeptApart
<1>4. e.c.staged \ Needed(e) = {}
  <2>1. ASSUME NEW x \in e.c.staged PROVE x \in Needed(e)
    <3>1. PICK k \in DOMAIN d.keep : x = d.keep[k].video.sha
      BY <1>2, <2>1 DEF StagingIs
    <3>2. QED BY <3>1 DEF Needed
  <2>2. QED BY <2>1
<1>5. Stale(e) = {}
  BY <1>1, <1>2 DEF Stale, StagingIs
<1>6. SentItems(e) = {} /\ ShownItems(e) = {} /\ {k \in 1 .. Len(e.items) : Moves(e, k)} = {}
  BY DEF RootSettled, SentItems, ShownItems, Missing
<1>7. DoClear(e) = {}
  BY <1>2, <1>4, <1>5 DEF DoClear
<1>8. DoSend(e) = {} /\ DoShow(e) = {} /\ DoDrop(e) = {} /\ DoMove(e) = {}
  BY <1>6 DEF DoSend, DoShow, DoDrop, DoMove, RootSettled
<1>9. DoRemove(e) = {}
  <2>1. CASE Lasts(e, {})
    <3>1. DOMAIN e.c.managed \ Placed(e) = {} /\ Asked(e) = {}
      BY <2>1 DEF RootSettled
    <3>2. CopiesOf(e.c, DOMAIN e.c.managed \ Placed(e)) = {}
      BY <3>1 DEF CopiesOf
    <3>3. OutOf(e, ReadyIn(e)) = {}
      BY <3>1, <3>2 DEF OutOf
    <3>4. QED BY <3>3 DEF DoRemove
  <2>2. CASE ~ Lasts(e, {})
    BY <2>2 DEF DoRemove
  <2>3. QED BY <2>1, <2>2
<1>10. ASSUME NEW k \in AheadOnes(e) PROVE FALSE
  <2>1. /\ k \in 1 .. Len(e.keep)
        /\ Missing(e.keep[k].video, e.c)
        /\ e.keep[k].video.sha \notin ReadyIn(e) /\ e.keep[k].video.sha \notin Growing(next)
    BY <1>1, <1>10 DEF AheadOnes, Growing
  <2>2. k \in DOMAIN d.keep /\ e.keep[k] = d.keep[k]
    BY <1>3, <2>1
  <2>3. \/ ~ Lasts(d, {}) /\ d.keep[k].video.id \in DOMAIN d.c.managed
        \/ Staged(d.keep[k].video.sha) \in DOMAIN next.remote.staging
        \/ d.keep[k].video.sha \in Growing(next)
    BY <2>2 DEF StagingIs
  <2>4. CASE ~ Lasts(d, {}) /\ d.keep[k].video.id \in DOMAIN d.c.managed
    <3>1. e.keep[k].video.id \in DOMAIN e.c.managed
      BY <2>2, <2>4 DEF RootSettled
    <3>2. QED BY <2>1, <3>1 DEF Missing
  <2>5. CASE Staged(d.keep[k].video.sha) \in DOMAIN next.remote.staging
    <3>1. e.keep[k].video.sha \in e.c.staged
      BY <1>2, <2>2, <2>5
    <3>2. QED BY <2>1, <3>1 DEF Missing
  <2>6. CASE d.keep[k].video.sha \in Growing(next)
    BY <2>1, <2>2, <2>6
  <2>7. QED BY <2>3, <2>4, <2>5, <2>6
<1>11. DoStage(e) = {}
  BY <1>10 DEF DoStage
<1>12. QED BY <1>7, <1>8, <1>9, <1>11 DEF Doings

(* A plan without a limit that is carried out completely leaves nothing to *)
(* do: the plan made at once of what is there then is empty, if every      *)
(* visible name with the title and checksum of a library video is a copy   *)
(* of that video, and of no other, before and after.                       *)
THEOREM PlansSettle ==
  ASSUME NEW inp, InputOK(inp), OwnTitles(inp), Whole(inp),
         NEW next, InputOK(next), OwnTitles(next), Whole(next), next.maxBytes = None,
         Follows(inp, next)
  PROVE  Plan(next) = <<>>
<1> DEFINE d == DraftIn(inp)
           e == DraftIn(next)
<1>1. next.now = inp.now /\ next.wants = inp.wants /\ RootFollows(inp, d, next) /\ StagingFollows(inp, d, next)
  BY DEF Follows
<1>2. /\ d.wants = DesiredWants(inp.wants, inp.now) /\ d.keep = KeepStaged(inp.wants, inp.now)
      /\ e.wants = DesiredWants(next.wants, next.now) /\ e.keep = KeepStaged(next.wants, next.now)
  BY DEF DraftIn, DraftOf
<1>3. e.wants = d.wants /\ e.keep = d.keep
  BY <1>1, <1>2
<1>4. e.c = Classify(next.remote, next.library)
  BY DEF DraftIn, DraftOf
<1>5. e = DraftIn(next) /\ d = DraftIn(inp)
  OBVIOUS
<1> HIDE DEF d, e
<1>6. StagingIs(inp, d, next)
  BY <1>1, <1>5, StagingSettles
<1>7. RootSettled(d, e)
  <2>1. CASE Lasts(d, {})
    BY <1>1, <1>3, <1>5, <1>6, <2>1, RootSettles
  <2>2. CASE ~ Lasts(d, {})
    BY <1>1, <1>3, <1>5, <1>6, <2>2, NothingSettles
  <2>3. QED BY <2>1, <2>2
<1>8. Doings(e) = {}
  BY <1>1, <1>3, <1>5, <1>6, <1>7, NothingLeft
<1>9. e.c.corrupt = {} /\ e.c.orphan = {}
  BY <1>4, WholeIsStaged
<1>10. QED BY <1>5, <1>8, <1>9, PlanInOrder
=============================================================================
